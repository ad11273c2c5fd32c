----------------------------- MODULE MCSegments -----------------------------
EXTENDS Segments
=============================================================================
