------------------------------- MODULE MCShell -------------------------------
EXTENDS Shell
=============================================================================
