----------------------------- MODULE MCStringLib -----------------------------
(* Model-checking instance of StringLib.                                   *)
EXTENDS StringLib
=============================================================================
