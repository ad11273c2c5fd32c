------------------------------ MODULE MCMemory ------------------------------
(* Model-checking instance of Memory.                                      *)
EXTENDS Memory
====
