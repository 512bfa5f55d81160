------------------------------ MODULE MCMemory ------------------------------
(* Memory on small instances. *)
EXTENDS Memory

CONSTANTS t1, t2   \* ticks
=============================================================================
