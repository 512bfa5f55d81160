------------------------------ MODULE MCMainLoop ------------------------------
(* MainLoop on small instances. *)
EXTENDS MainLoop

CONSTANTS p1, p2   \* percepts
=============================================================================
