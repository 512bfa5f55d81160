----------------------------- MODULE MCTurnLoop -----------------------------
(* TurnLoop on small instances. *)
EXTENDS TurnLoop, TLC

CONSTANTS a1, a2, s1
=============================================================================
