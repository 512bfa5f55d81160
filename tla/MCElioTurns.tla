----------------------------- MODULE MCElioTurns -----------------------------
(* ElioTurns on small instances. *)
EXTENDS ElioTurns
=============================================================================
