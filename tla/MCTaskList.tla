----------------------------- MODULE MCTaskList -----------------------------
(* TaskList on small instances. *)
EXTENDS TaskList, TLC

Alike == Permutations(Callers)
=============================================================================
