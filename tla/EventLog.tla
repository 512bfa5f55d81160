------------------------------- MODULE EventLog -------------------------------
(***************************************************************************)
(* What Elio's memory promises whoever reads its directory: a log of       *)
(* events that only grows, each linked to the one before it.  An event is  *)
(* enriched in the background, and what was written of it is never taken   *)
(* back; it is finished once, and from then on it stays as it is.          *)
(*                                                                         *)
(* Nothing is said of ticks, retries and kills: a kill and the restart     *)
(* after it change nothing here.  Memory implements this module.           *)
(***************************************************************************)
EXTENDS Integers

VARIABLES
  count,     \* events captured: they are the numbers up to it
  log,       \* of each event, the narrative that was written
  links,     \* pairs of an event and the next
  edges,     \* events with inferred edges
  finished   \* events enriched for good

logVars == <<count, log, links, edges, finished>>

Init ==
  /\ count = 0
  /\ log = [i \in {} |-> "none"]
  /\ links = {}
  /\ edges = {}
  /\ finished = {}

\* The next event, linked to the latest.
Capture ==
  /\ count' = count + 1
  /\ log' = [i \in DOMAIN log \union {count + 1} |->
               IF i = count + 1 THEN "none" ELSE log[i]]
  /\ links' = links \union (IF count = 0 THEN {} ELSE {<<count, count + 1>>})
  /\ UNCHANGED <<edges, finished>>

\* What a narrative may become.
Growth(narrative) ==
  CASE narrative = "none" -> {"none", "partial", "full"}
    [] narrative = "partial" -> {"partial", "full"}
    [] OTHER -> {narrative}

\* An event is finished.  What was found out so far about others, which are not
\* finished, may be written along.
Finish(i) ==
  /\ i \in DOMAIN log \ finished
  /\ finished' = finished \union {i}
  /\ DOMAIN log' = DOMAIN log
  /\ \A j \in DOMAIN log :
       log'[j] \in IF j \in finished THEN {log[j]} ELSE Growth(log[j])
  /\ edges' \in {edges, edges \union {i}}
  /\ UNCHANGED <<count, links>>

Next == Capture \/ \E i \in DOMAIN log : Finish(i)

Spec == Init /\ [][Next]_logVars
=============================================================================
