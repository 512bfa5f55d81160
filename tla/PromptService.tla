---------------------------- MODULE PromptService ----------------------------
(***************************************************************************)
(* What the headless CLI promises whoever sends it prompts: they are       *)
(* settled in the order they were sent.  Each is settled once, either      *)
(* answered, together with its neighbours, by the result of one turn, or   *)
(* superseded with the result that was to answer it.  Results come in the  *)
(* order of the turns.                                                     *)
(*                                                                         *)
(* Nothing is said of queues, interrupts, background tasks or of results   *)
(* that are held back: that is how TurnLoop, which implements this module, *)
(* goes about it.                                                          *)
(***************************************************************************)
EXTENDS Integers, Sequences

VARIABLES
  sent,      \* prompts sent: they are the numbers up to it
  settled,   \* prompts answered or superseded
  turn,      \* turns begun
  answers    \* results given, each with its turn and the prompts it answers

serviceVars == <<sent, settled, turn, answers>>

Init ==
  /\ sent = 0
  /\ settled = {}
  /\ turn = 0
  /\ answers = << >>

Open == (1..sent) \ settled

\* No open prompt was sent before one of these.
InLine(batch) == \A p \in batch, q \in Open \ batch : p < q

Send ==
  /\ sent' = sent + 1
  /\ UNCHANGED <<settled, turn, answers>>

BeginTurn ==
  /\ turn' = turn + 1
  /\ UNCHANGED <<sent, settled, answers>>

\* The prompts of a result that is not going to be given.
Supersede(gone) ==
  /\ InLine(gone)
  /\ settled' = settled \union gone
  /\ UNCHANGED <<sent, turn, answers>>

\* The result of turn n answers a batch; one not given before is superseded.
Answer(gone, batch, n) ==
  /\ gone \intersect batch = {}
  /\ InLine(gone)
  /\ InLine(gone \union batch)
  /\ \A i \in DOMAIN answers : answers[i].turn < n
  /\ settled' = settled \union gone \union batch
  /\ answers' = Append(answers, [turn |-> n, prompts |-> batch])
  /\ UNCHANGED <<sent, turn>>

Next ==
  \/ Send
  \/ BeginTurn
  \/ \E gone \in SUBSET Open :
       \/ Supersede(gone)
       \/ \E batch \in SUBSET Open, n \in 1..turn : Answer(gone, batch, n)

Spec == Init /\ [][Next]_serviceVars
=============================================================================
