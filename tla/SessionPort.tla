----------------------------- MODULE SessionPort -----------------------------
(***************************************************************************)
(* What the server promises the users of one session id, the main loop and *)
(* the clients: one life of the session at a time takes messages; each     *)
(* message is for the life it was accepted for and reaches no other, once  *)
(* at most and in order; and the end of a life is reported at most once,   *)
(* and not before it.                                                      *)
(*                                                                         *)
(* A message waits, or is on its way, or is lost.  What waits is lost with *)
(* its life only; what is on its way when the wire of that life is cut is  *)
(* lost, and until the cut is noticed so is what is accepted.              *)
(*                                                                         *)
(* How a process is started and watched, which connection is whose, who is *)
(* told and how: that is ConversationService, which implements this.       *)
(***************************************************************************)
EXTENDS Integers, Sequences

CONSTANT Lives   \* the lives there may be, numbered in the order they begin

None == 0

VARIABLES
  born,      \* lives begun so far
  open,      \* the life that takes messages, or None
  gone,      \* lives that are over
  reported,  \* lives whose end was reported
  cut,       \* lives whose wire was cut without the server's notice
  accepted,  \* messages accepted so far: they are the numbers up to it
  waiting,   \* of each life, the messages that wait for a wire
  flying,    \* those that are on their way
  got        \* and those that arrived

lifeVars == <<born, open, gone, reported>>
messageVars == <<cut, accepted, waiting, flying, got>>
portVars == <<lifeVars, messageVars>>

Init ==
  /\ born = 0
  /\ open = None
  /\ gone = {}
  /\ reported = {}
  /\ cut = {}
  /\ accepted = 0
  /\ waiting = [g \in Lives |-> << >>]
  /\ flying = [g \in Lives |-> << >>]
  /\ got = [g \in Lives |-> << >>]

-----------------------------------------------------------------------------
(* Lives *)

Begin ==
  /\ born + 1 \in Lives
  /\ born' = born + 1
  /\ open' = born + 1
  /\ UNCHANGED <<gone, reported, messageVars>>

\* What was on its way to the life is lost, and nobody has noticed yet.
Fall(g) ==
  /\ flying' = [flying EXCEPT ![g] = << >>]
  /\ cut' \in {cut, cut \union {g}}
  /\ UNCHANGED <<accepted, waiting, got>>

End(g) ==
  /\ g \in 1..born \ gone
  /\ gone' = gone \union {g}
  /\ Fall(g)
  /\ UNCHANGED <<born, open, reported>>

\* A life that has been closed takes no messages ever again.
Close ==
  /\ open' = None
  /\ UNCHANGED <<born, gone, reported, messageVars>>

Report(g) ==
  /\ g \in gone \ reported
  /\ reported' = reported \union {g}
  /\ open' \in {None, open}
  /\ UNCHANGED <<born, gone, messageVars>>

-----------------------------------------------------------------------------
(* Messages *)

\* A message waits; or goes its way, if none waits; or is lost, by a cut that
\* has not been noticed only.
Accept ==
  /\ open # None
  /\ accepted' = accepted + 1
  /\ \/ /\ waiting' = [waiting EXCEPT ![open] = Append(@, accepted')]
        /\ UNCHANGED flying
     \/ /\ open \notin gone \union cut
        /\ waiting[open] = << >>
        /\ flying' = [flying EXCEPT ![open] = Append(@, accepted')]
        /\ UNCHANGED waiting
     \/ /\ open \in cut
        /\ UNCHANGED <<waiting, flying>>
  /\ UNCHANGED <<lifeVars, cut, got>>

\* What waits is sent on its way, all of it and in order.
HandOver ==
  /\ open # None
  /\ open \notin gone
  /\ flying' = [flying EXCEPT ![open] = @ \o waiting[open]]
  /\ waiting' = [waiting EXCEPT ![open] = << >>]
  /\ cut' = cut \ {open}
  /\ UNCHANGED <<lifeVars, accepted, got>>

Arrive(g) ==
  /\ g \notin gone
  /\ flying[g] # << >>
  /\ got' = [got EXCEPT ![g] = Append(@, Head(flying[g]))]
  /\ flying' = [flying EXCEPT ![g] = Tail(@)]
  /\ UNCHANGED <<lifeVars, cut, accepted, waiting>>

Cut(g) ==
  /\ g \in 1..born
  /\ Fall(g)
  /\ UNCHANGED lifeVars

Notice ==
  /\ cut' = cut \ {open}
  /\ UNCHANGED <<lifeVars, accepted, waiting, flying, got>>

-----------------------------------------------------------------------------

Next ==
  \/ Begin
  \/ \E g \in Lives : End(g) \/ Report(g) \/ Arrive(g) \/ Cut(g)
  \/ Close
  \/ Accept
  \/ HandOver
  \/ Notice

Spec == Init /\ [][Next]_portVars
=============================================================================
