----------------------------- MODULE ToolService -----------------------------
(***************************************************************************)
(* What the executor promises of the tools of one reply: they are asked    *)
(* for and begun in the order they were received, one that may not run     *)
(* beside others runs alone, and the turn takes one answer of each.  The   *)
(* turn is not over before all have been answered, unless it is abandoned  *)
(* (the reply is then asked for anew); what runs comes to its end all the  *)
(* same, and nobody takes the answers.                                     *)
(*                                                                         *)
(* It is a readers-writers lock on the workspace, first come first served. *)
(* How the queue is walked, what cancels a tool and in which order answers *)
(* are looked for: that is StreamingToolExecutor, which implements this.   *)
(***************************************************************************)
EXTENDS Integers, Sequences

CONSTANT Tools   \* numbered in the order they are received

VARIABLES
  shared,   \* tools that may run beside others
  asked,    \* tools asked for so far
  begun,    \* those that have begun
  ended,    \* those that have ended, or were refused
  answers,  \* tools in the order their answers were taken
  over      \* is the turn over, and how

toolVars == <<asked, begun, ended>>
serviceVars == <<shared, toolVars, answers, over>>

Init ==
  /\ shared \in SUBSET Tools
  /\ asked = {}
  /\ begun = {}
  /\ ended = {}
  /\ answers = << >>
  /\ over = "no"

Running == begun \ ended
Taken == {answers[i] : i \in DOMAIN answers}

\* It is the tool's turn, and it and what runs may run beside each other.  The
\* turn may have been interrupted: the tool then ends as it begins.
Admit(t) ==
  /\ t \notin begun
  /\ \A u \in Tools : u < t => u \in begun
  /\ \A u \in Running : {t, u} \subseteq shared
  /\ begun' = begun \union {t}
  /\ ended' \in {ended, ended \union {t}}

\* No such tool.
Refuse(t) ==
  /\ begun' = begun \union {t}
  /\ ended' = ended \union {t}

\* The next tool is asked for.  That may be the occasion for one to begin.
Ask(t) ==
  /\ over = "no"
  /\ t \notin asked
  /\ \A u \in Tools : u < t => u \in asked
  /\ asked' = asked \union {t}
  /\ Refuse(t) \/ (\E u \in asked' : Admit(u)) \/ UNCHANGED <<begun, ended>>
  /\ UNCHANGED <<shared, answers, over>>

Begin(t) ==
  /\ t \in asked
  /\ Admit(t)
  /\ UNCHANGED <<shared, asked, answers, over>>

End(t) ==
  /\ t \in Running
  /\ ended' = ended \union {t}
  /\ UNCHANGED <<shared, asked, begun, answers, over>>

Take(t) ==
  /\ over = "no"
  /\ t \in ended \ Taken
  /\ answers' = Append(answers, t)
  /\ UNCHANGED <<shared, toolVars, over>>

Finish ==
  /\ over = "no"
  /\ asked \subseteq Taken
  /\ over' = "answered"
  /\ UNCHANGED <<shared, toolVars, answers>>

Abandon ==
  /\ over = "no"
  /\ over' = "abandoned"
  /\ UNCHANGED <<shared, toolVars, answers>>

Next ==
  \/ \E t \in Tools : Ask(t) \/ Begin(t) \/ End(t) \/ Take(t)
  \/ Finish
  \/ Abandon

Spec == Init /\ [][Next]_serviceVars
=============================================================================
