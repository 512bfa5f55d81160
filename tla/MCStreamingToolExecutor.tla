----------------------- MODULE MCStreamingToolExecutor -----------------------
(* StreamingToolExecutor on small instances. *)
EXTENDS StreamingToolExecutor

Kind(known, safe, bash, behavior) ==
  [known |-> known, safe |-> safe, bash |-> bash, interruptBehavior |-> behavior]

Read == Kind(TRUE, TRUE, FALSE, "block")
Sleep == Kind(TRUE, TRUE, FALSE, "cancel")
Edit == Kind(TRUE, FALSE, FALSE, "block")
ReadOnlyBash == Kind(TRUE, TRUE, TRUE, "block")
Bash == Kind(TRUE, FALSE, TRUE, "block")
Unknown == Kind(FALSE, TRUE, FALSE, "block")

AllKinds == {Read, Sleep, Edit, ReadOnlyBash, Bash, Unknown}

\* Replies in which every kind occurs, and the kinds that differ in what they
\* do to each other meet in both orders.
Replies ==
  {<<ReadOnlyBash, ReadOnlyBash, Edit>>, <<Edit, ReadOnlyBash, Sleep>>,
   <<Read, Bash, Sleep>>, <<Unknown, Bash, Read>>}

MCInit == Init /\ kind \in Replies
MCSpec == MCInit /\ [][Next]_vars /\ Fairness
=============================================================================
