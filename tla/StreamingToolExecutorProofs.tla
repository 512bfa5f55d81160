--------------------- MODULE StreamingToolExecutorProofs ---------------------
(***************************************************************************)
(* Proofs about StreamingToolExecutor: its types; that a tool which is not *)
(* concurrency-safe runs alone and is overtaken by none; that errors of a  *)
(* tool's own stand; and that every tool is answered once.  For any number *)
(* of tools and of processQueue() calls under way.                         *)
(*                                                                         *)
(* Order is the inductive strengthening of the first two.  A processQueue()*)
(* that looks at tool p next has seen every tool before p started          *)
(* (Scanned): that is why it may go on from p after an await without       *)
(* looking back.  Answers is about what each tool is told, Accounted about *)
(* what has been given to the turn.  Last, with Polling, the executor      *)
(* implements ToolService.                                                 *)
(***************************************************************************)
EXTENDS StreamingToolExecutor, TLAPS

Points == 1..MaxTools + 1
Statuses == {"absent", "queued", "executing", "completed", "yielded"}
Begun == {"executing", "completed", "yielded"}

\* Before a tool has begun, so has everything received before it.
Prefix(st, p) == \A u \in Tools : u < p => st[u] \in Begun

Alone(st) ==
  \A t, u \in Tools :
    st[t] = "executing" /\ st[u] = "executing" /\ t # u => kind[t].safe /\ kind[u].safe

\* Tools are added one after the other.
Suffix(st) == \A t, u \in Tools : st[t] = "absent" /\ t < u => st[u] = "absent"

InOrder(st) == \A t \in Tools : kind[t].known /\ st[t] \in Begun => Prefix(st, t)

Scanned(st, sc) == \A p \in Points : sc[p] > 0 => Prefix(st, p)

Order ==
  /\ Alone(status)
  /\ Suffix(status)
  /\ InOrder(status)
  /\ Scanned(status, scans)
  /\ Prefix(status, walk)

-----------------------------------------------------------------------------
(* The walk of processQueue() *)

\* Whatever the walk passes over on its way to the tool it starts has begun.
LEMMA WalkPassesBegun ==
  ASSUME NEW st \in [Tools -> Statuses], NEW p \in Points, NEW t \in Tools,
         Suffix(st), Prefix(st, p), First(t, Startable(st, p))
  PROVE  Prefix(st, t)
<1> SUFFICES ASSUME NEW u \in Tools, u < t, st[u] \notin Begun
             PROVE  FALSE
  BY DEF Prefix
<1>1. t \in Startable(st, p) /\ \A v \in Startable(st, p) : t <= v
  BY DEF First
<1>2. p <= u
  BY DEF Prefix, Tools, Points
<1>3. st[t] = "queued"
  BY <1>1 DEF Startable, With
<1>4. st[u] = "queued"
  BY <1>3 DEF Suffix, Statuses, Begun
<1>5. \A v \in Tools : st[v] = "queued" /\ p <= v /\ v < t => kind[v].safe
  BY <1>1 DEF Startable, With
<1>6. u \notin Startable(st, p)
  BY <1>1 DEF Tools
<1>7. \A v \in Tools : st[v] = "queued" /\ p <= v /\ v < u => kind[v].safe
  BY <1>5 DEF Tools
<1>8. ~CanExecute(st, u)
  BY <1>2, <1>4, <1>6, <1>7 DEF Startable, With
<1>9. \A w \in Tools : st[w] = "executing" => kind[w].safe
  BY <1>1 DEF Startable, CanExecute, With
<1>10. kind[u].safe
  BY <1>2, <1>4, <1>5
<1> QED
  BY <1>8, <1>9, <1>10 DEF CanExecute, With

\* The tool it starts may run beside those that do.
LEMMA StartedFits ==
  ASSUME NEW st \in [Tools -> Statuses], NEW p \in Points, NEW t \in Tools,
         Alone(st), First(t, Startable(st, p))
  PROVE  Alone([st EXCEPT ![t] = "executing"]) /\ Alone([st EXCEPT ![t] = "completed"])
<1>1. \A w \in Tools : st[w] = "executing" => kind[w].safe /\ kind[t].safe
  BY DEF First, Startable, CanExecute, With
<1> QED
  BY <1>1 DEF Alone

\* Starting the tool that is first in line keeps the order, and lets the walk
\* go on behind it.
LEMMA StartKeepsOrder ==
  ASSUME NEW st \in [Tools -> Statuses], NEW p \in Points, NEW t \in Tools,
         NEW x \in {"executing", "completed"},
         Alone(st), Suffix(st), InOrder(st), Prefix(st, p),
         First(t, Startable(st, p))
  PROVE  LET new == [st EXCEPT ![t] = x]
         IN  /\ Alone(new)
             /\ Suffix(new)
             /\ InOrder(new)
             /\ Prefix(new, t + 1)
             /\ \A q \in Int : Prefix(st, q) => Prefix(new, q)
<1> DEFINE new == [st EXCEPT ![t] = x]
<1>1. Prefix(st, t)
  BY WalkPassesBegun
<1>2. Alone(new)
  BY StartedFits
<1>3. st[t] = "queued"
  BY DEF First, Startable, With
<1>4. Suffix(new)
  BY <1>3 DEF Suffix
<1>5. \A q \in Int : Prefix(st, q) => Prefix(new, q)
  BY DEF Prefix, Begun
<1>6. Prefix(new, t + 1)
  BY <1>1 DEF Prefix, Begun, Tools
<1>7. InOrder(new)
  <2> SUFFICES ASSUME NEW u \in Tools, kind[u].known, new[u] \in Begun
               PROVE  Prefix(new, u)
    BY DEF InOrder
  <2>1. u \in Int
    BY DEF Tools
  <2>2. CASE u = t
    BY <1>1, <1>5, <2>1, <2>2
  <2>3. CASE u # t
    BY <1>5, <2>1, <2>3 DEF InOrder
  <2> QED
    BY <2>2, <2>3
<1> QED
  BY <1>2, <1>4, <1>5, <1>6, <1>7

-----------------------------------------------------------------------------
(* Types *)

LEMMA ReasonIsOutcome ==
  ASSUME NEW t \in Tools
  PROVE  AbortReason(t) \in Outcomes \cup {"none"}
BY DEF AbortReason, Outcomes

\* One more processQueue() under way.
LEMMA OneMoreScan ==
  ASSUME NEW sc \in [Points -> Nat], NEW p \in Points
  PROVE  [sc EXCEPT ![p] = @ + 1] \in [Points -> Nat]
OBVIOUS

\* Starting a tool keeps the types of what it changes.
LEMMA StartType ==
  ASSUME TypeOK, NEW st \in [Tools -> Statuses], NEW t \in Tools,
         NEW sc \in [Points -> Nat], Start(st, t, sc)
  PROVE  /\ status' \in [Tools -> Statuses]
         /\ results' \in [Tools -> Seq(Outcomes)]
         /\ scans' \in [Points -> Nat]
<1>1. status' \in [Tools -> Statuses]
  BY DEF Start, Launch, Statuses
<1>2. results' \in [Tools -> Seq(Outcomes)]
  <2>1. results[t] \in Seq(Outcomes)
    BY DEF TypeOK
  <2>2. AbortReason(t) # "none" => Append(results[t], AbortReason(t)) \in Seq(Outcomes)
    BY <2>1, ReasonIsOutcome
  <2> QED BY <2>2 DEF Start, Synthetic, TypeOK
<1>3. 1 \in Points
  BY MaxToolsAssumption DEF Points
<1>4. scans' \in [Points -> Nat]
  BY <1>3, OneMoreScan DEF Start
<1> QED BY <1>1, <1>2, <1>4

LEMMA StretchType ==
  ASSUME TypeOK, NEW st \in [Tools -> Statuses], NEW p \in Points,
         NEW sc \in [Points -> Nat], Stretch(st, p, sc)
  PROVE  /\ status' \in [Tools -> Statuses]
         /\ results' \in [Tools -> Seq(Outcomes)]
         /\ scans' \in [Points -> Nat]
<1>1. CASE Startable(st, p) = {} /\ status' = st /\ scans' = sc /\ UNCHANGED results
  BY <1>1 DEF TypeOK
<1>2. ASSUME NEW t \in Tools, Start(st, t, [sc EXCEPT ![t + 1] = @ + 1])
      PROVE  /\ status' \in [Tools -> Statuses]
             /\ results' \in [Tools -> Seq(Outcomes)]
             /\ scans' \in [Points -> Nat]
  <2>1. t + 1 \in Points
    BY MaxToolsAssumption DEF Tools, Points
  <2>2. [sc EXCEPT ![t + 1] = @ + 1] \in [Points -> Nat]
    BY <2>1, OneMoreScan
  <2> QED BY <1>2, <2>2, StartType
<1> QED BY <1>1, <1>2 DEF Stretch

\* Every variable keeps its type: in particular a processQueue() never looks
\* beyond the tools it was given.
THEOREM TypeCorrect == Spec => []TypeOK
<1>1. Init => TypeOK
  <2>1. 0 \in Nat /\ 0 \in 0..MaxTools + 1
    BY MaxToolsAssumption
  <2>2. << >> \in Seq(Outcomes) /\ << >> \in Seq(Tools)
    OBVIOUS
  <2> QED BY <2>1, <2>2 DEF Init, TypeOK
<1>2. TypeOK /\ [Next]_vars => TypeOK'
  <2> SUFFICES ASSUME TypeOK, [Next]_vars PROVE TypeOK'
    OBVIOUS
  <2> USE DEF turnVars
  <2>0. /\ status \in [Tools -> Statuses]
        /\ scans \in [Points -> Nat]
        /\ 1 \in Points
    BY MaxToolsAssumption DEF TypeOK, Statuses, Points
  <2>1. ASSUME NEW t \in Tools, AddTool(t) PROVE TypeOK'
    <3>1. CASE kind[t].known
      <4>1. [status EXCEPT ![t] = "queued"] \in [Tools -> Statuses]
        BY <2>0 DEF Statuses
      <4>2. /\ status' \in [Tools -> Statuses]
            /\ results' \in [Tools -> Seq(Outcomes)]
            /\ scans' \in [Points -> Nat]
        BY <2>0, <2>1, <3>1, <4>1, StretchType DEF AddTool
      <4> QED BY <2>1, <4>2 DEF TypeOK, AddTool, Statuses, Points
    <3>2. CASE ~kind[t].known
      <4>1. <<"error">> \in Seq(Outcomes)
        BY DEF Outcomes
      <4>2. results' \in [Tools -> Seq(Outcomes)]
        BY <2>1, <3>2, <4>1 DEF TypeOK, AddTool
      <4> QED BY <2>1, <3>2, <4>2 DEF TypeOK, AddTool
    <3> QED BY <3>1, <3>2
  <2>2. ASSUME NEW t \in Tools, Update(t) PROVE TypeOK'
    <3>1. CASE UpdateCancelled(t)
      <4>1. Append(results[t], AbortReason(t)) \in Seq(Outcomes)
        BY <3>1, ReasonIsOutcome DEF UpdateCancelled, Cancelled, TypeOK
      <4>2. results' \in [Tools -> Seq(Outcomes)]
        BY <3>1, <4>1 DEF UpdateCancelled, TypeOK
      <4>3. scans' \in [Points -> Nat]
        BY <2>0, <3>1, OneMoreScan DEF UpdateCancelled, Complete
      <4> QED BY <3>1, <4>2, <4>3 DEF TypeOK, UpdateCancelled, Complete, Points
    <3>2. ASSUME NEW o \in {"ok", "error"}, UpdateResult(t, o) PROVE TypeOK'
      <4>1. Append(results[t], o) \in Seq(Outcomes)
        BY DEF TypeOK, Outcomes
      <4>2. results' \in [Tools -> Seq(Outcomes)]
        BY <3>2, <4>1 DEF UpdateResult, TypeOK
      <4> QED BY <3>2, <4>2 DEF TypeOK, UpdateResult
    <3> QED BY <2>2, <3>1, <3>2 DEF Update
  <2>3. ASSUME NEW t \in Tools, ToolEnds(t) PROVE TypeOK'
    <3>1. scans' \in [Points -> Nat]
      BY <2>0, <2>3, OneMoreScan DEF ToolEnds, Complete
    <3> QED BY <2>3, <3>1 DEF TypeOK, ToolEnds, Complete, Points
  <2>4. ASSUME NEW t \in Tools, RejectPermission(t) PROVE TypeOK'
    BY <2>4 DEF TypeOK, RejectPermission, Aborts
  <2>5. ASSUME NEW by \in {"message", "request"}, Interrupt(by) PROVE TypeOK'
    BY <2>5 DEF TypeOK, Interrupt, Aborts
  <2>6. CASE Discard \/ EndStreaming \/ Finish
    BY <2>6 DEF TypeOK, Discard, EndStreaming, Finish
  <2>7. ASSUME NEW p \in Points, ContinueQueue(p) PROVE TypeOK'
    <3>1. [scans EXCEPT ![p] = @ - 1] \in [Points -> Nat]
      <4>1. scans[p] - 1 \in Nat
        BY <2>0, <2>7 DEF ContinueQueue
      <4> QED BY <2>0, <4>1
    <3>2. /\ status' \in [Tools -> Statuses]
          /\ results' \in [Tools -> Seq(Outcomes)]
          /\ scans' \in [Points -> Nat]
      BY <2>0, <2>7, <3>1, StretchType DEF ContinueQueue
    <3> QED BY <2>7, <3>2 DEF TypeOK, ContinueQueue, Statuses, Points
  <2>8. CASE GetCompletedResults \/ GetRemainingResults
    <3>1. cursor' \in 0..MaxTools + 1 /\ walk' \in 0..MaxTools + 1
      BY <2>8, MaxToolsAssumption DEF TypeOK, GetCompletedResults, GetRemainingResults
    <3> QED BY <2>8, <3>1 DEF TypeOK, GetCompletedResults, GetRemainingResults
  <2>9. CASE Yield
    <3>1. cursor' \in 0..MaxTools + 1
      BY <2>9, MaxToolsAssumption DEF TypeOK, Yield, Tools
    <3>2. status' \in [Tools -> Statuses]
      BY <2>0, <2>9 DEF Yield, Statuses
    <3>3. emitted' \in Seq(Tools)
      <4>1. \A t \in Tools : Append(emitted, t) \in Seq(Tools)
        BY DEF TypeOK
      <4> QED BY <2>9, <4>1 DEF TypeOK, Yield
    <3> QED BY <2>9, <3>1, <3>2, <3>3 DEF TypeOK, Yield, Statuses
  <2>10. CASE ContinueRound
    <3>1. cursor' \in 0..MaxTools + 1 /\ walk' \in 0..MaxTools + 1
      BY <2>10, MaxToolsAssumption DEF TypeOK, ContinueRound, Tools
    <3>2. /\ status' \in [Tools -> Statuses]
          /\ results' \in [Tools -> Seq(Outcomes)]
          /\ scans' \in [Points -> Nat]
      BY <2>0, <2>10, StartType DEF ContinueRound, TypeOK
    <3> QED BY <2>10, <3>1, <3>2 DEF TypeOK, ContinueRound, Statuses, Points
  <2>11. CASE UNCHANGED vars
    BY <2>11 DEF TypeOK, vars
  <2> QED BY <2>1, <2>2, <2>3, <2>4, <2>5, <2>6, <2>7, <2>8, <2>9, <2>10, <2>11
          DEF Next, Queue, Consumer, Points
<1> QED BY <1>1, <1>2, PTL DEF Spec

-----------------------------------------------------------------------------
(* Exclusive access and the order of starting *)

\* What a stretch of processQueue() leaves behind.
LEMMA StretchKeepsOrder ==
  ASSUME TypeOK, NEW st \in [Tools -> Statuses], NEW p \in Points,
         NEW sc \in [Points -> Nat],
         Alone(st), Suffix(st), InOrder(st), Scanned(st, sc), Prefix(st, p),
         kind' = kind, Stretch(st, p, sc)
  PROVE  /\ Alone(status)'
         /\ Suffix(status)'
         /\ InOrder(status)'
         /\ Scanned(status, scans)'
         /\ \A q \in Int : Prefix(st, q) => Prefix(status', q)
<1>1. CASE Startable(st, p) = {} /\ status' = st /\ scans' = sc /\ UNCHANGED results
  BY <1>1 DEF Alone, Suffix, InOrder, Scanned, Prefix
<1>2. ASSUME NEW t \in Tools, First(t, Startable(st, p)),
             Start(st, t, [sc EXCEPT ![t + 1] = @ + 1])
      PROVE  /\ Alone(status)'
             /\ Suffix(status)'
             /\ InOrder(status)'
             /\ Scanned(status, scans)'
             /\ \A q \in Int : Prefix(st, q) => Prefix(status', q)
  <2>1. PICK x \in {"executing", "completed"} : status' = [st EXCEPT ![t] = x]
    BY <1>2 DEF Start, Launch
  <2>2. /\ Alone(status')
        /\ Suffix(status')
        /\ InOrder(status')
        /\ Prefix(status', t + 1)
        /\ \A q \in Int : Prefix(st, q) => Prefix(status', q)
    BY <1>2, <2>1, StartKeepsOrder
  <2>3. Scanned(status', scans')
    <3> SUFFICES ASSUME NEW q \in Points, scans'[q] > 0
                 PROVE  Prefix(status', q)
      BY DEF Scanned
    <3>1. q \in Int
      BY DEF Points
    <3>2. CASE q = t + 1
      BY <2>2, <3>2
    <3>3. CASE q = 1
      BY <3>3 DEF Prefix, Tools
    <3>4. CASE q # t + 1 /\ q # 1
      <4>1. scans'[q] = sc[q]
        BY <1>2, <3>4 DEF Start
      <4> QED BY <2>2, <3>1, <4>1 DEF Scanned
    <3> QED BY <3>2, <3>3, <3>4
  <2>4. Alone(status)' /\ InOrder(status)'
    BY <2>2 DEF Alone, InOrder, Prefix
  <2>5. Suffix(status)' /\ Scanned(status, scans)'
    BY <2>2, <2>3 DEF Suffix, Scanned, Prefix
  <2> QED BY <2>2, <2>4, <2>5
<1> QED BY <1>1, <1>2 DEF Stretch

\* A tool that executed, and has ended or whose result was taken, disturbs
\* nothing; nor does a processQueue() that begins at the first tool.
LEMMA MoveOnKeepsOrder ==
  ASSUME TypeOK, Order, NEW t \in Tools, NEW x \in {"completed", "yielded"},
         status[t] \in {"executing", "completed"},
         status' = [status EXCEPT ![t] = x],
         scans' = scans \/ scans' = [scans EXCEPT ![1] = @ + 1],
         kind' = kind, walk' = walk
  PROVE  Order'
<1>0. status \in [Tools -> Statuses] /\ scans \in [Points -> Nat] /\ walk \in Int
  BY DEF TypeOK, Statuses, Points
<1>1. Alone(status)'
  BY DEF Order, Alone
<1>2. Suffix(status)'
  BY DEF Order, Suffix
<1>3. \A q \in Int : Prefix(status, q) => Prefix(status', q)
  BY <1>0 DEF Prefix, Begun
<1>4. InOrder(status)'
  <2> SUFFICES ASSUME NEW u \in Tools, kind[u].known, status'[u] \in Begun
               PROVE  Prefix(status', u)
    BY DEF InOrder, Prefix
  <2>1. status[u] \in Begun /\ u \in Int
    BY <1>0 DEF Begun, Tools
  <2>2. Prefix(status, u)
    BY <2>1 DEF Order, InOrder
  <2> QED BY <1>3, <2>1, <2>2
<1>5. Scanned(status, scans)'
  <2> SUFFICES ASSUME NEW q \in Points, scans'[q] > 0
               PROVE  Prefix(status', q)
    BY DEF Scanned, Prefix
  <2>1. CASE q = 1
    BY <2>1 DEF Prefix, Tools
  <2>2. CASE q # 1
    <3>0. q \in Int
      BY DEF Points
    <3>1. scans'[q] = scans[q]
      BY <1>0, <2>2
    <3>2. Prefix(status, q)
      BY <3>1 DEF Order, Scanned
    <3> QED BY <1>3, <3>0, <3>2
  <2> QED BY <2>1, <2>2
<1>6. Prefix(status, walk)'
  <2>1. Prefix(status', walk)
    BY <1>0, <1>3 DEF Order
  <2> QED BY <2>1 DEF Prefix
<1> QED BY <1>1, <1>2, <1>4, <1>5, <1>6 DEF Order

\* A block that streams in is behind all the others.
LEMMA AddKeepsOrder ==
  ASSUME TypeOK, Order, NEW t \in Tools, AddTool(t)
  PROVE  Order'
<1>0. /\ status \in [Tools -> Statuses]
      /\ scans \in [Points -> Nat]
      /\ walk \in Int
      /\ 1 \in Points
      /\ kind' = kind /\ walk' = walk
  BY MaxToolsAssumption DEF TypeOK, Statuses, Points, AddTool, turnVars
<1>a. status[t] = "absent" /\ \A u \in Tools : u < t => status[u] # "absent"
  BY DEF AddTool
<1>1. CASE kind[t].known
  <2> DEFINE st == [status EXCEPT ![t] = "queued"]
  <2>1. st \in [Tools -> Statuses]
    BY <1>0 DEF Statuses
  <2>2. Alone(st)
    BY <1>0, <1>a DEF Order, Alone
  <2>3. Suffix(st)
    BY <1>0, <1>a DEF Order, Suffix, Tools
  <2>4. \A q \in Int : Prefix(status, q) => Prefix(st, q)
    BY <1>0, <1>a DEF Prefix, Begun
  <2>5. InOrder(st)
    <3> SUFFICES ASSUME NEW u \in Tools, kind[u].known, st[u] \in Begun
                 PROVE  Prefix(st, u)
      BY DEF InOrder
    <3>1. status[u] \in Begun /\ u \in Int
      BY <1>0 DEF Begun, Tools
    <3>2. Prefix(status, u)
      BY <3>1 DEF Order, InOrder
    <3> QED BY <2>4, <3>1, <3>2
  <2>6. Scanned(st, scans)
    <3>1. \A q \in Points : q \in Int
      BY DEF Points
    <3> QED BY <2>4, <3>1 DEF Order, Scanned
  <2>7. Prefix(st, 1) /\ Prefix(st, walk)
    BY <1>0, <2>4 DEF Order, Prefix, Tools
  <2>8. Stretch(st, 1, scans)
    BY <1>1 DEF AddTool
  <2>9. /\ Alone(status)'
        /\ Suffix(status)'
        /\ InOrder(status)'
        /\ Scanned(status, scans)'
        /\ \A q \in Int : Prefix(st, q) => Prefix(status', q)
    BY <1>0, <2>1, <2>2, <2>3, <2>5, <2>6, <2>7, <2>8, StretchKeepsOrder
  <2>10. Prefix(status, walk)'
    BY <1>0, <2>7, <2>9 DEF Prefix
  <2> QED BY <2>9, <2>10 DEF Order
<1>2. CASE ~kind[t].known
  <2>1. status' = [status EXCEPT ![t] = "completed"] /\ scans' = scans
    BY <1>2 DEF AddTool
  <2>2. Alone(status)'
    BY <1>0, <1>a, <2>1 DEF Order, Alone
  <2>3. Suffix(status)'
    BY <1>0, <1>a, <2>1 DEF Order, Suffix, Tools
  <2>4. \A q \in Int : Prefix(status, q) => Prefix(status', q)
    BY <1>0, <2>1 DEF Prefix, Begun
  <2>5. InOrder(status)'
    <3> SUFFICES ASSUME NEW u \in Tools, kind[u].known, status'[u] \in Begun
                 PROVE  Prefix(status', u)
      BY <1>0 DEF InOrder, Prefix
    <3>1. status[u] \in Begun /\ u \in Int
      BY <1>0, <1>2, <2>1 DEF Begun, Tools
    <3>2. Prefix(status, u)
      BY <3>1 DEF Order, InOrder
    <3> QED BY <2>4, <3>1, <3>2
  <2>6. Scanned(status, scans)'
    <3> SUFFICES ASSUME NEW q \in Points, scans[q] > 0
                 PROVE  Prefix(status', q)
      BY <2>1 DEF Scanned, Prefix
    <3>1. q \in Int
      BY DEF Points
    <3> QED BY <2>4, <3>1 DEF Order, Scanned
  <2>7. Prefix(status, walk)'
    <3>1. Prefix(status', walk)
      BY <1>0, <2>4 DEF Order
    <3> QED BY <1>0, <3>1 DEF Prefix
  <2> QED BY <2>2, <2>3, <2>5, <2>6, <2>7 DEF Order
<1> QED BY <1>1, <1>2

\* Order is inductive.
LEMMA OrderInductive ==
  ASSUME TypeOK, Order, [Next]_vars
  PROVE  Order'
<1> USE DEF turnVars
<1>0. /\ status \in [Tools -> Statuses]
      /\ scans \in [Points -> Nat]
      /\ walk \in Int
  BY DEF TypeOK, Statuses, Points
<1>1. ASSUME NEW t \in Tools, AddTool(t) PROVE Order'
  BY <1>1, AddKeepsOrder
<1>2. ASSUME NEW t \in Tools, UpdateCancelled(t) \/ ToolEnds(t) PROVE Order'
  <2>1. /\ status[t] = "executing"
        /\ status' = [status EXCEPT ![t] = "completed"]
        /\ scans' = [scans EXCEPT ![1] = @ + 1]
        /\ kind' = kind /\ walk' = walk
    BY <1>2 DEF UpdateCancelled, ToolEnds, Complete
  <2> QED BY <2>1, MoveOnKeepsOrder
<1>3. ASSUME UNCHANGED <<kind, status, scans, walk>> PROVE Order'
  BY <1>3 DEF Order, Alone, Suffix, InOrder, Scanned, Prefix
<1>4. ASSUME NEW t \in Tools, NEW o \in {"ok", "error"}, UpdateResult(t, o) PROVE Order'
  BY <1>3, <1>4 DEF UpdateResult
<1>5. ASSUME NEW t \in Tools, RejectPermission(t) PROVE Order'
  BY <1>3, <1>5 DEF RejectPermission
<1>6. ASSUME NEW by \in {"message", "request"}, Interrupt(by) PROVE Order'
  BY <1>3, <1>6 DEF Interrupt
<1>7. CASE Discard \/ EndStreaming \/ Finish \/ GetCompletedResults
  BY <1>3, <1>7 DEF Discard, EndStreaming, Finish, GetCompletedResults
<1>8. CASE GetRemainingResults
  <2>1. Prefix(status, walk)'
    BY <1>8 DEF GetRemainingResults, Prefix, Tools
  <2> QED BY <1>8, <2>1 DEF GetRemainingResults, Order, Alone, Suffix, InOrder, Scanned, Prefix
<1>9. ASSUME NEW p \in Points, ContinueQueue(p) PROVE Order'
  <2> DEFINE sc == [scans EXCEPT ![p] = @ - 1]
  <2>1. sc \in [Points -> Nat]
    <3>1. scans[p] - 1 \in Nat
      BY <1>0, <1>9 DEF ContinueQueue
    <3> QED BY <1>0, <3>1
  <2>2. Prefix(status, p)
    BY <1>9 DEF ContinueQueue, Order, Scanned
  <2>3. Scanned(status, sc)
    <3> SUFFICES ASSUME NEW q \in Points, sc[q] > 0
                 PROVE  Prefix(status, q)
      BY DEF Scanned
    <3>1. scans[q] > 0
      BY <1>0, <1>9 DEF ContinueQueue
    <3> QED BY <3>1 DEF Order, Scanned
  <2>4. kind' = kind /\ walk' = walk /\ Stretch(status, p, sc)
    BY <1>9 DEF ContinueQueue
  <2>5. Alone(status) /\ Suffix(status) /\ InOrder(status) /\ Prefix(status, walk)
    BY DEF Order
  <2>6. /\ Alone(status)'
        /\ Suffix(status)'
        /\ InOrder(status)'
        /\ Scanned(status, scans)'
        /\ \A q \in Int : Prefix(status, q) => Prefix(status', q)
    BY <1>0, <2>1, <2>2, <2>3, <2>4, <2>5, StretchKeepsOrder
  <2>7. Prefix(status, walk)'
    BY <1>0, <2>4, <2>5, <2>6 DEF Prefix
  <2> QED BY <2>6, <2>7 DEF Order
<1>10. CASE Yield
  <2>1. CASE UNCHANGED status
    BY <1>3, <1>10, <2>1 DEF Yield
  <2>2. ASSUME NEW t \in Tools, First(t, Ready(cursor)),
               status' = [status EXCEPT ![t] = "yielded"]
        PROVE  Order'
    <3>1. status[t] = "completed"
      BY <2>2 DEF First, Ready, With
    <3>2. kind' = kind /\ walk' = walk /\ scans' = scans
      BY <1>10 DEF Yield
    <3> QED BY <2>2, <3>1, <3>2, MoveOnKeepsOrder
  <2> QED BY <1>10, <2>1, <2>2 DEF Yield
<1>11. CASE ContinueRound
  <2>1. CASE walk' = 0 /\ UNCHANGED <<status, scans>>
    <3>1. kind' = kind
      BY <1>11 DEF ContinueRound
    <3>2. Prefix(status, walk)'
      BY <2>1 DEF Prefix, Tools
    <3> QED BY <2>1, <3>1, <3>2 DEF Order, Alone, Suffix, InOrder, Scanned, Prefix
  <2>2. ASSUME NEW t \in Tools, First(t, Startable(status, walk)),
               Start(status, t, scans), walk' = t + 1
        PROVE  Order'
    <3>1. kind' = kind /\ walk \in Points
      BY <1>11 DEF ContinueRound, TypeOK, Points
    <3>2. PICK x \in {"executing", "completed"} : status' = [status EXCEPT ![t] = x]
      BY <2>2 DEF Start, Launch
    <3>3. /\ Alone(status')
          /\ Suffix(status')
          /\ InOrder(status')
          /\ Prefix(status', t + 1)
          /\ \A q \in Int : Prefix(status, q) => Prefix(status', q)
      BY <1>0, <2>2, <3>1, <3>2, StartKeepsOrder DEF Order
    <3>4. Scanned(status', scans')
      <4> SUFFICES ASSUME NEW q \in Points, scans'[q] > 0
                   PROVE  Prefix(status', q)
        BY DEF Scanned
      <4>1. q \in Int
        BY DEF Points
      <4>2. CASE q = 1
        BY <4>2 DEF Prefix, Tools
      <4>3. CASE q # 1
        <5>1. scans'[q] = scans[q]
          BY <1>0, <2>2, <4>3 DEF Start
        <5> QED BY <3>3, <4>1, <5>1 DEF Order, Scanned
      <4> QED BY <4>2, <4>3
    <3>5. Alone(status)' /\ InOrder(status)'
      BY <3>1, <3>3 DEF Alone, InOrder, Prefix
    <3>6. Suffix(status)' /\ Scanned(status, scans)' /\ Prefix(status, walk)'
      BY <2>2, <3>3, <3>4 DEF Suffix, Scanned, Prefix
    <3> QED BY <3>5, <3>6 DEF Order
  <2> QED BY <1>11, <2>1, <2>2 DEF ContinueRound
<1>12. CASE UNCHANGED vars
  BY <1>3, <1>12 DEF vars
<1> QED BY <1>1, <1>2, <1>4, <1>5, <1>6, <1>7, <1>8, <1>9, <1>10, <1>11, <1>12
        DEF Next, Queue, Consumer, Update, Points

LEMMA OrderInvariant == Spec => []Order
<1>1. Init => Order
  BY DEF Init, Order, Alone, Suffix, InOrder, Scanned, Prefix, Tools, Points, Begun
<1>2. TypeOK /\ Order /\ [Next]_vars => Order'
  BY OrderInductive
<1> QED BY <1>1, <1>2, TypeCorrect, PTL DEF Spec

\* A tool that is not concurrency-safe executes alone, whatever the number of
\* tools and however many processQueue() calls interleave.
THEOREM ExclusiveAccess == Spec => []Exclusive
<1>1. Order => Exclusive
  BY DEF Order, Alone, Exclusive, Executing, With
<1> QED BY <1>1, OrderInvariant, PTL

\* No tool starts before one that was received earlier: a tool that waits for
\* exclusive access is not overtaken.
THEOREM NoOvertaking == Spec => []StartedInOrder
<1>1. Order => StartedInOrder
  BY DEF Order, InOrder, Prefix, StartedInOrder, Started, Begun
<1> QED BY <1>1, OrderInvariant, PTL

-----------------------------------------------------------------------------
(* What the tools are answered with *)

\* An error of the tool's own stands alone, and a tool that blocks interrupts
\* is told of one only if the abort had another reason.
Sound(r, t) ==
  /\ \A i \in DOMAIN r : r[i] = "error" => Len(r) = 1
  /\ kind[t].interruptBehavior = "block" /\ abort \in {"none", "message"} =>
       \A i \in DOMAIN r : r[i] # "user_interrupted"

Answers ==
  /\ \A t \in Tools : status[t] \in {"absent", "queued"} => results[t] = << >>
  /\ \A t \in Tools : Sound(results[t], t)

\* getAbortReason() never gives "error", and spares the tools that block.
LEMMA ReasonIsSound ==
  ASSUME TypeOK, NEW t \in Tools
  PROVE  /\ AbortReason(t) # "error"
         /\ kind[t].interruptBehavior = "block" /\ abort \in {"none", "message"} =>
              AbortReason(t) # "user_interrupted"
BY DEF AbortReason, TypeOK

\* A first answer, or one more for a tool that has not failed itself.
LEMMA AppendIsSound ==
  ASSUME NEW t \in Tools, NEW r \in Seq(Outcomes), NEW x \in Outcomes, Sound(r, t),
         r = << >> \/ (x # "error" /\ \A i \in DOMAIN r : r[i] # "error"),
         kind[t].interruptBehavior = "block" /\ abort \in {"none", "message"} => x # "user_interrupted"
  PROVE  Sound(Append(r, x), t)
<1>1. /\ Len(Append(r, x)) = Len(r) + 1
      /\ DOMAIN Append(r, x) = 1..Len(r) + 1
      /\ \A i \in 1..Len(r) : Append(r, x)[i] = r[i]
      /\ Append(r, x)[Len(r) + 1] = x
  OBVIOUS
<1>2. DOMAIN r = 1..Len(r) /\ Len(r) \in Nat
  OBVIOUS
<1>3. \A i \in DOMAIN Append(r, x) : i \in DOMAIN r \/ i = Len(r) + 1
  BY <1>1, <1>2
<1>4. ASSUME NEW i \in DOMAIN Append(r, x), Append(r, x)[i] = "error"
      PROVE  Len(Append(r, x)) = 1
  <2>1. CASE r = << >>
    BY <1>1, <2>1
  <2>2. CASE x # "error" /\ \A j \in DOMAIN r : r[j] # "error"
    BY <1>1, <1>2, <1>3, <1>4, <2>2
  <2> QED BY <2>1, <2>2
<1>5. ASSUME NEW i \in DOMAIN Append(r, x),
             kind[t].interruptBehavior = "block", abort \in {"none", "message"}
      PROVE  Append(r, x)[i] # "user_interrupted"
  <2>1. CASE i = Len(r) + 1
    BY <1>1, <1>5, <2>1
  <2>2. CASE i \in DOMAIN r
    BY <1>1, <1>2, <1>5, <2>2 DEF Sound
  <2> QED BY <1>3, <2>1, <2>2
<1> QED BY <1>4, <1>5 DEF Sound

\* A step that leaves the kinds and the abort alone and appends one answer at
\* most, to a tool that has begun, keeps Answers.
LEMMA OneAnswer ==
  ASSUME TypeOK, Answers, NEW t \in Tools, NEW x \in Outcomes,
         kind' = kind, abort' = abort,
         results' = [results EXCEPT ![t] = Append(@, x)],
         results[t] = << >> \/ (x # "error" /\ ~ToolErrored(t)),
         kind[t].interruptBehavior = "block" /\ abort \in {"none", "message"} => x # "user_interrupted",
         \A u \in Tools : status'[u] \in {"absent", "queued"} =>
           u # t /\ status[u] \in {"absent", "queued"}
  PROVE  Answers'
<1>1. results[t] \in Seq(Outcomes) /\ Sound(results[t], t)
  BY DEF TypeOK, Answers
<1>2. results[t] = << >> \/ (x # "error" /\ \A i \in DOMAIN results[t] : results[t][i] # "error")
  BY DEF ToolErrored
<1>3. Sound(Append(results[t], x), t)
  BY <1>1, <1>2, AppendIsSound
<1>4. \A u \in Tools : results'[u] = IF u = t THEN Append(results[t], x) ELSE results[u]
  BY DEF TypeOK
<1>5. \A u \in Tools : Sound(results'[u], u)
  BY <1>3, <1>4 DEF Answers
<1>6. \A u \in Tools : Sound(results[u], u)'
  BY <1>5 DEF Sound
<1>7. \A u \in Tools : status'[u] \in {"absent", "queued"} => results'[u] = << >>
  BY <1>4 DEF Answers
<1> QED BY <1>6, <1>7 DEF Answers

\* No answer is given and nothing that has begun goes back; an abort may
\* happen.
LEMMA NoAnswer ==
  ASSUME TypeOK, Answers, kind' = kind, results' = results,
         abort' = abort \/ abort = "none",
         \A u \in Tools : status'[u] \in {"absent", "queued"} =>
           status[u] \in {"absent", "queued"}
  PROVE  Answers'
<1>1. ASSUME NEW u \in Tools PROVE Sound(results[u], u)'
  <2>1. Sound(results[u], u)
    BY DEF Answers
  <2> QED BY <2>1 DEF Sound
<1> QED BY <1>1 DEF Answers

\* Starting a tool answers it only if it is aborted.
LEMMA StartAnswers ==
  ASSUME TypeOK, Answers, NEW st \in [Tools -> Statuses], NEW t \in Tools, NEW sc,
         st[t] = "queued", results[t] = << >>,
         \A u \in Tools : u # t => (st[u] \in {"absent", "queued"} =>
                                      status[u] \in {"absent", "queued"}),
         kind' = kind, abort' = abort, Start(st, t, sc)
  PROVE  Answers'
<1>1. \A u \in Tools : status'[u] \in {"absent", "queued"} =>
        u # t /\ status[u] \in {"absent", "queued"}
  BY DEF Start, Launch
<1>2. CASE AbortReason(t) = "none"
  <2>1. results' = results
    BY <1>2 DEF Start, Synthetic, TypeOK
  <2> QED BY <1>1, <2>1, NoAnswer
<1>3. CASE AbortReason(t) # "none"
  <2>1. AbortReason(t) \in Outcomes
    BY <1>3, ReasonIsOutcome
  <2>2. results' = [results EXCEPT ![t] = Append(@, AbortReason(t))]
    BY <1>3 DEF Start, Synthetic
  <2> QED BY <1>1, <2>1, <2>2, ReasonIsSound, OneAnswer
<1> QED BY <1>2, <1>3

LEMMA AnswersInductive ==
  ASSUME TypeOK, Answers, [Next]_vars
  PROVE  Answers'
<1> USE DEF turnVars
<1>0. status \in [Tools -> Statuses]
  BY DEF TypeOK, Statuses
<1>1. ASSUME NEW t \in Tools, AddTool(t) PROVE Answers'
  <2>1. status[t] = "absent" /\ results[t] = << >> /\ kind' = kind /\ abort' = abort
    BY <1>1 DEF AddTool, Answers
  <2>2. CASE kind[t].known
    <3> DEFINE st == [status EXCEPT ![t] = "queued"]
    <3>1. st \in [Tools -> Statuses]
      BY <1>0 DEF Statuses
    <3>2. Stretch(st, 1, scans)
      BY <1>1, <2>2 DEF AddTool
    <3>3. \A u \in Tools : st[u] \in {"absent", "queued"} =>
                             status[u] \in {"absent", "queued"}
      BY <1>0, <2>1
    <3>4. CASE status' = st /\ UNCHANGED results
      BY <2>1, <3>3, <3>4, NoAnswer
    <3>5. ASSUME NEW u \in Tools, First(u, Startable(st, 1)),
                 Start(st, u, [scans EXCEPT ![u + 1] = @ + 1])
          PROVE  Answers'
      <4>1. st[u] = "queued"
        BY <3>5 DEF First, Startable, With
      <4>2. results[u] = << >>
        BY <3>3, <4>1 DEF Answers
      <4> QED BY <2>1, <3>1, <3>3, <3>5, <4>1, <4>2, StartAnswers
    <3> QED BY <3>2, <3>4, <3>5 DEF Stretch
  <2>3. CASE ~kind[t].known
    <3>1. Append(results[t], "error") = <<"error">>
      BY <2>1
    <3>2. results' = [results EXCEPT ![t] = Append(@, "error")]
      BY <1>1, <2>3, <3>1 DEF AddTool
    <3>3. status' = [status EXCEPT ![t] = "completed"]
      BY <1>1, <2>3 DEF AddTool
    <3>4. \A u \in Tools : status'[u] \in {"absent", "queued"} =>
            u # t /\ status[u] \in {"absent", "queued"}
      BY <1>0, <3>3
    <3>5. "error" \in Outcomes
      BY DEF Outcomes
    <3> QED BY <2>1, <3>2, <3>4, <3>5, OneAnswer
  <2> QED BY <2>2, <2>3
<1>2. ASSUME NEW t \in Tools, UpdateCancelled(t) PROVE Answers'
  <2>1. AbortReason(t) \in Outcomes /\ ~ToolErrored(t)
    BY <1>2, ReasonIsOutcome DEF UpdateCancelled, Cancelled
  <2>2. /\ results' = [results EXCEPT ![t] = Append(@, AbortReason(t))]
        /\ kind' = kind /\ abort' = abort
        /\ \A u \in Tools : status'[u] \in {"absent", "queued"} =>
             u # t /\ status[u] \in {"absent", "queued"}
    BY <1>0, <1>2 DEF UpdateCancelled, Complete
  <2> QED BY <2>1, <2>2, ReasonIsSound, OneAnswer
<1>3. ASSUME NEW t \in Tools, NEW o \in {"ok", "error"}, UpdateResult(t, o) PROVE Answers'
  <2>1. /\ results[t] = << >>
        /\ results' = [results EXCEPT ![t] = Append(@, o)]
        /\ kind' = kind /\ abort' = abort
        /\ \A u \in Tools : status'[u] \in {"absent", "queued"} =>
             u # t /\ status[u] \in {"absent", "queued"}
    BY <1>3 DEF UpdateResult
  <2>2. o \in Outcomes /\ o # "user_interrupted"
    BY DEF Outcomes
  <2> QED BY <2>1, <2>2, OneAnswer
<1>4. ASSUME NEW t \in Tools, ToolEnds(t) PROVE Answers'
  <2>1. /\ results' = results /\ kind' = kind /\ abort' = abort
        /\ \A u \in Tools : status'[u] \in {"absent", "queued"} =>
             status[u] \in {"absent", "queued"}
    BY <1>0, <1>4 DEF ToolEnds, Complete
  <2> QED BY <2>1, NoAnswer
<1>5. ASSUME NEW t \in Tools, RejectPermission(t) PROVE Answers'
  BY <1>5, NoAnswer DEF RejectPermission
<1>6. ASSUME NEW by \in {"message", "request"}, Interrupt(by) PROVE Answers'
  BY <1>6, NoAnswer DEF Interrupt
<1>7. CASE Discard \/ EndStreaming \/ Finish \/ GetCompletedResults \/ GetRemainingResults
  BY <1>7, NoAnswer DEF Discard, EndStreaming, Finish, GetCompletedResults,
                        GetRemainingResults
<1>8. ASSUME NEW t \in Tools, NEW p, NEW sc, First(t, Startable(status, p)),
             Start(status, t, sc), kind' = kind, abort' = abort
      PROVE  Answers'
  <2>1. status[t] = "queued"
    BY <1>8 DEF First, Startable, With
  <2>2. results[t] = << >>
    BY <2>1 DEF Answers
  <2> QED BY <1>0, <1>8, <2>1, <2>2, StartAnswers
<1>9. ASSUME NEW p \in Points, ContinueQueue(p) PROVE Answers'
  <2>1. kind' = kind /\ abort' = abort
    BY <1>9 DEF ContinueQueue
  <2>2. CASE status' = status /\ UNCHANGED results
    BY <2>1, <2>2, NoAnswer
  <2> QED BY <1>8, <1>9, <2>1, <2>2 DEF ContinueQueue, Stretch
<1>10. CASE Yield
  <2>1. /\ results' = results /\ kind' = kind /\ abort' = abort
        /\ \A u \in Tools : status'[u] \in {"absent", "queued"} =>
             status[u] \in {"absent", "queued"}
    BY <1>0, <1>10 DEF Yield
  <2> QED BY <2>1, NoAnswer
<1>11. CASE ContinueRound
  <2>1. kind' = kind /\ abort' = abort
    BY <1>11 DEF ContinueRound
  <2>2. CASE UNCHANGED <<status, results>>
    BY <2>1, <2>2, NoAnswer
  <2> QED BY <1>8, <1>11, <2>1, <2>2 DEF ContinueRound
<1>12. CASE UNCHANGED vars
  BY <1>12, NoAnswer DEF vars
<1> QED BY <1>1, <1>2, <1>3, <1>4, <1>5, <1>6, <1>7, <1>9, <1>10, <1>11, <1>12
        DEF Next, Queue, Consumer, Update, Points

LEMMA AnswersInvariant == Spec => []Answers
<1>1. Init => Answers
  BY DEF Init, Answers, Sound
<1>2. TypeOK /\ Answers /\ [Next]_vars => Answers'
  BY AnswersInductive
<1> QED BY <1>1, <1>2, TypeCorrect, PTL DEF Spec

\* A tool that failed by itself is answered by that error alone, although its
\* error may cancel it with its siblings.
THEOREM OwnErrorAnswers == Spec => []OwnErrorStands
<1>1. Answers => OwnErrorStands
  BY DEF Answers, Sound, OwnErrorStands, ToolErrored
<1> QED BY <1>1, AnswersInvariant, PTL

\* A submitted message interrupts no tool that blocks interrupts.
THEOREM MessageSparesBlockTools == Spec => []BlockToolsOutliveMessage
<1>1. Answers => BlockToolsOutliveMessage
  BY DEF Answers, Sound, BlockToolsOutliveMessage
<1> QED BY <1>1, AnswersInvariant, PTL
-----------------------------------------------------------------------------
(* That every tool is answered *)

Ended == {"completed", "yielded"}
Over == phase = "finished" /\ ~discarded

\* The results given are those of the tools marked so, a tool that has ended
\* has an answer, and a turn that goes on leaves no tool behind.
Accounted ==
  /\ \A t \in Tools : t \in Given <=> status[t] = "yielded"
  /\ \A i, j \in DOMAIN emitted : i # j => emitted[i] # emitted[j]
  /\ \A t \in Tools : status[t] \in Ended => results[t] # << >>
  /\ Over => \A t \in Tools : status[t] \in {"absent", "yielded"}

LEMMA AnswerAdded ==
  ASSUME NEW r \in Seq(Outcomes), NEW x
  PROVE  Append(r, x) # << >>
<1>1. Len(Append(r, x)) = Len(r) + 1 /\ Len(r) \in Nat
  OBVIOUS
<1>2. Len(<< >>) = 0
  OBVIOUS
<1> QED BY <1>1, <1>2

\* Steps that give no result to the turn.
LEMMA NothingGiven ==
  ASSUME TypeOK, Accounted, emitted' = emitted,
         \A t \in Tools : status'[t] = "yielded" <=> status[t] = "yielded",
         \A t \in Tools : status'[t] \in Ended => results'[t] # << >>,
         Over' => \A t \in Tools : status'[t] \in {"absent", "yielded"}
  PROVE  Accounted'
  BY DEF Accounted, Given

\* Starting a tool ends it only with an answer.
LEMMA StartAccounted ==
  ASSUME TypeOK, Accounted, NEW st \in [Tools -> Statuses], NEW t \in Tools, NEW sc,
         st[t] = "queued", ~Over', emitted' = emitted,
         \A u \in Tools : u # t => st[u] = status[u] \/ st[u] = "queued",
         \A u \in Tools : status[u] = "yielded" => st[u] = "yielded",
         Start(st, t, sc)
  PROVE  Accounted'
<1>1. \A u \in Tools : u # t => status'[u] = st[u] /\ results'[u] = results[u]
  BY DEF Start, Launch, Synthetic, TypeOK
<1>2. status'[t] \in {"executing", "completed"}
  BY DEF Start, Launch
<1>3. status'[t] = "completed" => results'[t] # << >>
  <2>1. results[t] \in Seq(Outcomes)
    BY DEF TypeOK
  <2>2. Append(results[t], AbortReason(t)) # << >>
    BY <2>1, AnswerAdded
  <2> QED BY <2>2 DEF Start, Launch, Synthetic, TypeOK
<1>4. \A u \in Tools : status'[u] \in Ended => results'[u] # << >>
  BY <1>1, <1>2, <1>3 DEF Accounted, Ended
<1>5. \A u \in Tools : status'[u] = "yielded" <=> status[u] = "yielded"
  BY <1>1, <1>2
<1> QED BY <1>4, <1>5, NothingGiven

LEMMA AccountedInductive ==
  ASSUME TypeOK, Accounted, [Next]_vars
  PROVE  Accounted'
<1> USE DEF turnVars
<1>0. /\ status \in [Tools -> Statuses]
      /\ results \in [Tools -> Seq(Outcomes)]
      /\ \A t \in Tools : status[t] \in Ended => results[t] # << >>
  BY DEF TypeOK, Statuses, Accounted
<1>1. ASSUME NEW t \in Tools, AddTool(t) PROVE Accounted'
  <2>1. status[t] = "absent" /\ ~Over' /\ emitted' = emitted
    BY <1>1 DEF AddTool, Over
  <2>2. CASE kind[t].known
    <3> DEFINE st == [status EXCEPT ![t] = "queued"]
    <3>1. /\ st \in [Tools -> Statuses]
          /\ \A u \in Tools : st[u] = status[u] \/ st[u] = "queued"
          /\ \A u \in Tools : status[u] = "yielded" <=> st[u] = "yielded"
      BY <1>0, <2>1 DEF Statuses
    <3>2. Stretch(st, 1, scans)
      BY <1>1, <2>2 DEF AddTool
    <3>3. CASE status' = st /\ UNCHANGED results
      BY <1>0, <2>1, <3>1, <3>3, NothingGiven DEF Ended
    <3>4. ASSUME NEW u \in Tools, First(u, Startable(st, 1)),
                 Start(st, u, [scans EXCEPT ![u + 1] = @ + 1])
          PROVE  Accounted'
      <4>1. st[u] = "queued"
        BY <3>4 DEF First, Startable, With
      <4> HIDE DEF st
      <4> QED BY <2>1, <3>1, <3>4, <4>1, StartAccounted
    <3> QED BY <3>2, <3>3, <3>4 DEF Stretch
  <2>3. CASE ~kind[t].known
    <3>1. /\ status' = [status EXCEPT ![t] = "completed"]
          /\ results' = [results EXCEPT ![t] = <<"error">>]
      BY <1>1, <2>3 DEF AddTool
    <3>2. \A u \in Tools : status'[u] \in Ended => results'[u] # << >>
      BY <1>0, <3>1
    <3>3. \A u \in Tools : status'[u] = "yielded" <=> status[u] = "yielded"
      BY <1>0, <2>1, <3>1
    <3> QED BY <2>1, <3>2, <3>3, NothingGiven
  <2> QED BY <2>2, <2>3
<1>2. ASSUME NEW t \in Tools, UpdateCancelled(t) PROVE Accounted'
  <2>1. /\ status[t] = "executing" /\ status' = [status EXCEPT ![t] = "completed"]
        /\ results' = [results EXCEPT ![t] = Append(results[t], AbortReason(t))]
        /\ UNCHANGED <<phase, discarded, emitted>>
    BY <1>2 DEF UpdateCancelled, Complete
  <2>2. Append(results[t], AbortReason(t)) # << >>
    BY <1>0, AnswerAdded
  <2>3. \A u \in Tools : status'[u] \in Ended => results'[u] # << >>
    BY <1>0, <2>1, <2>2
  <2>4. ~Over'
    BY <2>1 DEF Accounted, Over
  <2>5. \A u \in Tools : status'[u] = "yielded" <=> status[u] = "yielded"
    BY <1>0, <2>1
  <2> QED BY <2>1, <2>3, <2>4, <2>5, NothingGiven
<1>3. ASSUME NEW t \in Tools, NEW o \in {"ok", "error"}, UpdateResult(t, o) PROVE Accounted'
  <2>1. /\ results' = [results EXCEPT ![t] = Append(results[t], o)]
        /\ UNCHANGED <<status, phase, discarded, emitted>>
    BY <1>3 DEF UpdateResult
  <2>2. Append(results[t], o) # << >>
    BY <1>0, AnswerAdded
  <2>3. \A u \in Tools : status'[u] \in Ended => results'[u] # << >>
    BY <1>0, <2>1, <2>2
  <2> QED BY <2>1, <2>3, NothingGiven DEF Accounted, Over
<1>4. ASSUME NEW t \in Tools, ToolEnds(t) PROVE Accounted'
  <2>1. /\ status[t] = "executing" /\ status' = [status EXCEPT ![t] = "completed"]
        /\ results[t] # << >> /\ UNCHANGED <<results, phase, discarded, emitted>>
    BY <1>4 DEF ToolEnds, Complete
  <2>2. ~Over'
    BY <2>1 DEF Accounted, Over
  <2>3. \A u \in Tools : status'[u] \in Ended => results'[u] # << >>
    BY <1>0, <2>1
  <2>4. \A u \in Tools : status'[u] = "yielded" <=> status[u] = "yielded"
    BY <1>0, <2>1
  <2> QED BY <2>1, <2>2, <2>3, <2>4, NothingGiven
<1>5. ASSUME UNCHANGED <<status, results, emitted>>, Over' => Over PROVE Accounted'
  BY <1>0, <1>5, NothingGiven DEF Accounted
<1>6. ASSUME NEW t \in Tools, RejectPermission(t) PROVE Accounted'
  BY <1>5, <1>6 DEF RejectPermission, Over
<1>7. ASSUME NEW by \in {"message", "request"}, Interrupt(by) PROVE Accounted'
  BY <1>5, <1>7 DEF Interrupt, Over
<1>8. CASE Discard \/ EndStreaming \/ GetCompletedResults \/ GetRemainingResults
  BY <1>5, <1>8 DEF Discard, EndStreaming, GetCompletedResults, GetRemainingResults, Over
<1>9. CASE Finish
  <2>1. UNCHANGED <<status, results, emitted>> /\ ~Unfinished
    BY <1>9 DEF Finish
  <2>2. \A t \in Tools : status[t] \in {"absent", "yielded"}
    BY <2>1 DEF Unfinished
  <2> QED BY <1>0, <2>1, <2>2, NothingGiven
<1>10. ASSUME NEW t \in Tools, NEW p, NEW sc, First(t, Startable(status, p)),
              Start(status, t, sc), emitted' = emitted, Over' => Over
       PROVE  Accounted'
  <2>1. status[t] = "queued"
    BY <1>10 DEF First, Startable, With
  <2>2. ~Over'
    BY <1>10, <2>1 DEF Accounted
  <2> QED BY <1>0, <1>10, <2>1, <2>2, StartAccounted
<1>11. ASSUME NEW p \in Points, ContinueQueue(p) PROVE Accounted'
  <2>1. emitted' = emitted /\ (Over' => Over)
    BY <1>11 DEF ContinueQueue, Over
  <2>2. CASE status' = status /\ UNCHANGED results
    BY <1>5, <2>1, <2>2
  <2> QED BY <1>10, <1>11, <2>1, <2>2 DEF ContinueQueue, Stretch
<1>12. CASE ContinueRound
  <2>1. emitted' = emitted /\ (Over' => Over)
    BY <1>12 DEF ContinueRound, Over
  <2>2. CASE UNCHANGED <<status, results>>
    BY <1>5, <2>1, <2>2
  <2> QED BY <1>10, <1>12, <2>1, <2>2 DEF ContinueRound
<1>13. CASE Yield
  <2>1. CASE UNCHANGED <<status, emitted>>
    BY <1>5, <1>13, <2>1 DEF Yield, Over
  <2>2. ASSUME NEW t \in Tools, First(t, Ready(cursor)),
               status' = [status EXCEPT ![t] = "yielded"], emitted' = Append(emitted, t)
        PROVE  Accounted'
    <3>1. status[t] = "completed" /\ UNCHANGED <<results, phase, discarded>>
      BY <1>13, <2>2 DEF Yield, First, Ready, With
    <3>2. /\ DOMAIN emitted = 1..Len(emitted) /\ Len(emitted) \in Nat
          /\ DOMAIN emitted' = 1..(Len(emitted) + 1)
          /\ \A i \in DOMAIN emitted : emitted'[i] = emitted[i]
          /\ emitted'[Len(emitted) + 1] = t
      BY <2>2 DEF TypeOK
    <3>3. \A i \in DOMAIN emitted' : i \in DOMAIN emitted \/ i = Len(emitted) + 1
      BY <3>2
    <3>4. \A u \in Tools : u \in Given' <=> u \in Given \/ u = t
      <4>1. Given' = Given \union {t}
        BY <3>2, <3>3 DEF Given
      <4> QED BY <4>1
    <3>5. t \notin Given /\ ~Over'
      BY <3>1 DEF Accounted, Over
    <3>6. \A i, j \in DOMAIN emitted' : i # j => emitted'[i] # emitted'[j]
      <4>1. \A i \in DOMAIN emitted : emitted[i] # t
        BY <3>5 DEF Given
      <4> QED BY <3>2, <3>3, <4>1 DEF Accounted
    <3>7. \A u \in Tools : u \in Given' <=> status'[u] = "yielded"
      BY <1>0, <2>2, <3>4 DEF Accounted
    <3>8. \A u \in Tools : status'[u] \in Ended => results'[u] # << >>
      BY <1>0, <2>2, <3>1 DEF Ended
    <3> QED BY <3>5, <3>6, <3>7, <3>8 DEF Accounted
  <2> QED BY <1>13, <2>1, <2>2 DEF Yield
<1>14. CASE UNCHANGED vars
  BY <1>5, <1>14 DEF vars, Over
<1> QED BY <1>1, <1>2, <1>3, <1>4, <1>6, <1>7, <1>8, <1>9, <1>11, <1>12, <1>13, <1>14
        DEF Next, Queue, Consumer, Update, Points

LEMMA AccountedInvariant == Spec => []Accounted
<1>1. Init => Accounted
  BY DEF Init, Accounted, Given, Ended, Over
<1>2. TypeOK /\ Accounted /\ [Next]_vars => Accounted'
  BY AccountedInductive
<1> QED BY <1>1, <1>2, TypeCorrect, PTL DEF Spec

\* Every tool_use given to the executor has been answered, once, when the turn
\* goes on (getCompletedResults() and getRemainingResults()).
THEOREM EveryToolAnswered == Spec => []AllAnswered
<1>1. TypeOK /\ Accounted => AllAnswered
  BY DEF TypeOK, Accounted, AllAnswered, Ended, Over
<1> QED BY <1>1, AccountedInvariant, TypeCorrect, PTL
-----------------------------------------------------------------------------
(* The executor implements ToolService *)

\* Nobody polls for results once the turn is over.
Polling ==
  /\ walk # 0 => phase = "remaining"
  /\ cursor # 0 => phase # "finished"

LEMMA PollingInductive == Polling /\ [Next]_vars => Polling'
<1> SUFFICES ASSUME Polling, [Next]_vars PROVE Polling'
  OBVIOUS
<1> USE DEF Polling, turnVars
<1>1. ASSUME NEW t \in Tools, AddTool(t) \/ Update(t) \/ ToolEnds(t) \/ RejectPermission(t)
      PROVE  Polling'
  BY <1>1 DEF AddTool, Update, UpdateCancelled, UpdateResult, ToolEnds, RejectPermission
<1>2. ASSUME NEW by \in {"message", "request"}, Interrupt(by) PROVE Polling'
  BY <1>2 DEF Interrupt
<1>3. CASE Queue
  BY <1>3 DEF Queue, ContinueQueue
<1>4. CASE Yield
  BY <1>4 DEF Yield
<1>5. CASE ContinueRound
  BY <1>5 DEF ContinueRound
<1>6. CASE GetCompletedResults \/ GetRemainingResults \/ EndStreaming
  BY <1>6 DEF GetCompletedResults, GetRemainingResults, EndStreaming
<1>7. CASE UNCHANGED vars
  BY <1>7 DEF vars
<1>8. CASE Finish \/ Discard
  BY <1>8 DEF Finish, Discard
<1> QED BY <1>1, <1>2, <1>3, <1>4, <1>5, <1>6, <1>7, <1>8 DEF Next, Consumer

LEMMA PollingInvariant == Spec => []Polling
<1>1. Init => Polling
  BY DEF Init, Polling
<1> QED BY <1>1, PollingInductive, PTL DEF Spec

\* The statuses, as the service sees them.
LEMMA ServiceView ==
  ASSUME status \in [Tools -> Statuses]
  PROVE  /\ \A t \in Tools : t \in Started <=> status[t] \in Begun
         /\ \A t \in Tools : t \in With(status, "completed") \union With(status, "yielded")
                              <=> status[t] \in Ended
         /\ Service!Running = Executing
         /\ Service!Taken = Given
  BY DEF Started, With, Begun, Ended, Statuses, Executing, Given, Service!Running, Service!Taken

\* The walk of a processQueue() starts a tool the service may begin: those
\* before it have begun (it has seen them), and the guard keeps it from running
\* beside a tool it must not disturb.  st is status, but for a tool just added.
LEMMA WalkAdmits ==
  ASSUME status \in [Tools -> Statuses], NEW st \in [Tools -> Statuses],
         NEW p \in Points, NEW t \in Tools, NEW sc,
         \A u \in Tools : st[u] # status[u] => status[u] = "absent" /\ st[u] = "queued",
         Suffix(st), Prefix(st, p), First(t, Startable(st, p)), Start(st, t, sc)
  PROVE  /\ st[t] = "queued"
         /\ Service!Admit(t)
         /\ {u \in Tools : status'[u] # "absent"} = {u \in Tools : st[u] # "absent"}
<1>1. t \in Startable(st, p) /\ Prefix(st, t)
  BY WalkPassesBegun DEF First
<1>2. st[t] = "queued" /\ CanExecute(st, t)
  BY <1>1 DEF Startable, With
<1>3. PICK x \in {"executing", "completed"} : status' = [st EXCEPT ![t] = x]
  BY DEF Start, Launch
<1>4. \A u \in Tools : u # t => status'[u] = st[u]
  BY <1>3
<1>5. status'[t] = x
  BY <1>3
<1>6. \A u \in Tools : st[u] \in Begun <=> status[u] \in Begun
  BY DEF Begun
<1>7. status[t] \notin Begun
  BY <1>2, <1>6 DEF Begun
<1>8. Started' = Started \union {t}
  BY <1>4, <1>5, <1>6 DEF Started, Begun
<1>9. \/ With(status, "completed")' \union With(status, "yielded")'
           = With(status, "completed") \union With(status, "yielded")
      \/ With(status, "completed")' \union With(status, "yielded")'
           = (With(status, "completed") \union With(status, "yielded")) \union {t}
  <2>1. \A u \in Tools : u # t => (status'[u] \in Ended <=> status[u] \in Ended)
    BY <1>4 DEF Ended
  <2>2. status[t] \notin Ended
    BY <1>7 DEF Begun, Ended
  <2>3. CASE x = "executing"
    BY <1>5, <2>1, <2>2, <2>3 DEF With, Ended
  <2>4. CASE x = "completed"
    BY <1>5, <2>1, <2>2, <2>4 DEF With, Ended
  <2> QED BY <2>3, <2>4
<1>10. \A u \in Tools : u < t => u \in Started
  BY <1>1, <1>6, ServiceView DEF Prefix
<1>11. \A u \in Service!Running : {t, u} \subseteq {v \in Tools : kind[v].safe}
  <2>1. \A u \in Executing : st[u] = "executing" /\ u \in Tools
    BY DEF Executing, With
  <2> QED BY <1>2, <2>1, ServiceView DEF CanExecute, With
<1>12. {u \in Tools : status'[u] # "absent"} = {u \in Tools : st[u] # "absent"}
  BY <1>2, <1>4, <1>5
<1> QED BY <1>2, <1>7, <1>8, <1>9, <1>10, <1>11, <1>12, ServiceView DEF Service!Admit

\* Steps that change no status that matters, or end a tool that runs.
LEMMA EndingTool ==
  ASSUME status \in [Tools -> Statuses], NEW t \in Tools, status[t] = "executing",
         status' = [status EXCEPT ![t] = "completed"],
         kind' = kind, phase' = phase, discarded' = discarded, emitted' = emitted
  PROVE  Service!End(t)
<1>1. \A u \in Tools : u # t => status'[u] = status[u]
  OBVIOUS
<1>2. status'[t] = "completed"
  OBVIOUS
<1>3. t \in Service!Running
  BY ServiceView DEF Executing, With
<1>4. Started' = Started
  BY <1>1, <1>2 DEF Started
<1>5. With(status, "completed")' \union With(status, "yielded")'
        = (With(status, "completed") \union With(status, "yielded")) \union {t}
  BY <1>1, <1>2 DEF With
<1>6. {u \in Tools : status'[u] # "absent"} = {u \in Tools : status[u] # "absent"}
  BY <1>1, <1>2
<1> QED BY <1>3, <1>4, <1>5, <1>6 DEF Service!End

LEMMA AddingTool ==
  ASSUME TypeOK, Order, NEW t \in Tools, AddTool(t)
  PROVE  Service!Ask(t)
<1> DEFINE A == {u \in Tools : status[u] # "absent"}
<1>0. /\ status \in [Tools -> Statuses]
      /\ kind' = kind /\ phase' = phase /\ discarded' = discarded /\ emitted' = emitted
      /\ phase = "streaming"
      /\ status[t] = "absent"
      /\ \A u \in Tools : u < t => status[u] # "absent"
  BY DEF TypeOK, Statuses, AddTool, turnVars
<1>1. t \notin A /\ \A u \in Tools : u < t => u \in A
  BY <1>0
<1>2. CASE kind[t].known
  <2> DEFINE st == [status EXCEPT ![t] = "queued"]
  <2>1. /\ st \in [Tools -> Statuses]
        /\ \A u \in Tools : st[u] # status[u] => status[u] = "absent" /\ st[u] = "queued"
        /\ {u \in Tools : st[u] # "absent"} = A \union {t}
    BY <1>0 DEF Statuses
  <2>2. Suffix(st)
    BY <1>0 DEF Order, Suffix, Tools
  <2>3. Prefix(st, 1) /\ 1 \in Points
    BY MaxToolsAssumption DEF Prefix, Tools, Points
  <2>4. Stretch(st, 1, scans)
    BY <1>2 DEF AddTool
  <2> HIDE DEF st
  <2>5. CASE status' = st
    <3>1. Started' = Started /\ With(status, "completed")' = With(status, "completed")
                             /\ With(status, "yielded")' = With(status, "yielded")
      BY <2>1, <2>5 DEF Started, With
    <3> QED BY <1>0, <1>1, <2>1, <2>5, <3>1 DEF Service!Ask
  <2>6. ASSUME NEW u \in Tools, First(u, Startable(st, 1)),
               Start(st, u, [scans EXCEPT ![u + 1] = @ + 1])
        PROVE  Service!Ask(t)
    <3>1. /\ st[u] = "queued"
          /\ Service!Admit(u)
          /\ {v \in Tools : status'[v] # "absent"} = {v \in Tools : st[v] # "absent"}
      BY <1>0, <2>1, <2>2, <2>3, <2>6, WalkAdmits
    <3>2. {v \in Tools : status'[v] # "absent"} = A \union {t} /\ u \in A \union {t}
      BY <2>1, <3>1
    <3> QED BY <1>0, <1>1, <3>1, <3>2 DEF Service!Ask
  <2> QED BY <2>4, <2>5, <2>6 DEF Stretch
<1>3. CASE ~kind[t].known
  <2>1. status' = [status EXCEPT ![t] = "completed"]
    BY <1>3 DEF AddTool
  <2>2. status'[t] = "completed" /\ \A u \in Tools : u # t => status'[u] = status[u]
    BY <1>0, <2>1
  <2>3. Started' = Started \union {t}
    BY <2>2 DEF Started
  <2>4. With(status, "completed")' \union With(status, "yielded")'
          = (With(status, "completed") \union With(status, "yielded")) \union {t}
    BY <2>2 DEF With
  <2>5. {u \in Tools : status'[u] # "absent"} = A \union {t}
    BY <2>2
  <2> QED BY <1>0, <1>1, <2>3, <2>4, <2>5 DEF Service!Ask, Service!Refuse
<1> QED BY <1>2, <1>3

LEMMA ServiceStep ==
  ASSUME TypeOK, Order, Accounted, Polling, [Next]_vars
  PROVE  [Service!Next]_(Service!serviceVars)
<1> USE DEF turnVars
<1>0. status \in [Tools -> Statuses]
  BY DEF TypeOK, Statuses
<1>1. ASSUME NEW t \in Tools, AddTool(t) PROVE Service!Next
  BY <1>1, AddingTool DEF Service!Next
<1>2. ASSUME NEW t \in Tools, UpdateCancelled(t) \/ ToolEnds(t) PROVE Service!Next
  <2>1. /\ status[t] = "executing"
        /\ status' = [status EXCEPT ![t] = "completed"]
        /\ kind' = kind /\ phase' = phase /\ discarded' = discarded /\ emitted' = emitted
    BY <1>2 DEF UpdateCancelled, ToolEnds, Complete
  <2> QED BY <1>0, <2>1, EndingTool DEF Service!Next
<1>3. ASSUME UNCHANGED <<kind, status, emitted, phase, discarded>>
      PROVE  UNCHANGED Service!serviceVars
  BY <1>3 DEF Service!serviceVars, Service!toolVars, Started, With
<1>4. ASSUME NEW t \in Tools, NEW o \in {"ok", "error"}, UpdateResult(t, o)
      PROVE  UNCHANGED Service!serviceVars
  BY <1>3, <1>4 DEF UpdateResult
<1>5. ASSUME NEW t \in Tools, RejectPermission(t) PROVE UNCHANGED Service!serviceVars
  BY <1>3, <1>5 DEF RejectPermission
<1>6. ASSUME NEW by \in {"message", "request"}, Interrupt(by)
      PROVE  UNCHANGED Service!serviceVars
  BY <1>3, <1>6 DEF Interrupt
<1>7. CASE GetCompletedResults \/ GetRemainingResults
  BY <1>3, <1>7 DEF GetCompletedResults, GetRemainingResults
<1>8. CASE EndStreaming
  <2>1. /\ UNCHANGED <<kind, status, emitted, discarded>>
        /\ phase # "finished" /\ phase' # "finished"
    BY <1>8 DEF EndStreaming
  <2>2. UNCHANGED <<Started, With(status, "completed"), With(status, "yielded")>>
    BY <2>1 DEF Started, With
  <2>3. UNCHANGED Service!serviceVars
    BY <2>1, <2>2 DEF Service!serviceVars, Service!toolVars
  <2> QED BY <2>3
<1>9. CASE Discard
  <2>1. /\ UNCHANGED <<kind, status, emitted>>
        /\ phase # "finished" /\ phase' = "finished" /\ discarded'
    BY <1>9 DEF Discard
  <2>2. UNCHANGED <<Started, With(status, "completed"), With(status, "yielded")>>
    BY <2>1 DEF Started, With
  <2>3. Service!Abandon
    BY <2>1, <2>2 DEF Service!Abandon, Service!toolVars
  <2> QED BY <2>3 DEF Service!Next
<1>10. ASSUME NEW t \in Tools, NEW p \in Points, NEW sc, Prefix(status, p),
              First(t, Startable(status, p)), Start(status, t, sc),
              UNCHANGED <<kind, emitted, phase, discarded>>
       PROVE  Service!Next
  <2>1. /\ status[t] = "queued"
        /\ Service!Admit(t)
        /\ {u \in Tools : status'[u] # "absent"} = {u \in Tools : status[u] # "absent"}
    BY <1>0, <1>10, WalkAdmits DEF Order
  <2>2. Service!Begin(t)
    BY <1>10, <2>1 DEF Service!Begin
  <2> QED BY <2>2 DEF Service!Next
<1>11. ASSUME NEW p \in Points, ContinueQueue(p) PROVE [Service!Next]_(Service!serviceVars)
  <2>1. Prefix(status, p) /\ UNCHANGED <<kind, emitted, phase, discarded>>
    BY <1>11 DEF ContinueQueue, Order, Scanned
  <2>2. CASE status' = status
    BY <1>3, <2>1, <2>2
  <2> QED BY <1>10, <1>11, <2>1, <2>2 DEF ContinueQueue, Stretch
<1>12. CASE ContinueRound
  <2>1. /\ walk \in Points /\ Prefix(status, walk)
        /\ UNCHANGED <<kind, emitted, phase, discarded>>
    BY <1>12 DEF ContinueRound, Order, TypeOK, Points
  <2>2. CASE status' = status
    BY <1>3, <2>1, <2>2
  <2> QED BY <1>10, <1>12, <2>1, <2>2 DEF ContinueRound
<1>13. CASE Yield
  <2>1. phase # "finished" /\ UNCHANGED <<kind, phase, discarded>>
    BY <1>13 DEF Yield, Polling
  <2>2. CASE UNCHANGED <<status, emitted>>
    BY <1>3, <2>1, <2>2
  <2>3. ASSUME NEW t \in Tools, First(t, Ready(cursor)),
               status' = [status EXCEPT ![t] = "yielded"], emitted' = Append(emitted, t)
        PROVE  Service!Take(t)
    <3>1. status[t] = "completed"
      BY <2>3 DEF First, Ready, With
    <3>2. t \notin Given
      BY <3>1 DEF Accounted
    <3>3. status'[t] = "yielded" /\ \A u \in Tools : u # t => status'[u] = status[u]
      BY <1>0, <2>3
    <3>4. Started' = Started
      BY <3>1, <3>3 DEF Started
    <3>5. With(status, "completed")' \union With(status, "yielded")'
            = With(status, "completed") \union With(status, "yielded")
      BY <3>1, <3>3 DEF With
    <3>6. {u \in Tools : status'[u] # "absent"} = {u \in Tools : status[u] # "absent"}
      BY <3>1, <3>3
    <3>7. t \in (With(status, "completed") \union With(status, "yielded")) \ Service!Taken
      BY <1>0, <3>1, <3>2, ServiceView DEF With
    <3> QED BY <2>1, <2>3, <3>4, <3>5, <3>6, <3>7 DEF Service!Take, Service!toolVars
  <2> QED BY <1>13, <2>2, <2>3 DEF Yield, Service!Next
<1>14. CASE Finish
  <2>1. /\ UNCHANGED <<kind, status, emitted, discarded>>
        /\ phase # "finished" /\ phase' = "finished"
        /\ \A t \in Tools : status[t] \in {"absent", "yielded"}
    BY <1>14 DEF Finish, Unfinished
  <2>2. UNCHANGED <<Started, With(status, "completed"), With(status, "yielded")>>
    BY <2>1 DEF Started, With
  <2>3. {t \in Tools : status[t] # "absent"} \subseteq Service!Taken
    BY <1>0, <2>1, ServiceView DEF Accounted
  <2>4. CASE ~discarded
    BY <2>1, <2>2, <2>3, <2>4 DEF Service!Next, Service!Finish, Service!toolVars
  <2>5. CASE discarded
    BY <2>1, <2>2, <2>5 DEF Service!Next, Service!Abandon, Service!toolVars
  <2> QED BY <2>4, <2>5
<1>15. CASE UNCHANGED vars
  BY <1>3, <1>15 DEF vars
<1> QED BY <1>1, <1>2, <1>4, <1>5, <1>6, <1>7, <1>8, <1>9, <1>11, <1>12, <1>13, <1>14, <1>15
        DEF Next, Queue, Consumer, Update, Points

\* The executor implements ToolService, for any number and kinds of tools and
\* however its processQueue() calls, polls, aborts and fallbacks interleave: a
\* readers-writers lock on the workspace, first come first served, with one
\* answer each before the turn goes on.
THEOREM ToolsServed == Spec => ServesTools
<1>1. Init => Service!Init
  <2> SUFFICES ASSUME Init PROVE Service!Init
    OBVIOUS
  <2>1. phase = "streaming" /\ emitted = << >> /\ \A t \in Tools : status[t] = "absent"
    BY DEF Init
  <2> QED BY <2>1 DEF Service!Init, Started, With
<1>2. TypeOK /\ Order /\ Accounted /\ Polling /\ [Next]_vars
        => [Service!Next]_(Service!serviceVars)
  BY ServiceStep
<1> QED BY <1>1, <1>2, TypeCorrect, OrderInvariant, AccountedInvariant, PollingInvariant, PTL
        DEF Spec, ServesTools, Service!Spec
=============================================================================
