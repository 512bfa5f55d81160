---------------------------- MODULE TaskListProofs ----------------------------
(***************************************************************************)
(* Type correctness of the shared task list, its fresh ids, and what the   *)
(* locks of its tasks are for, with any number of callers and tasks.       *)
(*                                                                         *)
(* Fresh says where the ids ever given are recorded and what a caller has  *)
(* seen of them at each step of its numbering.  Held, Faithful and         *)
(* Unwritten say that a caller writes what it read under a lock that only  *)
(* it has, and that nobody writes a file under creation, if its id was     *)
(* given once.                                                             *)
(***************************************************************************)
EXTENDS TaskList, FiniteSetTheorems, WellFoundedInduction, TLAPS

-----------------------------------------------------------------------------
(* Changes of a task *)

Values == Callers \union {Nobody} \union Statuses \union SUBSET Ids

\* What a change may set: fields with values that fit them.
Sets == {s \in UNION {[F -> Values] : F \in SUBSET Fields} :
           /\ "owner" \in DOMAIN s => s["owner"] \in Callers \union {Nobody}
           /\ "status" \in DOMAIN s => s["status"] \in Statuses
           /\ "blocks" \in DOMAIN s => s["blocks"] \subseteq Ids
           /\ "blockedBy" \in DOMAIN s => s["blockedBy"] \subseteq Ids}

Change == [task : Ids, set : Sets, claim : BOOLEAN]

LEMMA MergedTask ==
  ASSUME NEW old \in Task, NEW s \in Sets
  PROVE  Merged(old, s) \in Task
<1> DEFINE m == Merged(old, s)
<1>1. /\ old.owner \in Callers \union {Nobody} /\ old.status \in Statuses
      /\ old.blocks \subseteq Ids /\ old.blockedBy \subseteq Ids
  BY DEF Task
<1>2. /\ m = [f \in Fields |-> m[f]]
      /\ m["owner"] \in Callers \union {Nobody} /\ m["status"] \in Statuses
      /\ m["blocks"] \subseteq Ids /\ m["blockedBy"] \subseteq Ids
  BY <1>1 DEF Merged, Sets, Fields
<1> HIDE DEF m
<1>3. m \in Task
  BY <1>2 DEF Task, Fields
<1> QED
  BY <1>3 DEF m

LEMMA SetsTyped ==
  ASSUME NEW o \in Callers \union {Nobody}, NEW s \in Statuses,
         NEW B \in SUBSET Ids, NEW D \in SUBSET Ids
  PROVE  /\ [owner |-> o] \in Sets
         /\ [status |-> s] \in Sets
         /\ [status |-> s, owner |-> o] \in Sets
         /\ [owner |-> o, status |-> s] \in Sets
         /\ [blocks |-> B] \in Sets
         /\ [blockedBy |-> B] \in Sets
         /\ [blocks |-> B, blockedBy |-> D] \in Sets
<1>1. [owner |-> o] \in Sets
  <2>1. [owner |-> o] \in [{"owner"} -> Values]
    BY DEF Values
  <2> QED
    BY <2>1 DEF Sets, Fields
<1>2. [status |-> s] \in Sets
  <2>1. [status |-> s] \in [{"status"} -> Values]
    BY DEF Values
  <2> QED
    BY <2>1 DEF Sets, Fields
<1>3. [status |-> s, owner |-> o] \in Sets
  <2>1. [status |-> s, owner |-> o] \in [{"status", "owner"} -> Values]
    BY DEF Values
  <2> QED
    BY <2>1 DEF Sets, Fields
<1>4. [owner |-> o, status |-> s] \in Sets
  <2>1. [owner |-> o, status |-> s] \in [{"owner", "status"} -> Values]
    BY DEF Values
  <2> QED
    BY <2>1 DEF Sets, Fields
<1>5. [blocks |-> B] \in Sets
  <2>1. [blocks |-> B] \in [{"blocks"} -> Values]
    BY DEF Values
  <2> QED
    BY <2>1 DEF Sets, Fields
<1>6. [blockedBy |-> B] \in Sets
  <2>1. [blockedBy |-> B] \in [{"blockedBy"} -> Values]
    BY DEF Values
  <2> QED
    BY <2>1 DEF Sets, Fields
<1>7. [blocks |-> B, blockedBy |-> D] \in Sets
  <2>1. [blocks |-> B, blockedBy |-> D] \in [{"blocks", "blockedBy"} -> Values]
    BY DEF Values
  <2> QED
    BY <2>1 DEF Sets, Fields
<1> QED
  BY <1>1, <1>2, <1>3, <1>4, <1>5, <1>6, <1>7

\* The sequences of changes that a call makes.
LEMMA OneChange ==
  ASSUME NEW u \in Change
  PROVE  <<u>> \in Seq(Change)
OBVIOUS

LEMMA TwoChanges ==
  ASSUME NEW u \in Change, NEW v \in Change
  PROVE  <<u, v>> \in Seq(Change)
OBVIOUS

LEMMA ChangesJoined ==
  ASSUME NEW v \in Seq(Change), NEW w \in Seq(Change)
  PROVE  v \o w \in Seq(Change)
OBVIOUS

LEMMA FirstAndRest ==
  ASSUME NEW w \in Seq(Change), w # << >>
  PROVE  Head(w) \in Change /\ Tail(w) \in Seq(Change)
OBVIOUS

LEMMA UpdateIsChange ==
  ASSUME NEW t \in Ids, NEW s \in Sets
  PROVE  Update(t, s) \in Change
  BY DEF Update, Change

LEMMA ClaimIsChange ==
  ASSUME NEW t \in Ids, NEW c \in Callers
  PROVE  Claim(t, c) \in Change
<1>1. [owner |-> c] \in Sets
  BY SetsTyped DEF Statuses
<1> QED
  BY <1>1 DEF Claim, Change

\* A list of a set of tasks has one place for each.
LEMMA ListOfTasks ==
  ASSUME NEW S \in SUBSET Ids, NEW list \in SetToSeqs(S)
  PROVE  \E n \in Nat : list \in [1..n -> S]
<1>1. IsFiniteSet(S)
  <2>1. IsFiniteSet(1..(Initial + MaxCreates))
    BY InitialAssumption, FS_Interval
  <2> QED
    BY <2>1, FS_Subset DEF Ids
<1>2. Cardinality(S) \in Nat
  BY <1>1, FS_CardinalityType
<1>3. list \in [1..Cardinality(S) -> S]
  BY DEF SetToSeqs
<1> QED
  BY <1>2, <1>3

LEMMA ChangesOfList ==
  ASSUME NEW n \in Nat, NEW list \in [1..n -> Ids], NEW set, \A i \in 1..n : set[i] \in Sets
  PROVE  [i \in DOMAIN list |-> Update(list[i], set[i])] \in Seq(Change)
<1> DEFINE w == [i \in 1..n |-> Update(list[i], set[i])]
<1>1. \A i \in 1..n : Update(list[i], set[i]) \in Change
  BY UpdateIsChange
<1>2. w \in [1..n -> Change]
  BY <1>1
<1> HIDE DEF w
<1>3. w \in Seq(Change)
  BY <1>2
<1> QED
  BY <1>3 DEF w

-----------------------------------------------------------------------------
(* The highest of some ids *)

Less == {p \in Nat \X Nat : p[1] < p[2]}

LEMMA LessIsWellFounded == IsWellFoundedOn(Less, Nat)
  BY NatLessThanWellFounded DEF OpToRel, Less

LEMMA HighestIsHighest ==
  ASSUME NEW S \in SUBSET Ids
  PROVE  /\ S = {} => Highest(S) = 0
         /\ S # {} => Highest(S) \in S
         /\ \A t \in S : t <= Highest(S)
<1>1. CASE S = {}
  BY <1>1 DEF Highest
<1>2. CASE S # {}
  <2> DEFINE n == Initial + MaxCreates
             D == {n - t : t \in S}
  <2>1. n \in Nat /\ \A t \in S : t \in Int /\ n - t \in Nat
    BY InitialAssumption DEF Ids
  <2>2. D \subseteq Nat /\ D # {}
    BY <1>2, <2>1
  <2>3. PICK d \in D : \A e \in D : <<e, d>> \notin Less
    BY <2>2, LessIsWellFounded, WFMin
  <2>4. PICK t \in S : d = n - t
    OBVIOUS
  <2>5. ASSUME NEW u \in S PROVE u <= t
    <3>1. n - u \in D /\ ~(n - u < d)
      BY <2>1, <2>2, <2>3 DEF Less
    <3> QED
      BY <3>1, <2>1, <2>4
  <2>6. \E h \in S : \A u \in S : u <= h
    BY <2>5
  <2> QED
    BY <1>2, <2>6 DEF Highest
<1> QED
  BY <1>1, <1>2

-----------------------------------------------------------------------------
(* Types *)

Changing == {"check", "lock", "write", "merge"}

Typed ==
  /\ form \in [Ids -> {"absent", "torn", "whole"}]
  /\ task \in [Ids -> Task]
  /\ mark \in {0} \union Ids
  /\ lock \in [Locks -> Callers \union {Nobody}]
  /\ pc \in [Callers -> Place]
  /\ work \in [Callers -> Seq(Change)]
  /\ existing \in [Callers -> Task]
  /\ target \in [Callers -> {0} \union Ids]
  /\ files \in [Callers -> {-1, 0} \union Ids]
  /\ marked \in [Callers -> {-1, 0} \union Ids]
  /\ sweep \in [Callers -> SUBSET Ids]
  /\ issued \in SUBSET Ids
  /\ twice \in SUBSET issued
  /\ raced \in BOOLEAN
  /\ meant \in [Ids -> Task]
  /\ \A c \in Callers : pc[c] \in Changing => work[c] # << >>
  /\ \A c \in Callers : pc[c] \in {"resetMark", "resetFill"} => files[c] # -1
  /\ \A c \in Callers : pc[c] \in {"deleteMark", "deleteFill", "references"} => target[c] \in Ids

\* The part of a step that is about the changes still to be made.
Planned == 
  /\ pc' \in [Callers -> Place]
  /\ work' \in [Callers -> Seq(Change)]
  /\ \A c \in Callers : pc'[c] \in Changing => work'[c] # << >>

LEMMA GoesTyped ==
  ASSUME Typed, NEW c \in Callers, NEW todo \in Seq(Change), Goes(c, todo)
  PROVE  /\ Planned
         /\ \A d \in Callers \ {c} : pc'[d] = pc[d] /\ work'[d] = work[d]
         /\ pc'[c] \in {"idle", "check"}
  BY DEF Typed, Planned, Goes, Go, Place, Changing

LEMMA GoTyped ==
  ASSUME Typed, NEW c \in Callers, NEW w \in Place, Go(c, w), UNCHANGED work,
         w \in Changing => pc[c] \in Changing
  PROVE  /\ Planned
         /\ \A d \in Callers \ {c} : pc'[d] = pc[d]
         /\ pc'[c] = w
  BY DEF Typed, Planned, Go

LEMMA SkipTyped ==
  ASSUME Typed, NEW c \in Callers, pc[c] \in Changing
  PROVE  /\ Head(work[c]) \in Change
         /\ Tail(work[c]) \in Seq(Change)
         /\ << >> \in Seq(Change)
         /\ (IF Head(work[c]).claim THEN << >> ELSE Tail(work[c])) \in Seq(Change)
<1>1. work[c] \in Seq(Change) /\ work[c] # << >>
  BY DEF Typed
<1>2. Head(work[c]) \in Change /\ Tail(work[c]) \in Seq(Change) /\ << >> \in Seq(Change)
  BY <1>1, FirstAndRest
<1> QED
  BY <1>2

LEMMA ReleasedTyped ==
  ASSUME Typed, NEW c
  PROVE  Released(c) \in [Locks -> Callers \union {Nobody}]
  BY DEF Typed, Released

LEMMA HighestTyped ==
  ASSUME NEW S \in SUBSET Ids
  PROVE  Highest(S) \in {0} \union Ids
  BY HighestIsHighest

LEMMA InitTyped == Init => Typed
<1> SUFFICES ASSUME Init PROVE Typed
  OBVIOUS
<1>1. Blank \in Task
  BY DEF Blank, Task, Statuses
<1>2. << >> \in Seq(Change)
  OBVIOUS
<1>3. 1..Initial \subseteq Ids
  BY InitialAssumption DEF Ids
<1>4. /\ form \in [Ids -> {"absent", "torn", "whole"}]
      /\ task \in [Ids -> Task]
      /\ meant \in [Ids -> Task]
      /\ existing \in [Callers -> Task]
  BY <1>1 DEF Init
<1>5. /\ work \in [Callers -> Seq(Change)]
      /\ pc \in [Callers -> Place]
      /\ lock \in [Locks -> Callers \union {Nobody}]
      /\ \A c \in Callers : pc[c] = "idle"
  BY <1>2 DEF Init, Place
<1>6. /\ mark \in {0} \union Ids
      /\ target \in [Callers -> {0} \union Ids]
      /\ files \in [Callers -> {-1, 0} \union Ids]
      /\ marked \in [Callers -> {-1, 0} \union Ids]
      /\ sweep \in [Callers -> SUBSET Ids]
      /\ issued \in SUBSET Ids
      /\ twice \in SUBSET issued
      /\ raced \in BOOLEAN
  BY <1>3 DEF Init
<1> QED
  BY <1>4, <1>5, <1>6 DEF Typed, Changing

LEMMA PlannedStep ==
  ASSUME Typed, NEW c \in Callers, NEW todo \in Seq(Change), Goes(c, todo),
         UNCHANGED <<files_, lock, locals, history>>
  PROVE  Typed'
<1>1. Planned /\ pc'[c] \in {"idle", "check"} /\ \A d \in Callers \ {c} : pc'[d] = pc[d]
  BY GoesTyped
<1> QED
  BY <1>1 DEF Planned, files_, locals, history, Typed

LEMMA StepTyped ==
  ASSUME Typed, NEW c \in Callers, Step(c)
  PROVE  Typed'
<1>a. Whole \subseteq Ids /\ Present \subseteq Ids /\ Highest(Present) \in {0} \union Ids
      /\ -1 \notin {0} \union Ids
  BY HighestTyped DEF Whole, Present, Ids
<1>1. CASE Create(c)
  BY <1>1 DEF Create, Calling, files_, locals, history, Typed, Go, Place, Changing
<1>2. CASE CreateLock(c)
  BY <1>2, <1>a DEF CreateLock, Overlaps, Acquire, files_, locals, history, Typed, Go, Place, Changing
<1>3. CASE LookAtFiles(c)
  BY <1>3, <1>a DEF LookAtFiles, files_, locals, history, Typed, Go, Place, Changing
<1>4. CASE LookAtMark(c)
  BY <1>4 DEF LookAtMark, Calling, files_, locals, history, Typed, Go, Place, Changing
<1>5. CASE CreateFile(c)
  BY <1>5 DEF CreateFile, Calling, files_, locals, history, Typed, Go, Place, Changing
<1>6. CASE FillFile(c)
  <2>1. Blank \in Task
    BY DEF Blank, Task, Statuses
  <2> QED
    BY <1>6, <2>1, ReleasedTyped DEF FillFile, Settles, files_, locals, history, Typed, Go, Place, Changing
<1>7. CASE Reset(c)
  BY <1>7 DEF Reset, Calling, files_, locals, history, Typed, Go, Place, Changing
<1>8. CASE ResetLock(c)
  BY <1>8, <1>a DEF ResetLock, Overlaps, Acquire, files_, locals, history, Typed, Go, Place, Changing
<1>9. CASE ResetMark(c)
  <2>1. CASE files[c] > mark
    BY <1>9, <2>1, <1>a DEF ResetMark, files_, locals, history, Typed, Go, Place, Changing
  <2>2. CASE ~(files[c] > mark)
    <3>1. Planned /\ pc'[c] = "unlink" /\ \A d \in Callers \ {c} : pc'[d] = pc[d]
      BY <1>9, <2>2, GoTyped DEF ResetMark, Place, Changing
    <3>2. sweep' \in [Callers -> SUBSET Ids]
      BY <1>9, <2>2, <1>a DEF ResetMark, Typed
    <3> QED
      BY <1>9, <2>2, <3>1, <3>2 DEF ResetMark, Planned, history, Typed
  <2> QED
    BY <2>1, <2>2
<1>10. CASE ResetFill(c)
  BY <1>10, <1>a DEF ResetFill, files_, locals, history, Typed, Go, Place, Changing
<1>11. CASE ResetUnlink(c)
  BY <1>11 DEF ResetUnlink, Calling, files_, locals, history, Typed, Go, Place, Changing
<1>12. CASE ResetDone(c)
  BY <1>12, ReleasedTyped DEF ResetDone, Settles, files_, locals, history, Typed, Go, Place, Changing
<1>13. CASE TaskUpdate(c)
  <2>1. \E todo \in Seq(Change) : Goes(c, todo)
    <3>1. PICK t \in Whole :
            \/ \E s \in Statuses :
                 Goes(c, <<Update(t, IF s = "in_progress" /\ task[t].owner = Nobody
                                     THEN [status |-> s, owner |-> c] ELSE [status |-> s])>>)
            \/ \E o \in Callers : Goes(c, <<Update(t, [owner |-> o])>>)
      BY <1>13 DEF TaskUpdate
    <3>2. t \in Ids
      BY DEF Whole
    <3>3. ASSUME NEW s \in Statuses
          PROVE  <<Update(t, IF s = "in_progress" /\ task[t].owner = Nobody
                             THEN [status |-> s, owner |-> c] ELSE [status |-> s])>> \in Seq(Change)
      <4>1. [status |-> s, owner |-> c] \in Sets /\ [status |-> s] \in Sets
        BY SetsTyped
      <4> QED
        BY <3>2, <4>1, UpdateIsChange, OneChange
    <3>4. ASSUME NEW o \in Callers PROVE <<Update(t, [owner |-> o])>> \in Seq(Change)
      <4>1. [owner |-> o] \in Sets
        BY SetsTyped DEF Statuses
      <4> QED
        BY <3>2, <4>1, UpdateIsChange, OneChange
    <3> QED
      BY <3>1, <3>3, <3>4
  <2> QED
    BY <1>13, <2>1, PlannedStep DEF TaskUpdate
<1>14. CASE BlockTask(c)
  <2>1. \E todo \in Seq(Change) : Goes(c, todo)
    <3>1. PICK from \in Whole, to \in Whole :
            Goes(c, (IF to \in task[from].blocks THEN << >>
                     ELSE <<Update(from, [blocks |-> task[from].blocks \union {to}])>>)
                 \o (IF from \in task[to].blockedBy THEN << >>
                     ELSE <<Update(to, [blockedBy |-> task[to].blockedBy \union {from}])>>))
      BY <1>14 DEF BlockTask
    <3>2. from \in Ids /\ to \in Ids
      BY DEF Whole
    <3>3. task[from].blocks \union {to} \subseteq Ids /\ task[to].blockedBy \union {from} \subseteq Ids
      BY <3>2 DEF Typed, Task
    <3>4. << >> \in Seq(Change)
      OBVIOUS
    <3>5. <<Update(from, [blocks |-> task[from].blocks \union {to}])>> \in Seq(Change)
      BY <3>2, <3>3, SetsTyped, UpdateIsChange, OneChange DEF Statuses
    <3>6. <<Update(to, [blockedBy |-> task[to].blockedBy \union {from}])>> \in Seq(Change)
      BY <3>2, <3>3, SetsTyped, UpdateIsChange, OneChange DEF Statuses
    <3> QED
      BY <3>1, <3>4, <3>5, <3>6, ChangesJoined
  <2> QED
    BY <1>14, <2>1, PlannedStep DEF BlockTask
<1>15. CASE ClaimTask(c)
  <2>1. \E todo \in Seq(Change) : Goes(c, todo)
    <3>1. PICK t \in Whole :
            \E rest \in {<<Update(t, [status |-> "in_progress"])>>,
                        <<Update(t, [owner |-> Nobody])>>, << >>} :
              Goes(c, <<Claim(t, c)>> \o rest)
      BY <1>15 DEF ClaimTask
    <3>2. t \in Ids /\ "in_progress" \in Statuses
      BY DEF Whole, Statuses
    <3>3. [status |-> "in_progress"] \in Sets /\ [owner |-> Nobody] \in Sets
      BY <3>2, SetsTyped
    <3>4. /\ <<Claim(t, c)>> \in Seq(Change)
          /\ <<Update(t, [status |-> "in_progress"])>> \in Seq(Change)
          /\ <<Update(t, [owner |-> Nobody])>> \in Seq(Change)
          /\ << >> \in Seq(Change)
      BY <3>2, <3>3, ClaimIsChange, UpdateIsChange, OneChange
    <3> QED
      BY <3>1, <3>4, ChangesJoined
  <2> QED
    BY <1>15, <2>1, PlannedStep DEF ClaimTask
<1>16. CASE Unassign(c)
  <2>1. \E todo \in Seq(Change) : Goes(c, todo)
    <3>0. PICK o \in Callers :
            \E open \in SetToSeqs({t \in Whole : task[t].owner = o /\ task[t].status # "completed"}) :
              Goes(c, [i \in DOMAIN open |->
                         Update(open[i], [owner |-> Nobody, status |-> "pending"])])
      BY <1>16 DEF Unassign
    <3>1. PICK open \in SetToSeqs({t \in Whole : task[t].owner = o /\ task[t].status # "completed"}) :
            Goes(c, [i \in DOMAIN open |->
                       Update(open[i], [owner |-> Nobody, status |-> "pending"])])
      BY <3>0
    <3> DEFINE set == [i \in DOMAIN open |-> [owner |-> Nobody, status |-> "pending"]]
    <3>2. PICK n \in Nat : open \in [1..n -> Ids]
      BY ListOfTasks DEF Whole
    <3>3. [owner |-> Nobody, status |-> "pending"] \in Sets
      BY SetsTyped DEF Statuses
    <3>4. \A i \in 1..n : set[i] \in Sets
      BY <3>2, <3>3
    <3> HIDE DEF set
    <3>5. [i \in DOMAIN open |-> Update(open[i], set[i])] \in Seq(Change)
      BY <3>2, <3>4, ChangesOfList
    <3> QED
      BY <3>1, <3>5 DEF set
  <2> QED
    BY <1>16, <2>1, PlannedStep DEF Unassign
<1>17. CASE Delete(c)
  BY <1>17, <1>a DEF Delete, Overlaps, Calling, files_, locals, history, Typed, Go, Place, Changing
<1>18. CASE DeleteMark(c)
  BY <1>18 DEF DeleteMark, Calling, files_, locals, history, Typed, Go, Place, Changing
<1>19. CASE DeleteFill(c)
  BY <1>19 DEF DeleteFill, Calling, files_, locals, history, Typed, Go, Place, Changing
<1>20. CASE DeleteUnlink(c)
  BY <1>20 DEF DeleteUnlink, Settles, Calling, files_, locals, history, Typed, Go, Place, Changing
<1>21. CASE References(c)
  <2> DEFINE Without(S) == S \ {target[c]}
  <2>1. \E todo \in Seq(Change) : Goes(c, todo)
    <3>1. PICK refs \in SetToSeqs({t \in Whole : target[c] \in task[t].blocks \union task[t].blockedBy}) :
            Goes(c, [i \in DOMAIN refs |->
                       Update(refs[i], [blocks |-> Without(task[refs[i]].blocks),
                                        blockedBy |-> Without(task[refs[i]].blockedBy)])])
      BY <1>21 DEF References
    <3> DEFINE set == [i \in DOMAIN refs |-> [blocks |-> Without(task[refs[i]].blocks),
                                             blockedBy |-> Without(task[refs[i]].blockedBy)]]
    <3>2. PICK n \in Nat : refs \in [1..n -> Ids]
      BY ListOfTasks DEF Whole
    <3>3. ASSUME NEW i \in 1..n PROVE set[i] \in Sets
      <4>1. task[refs[i]] \in Task
        BY <3>2 DEF Typed
      <4>2. Without(task[refs[i]].blocks) \subseteq Ids /\ Without(task[refs[i]].blockedBy) \subseteq Ids
        BY <4>1 DEF Task
      <4>3. [blocks |-> Without(task[refs[i]].blocks), blockedBy |-> Without(task[refs[i]].blockedBy)] \in Sets
        BY <4>2, SetsTyped DEF Statuses
      <4> QED
        BY <3>2, <4>3
    <3> HIDE DEF set
    <3>4. [i \in DOMAIN refs |-> Update(refs[i], set[i])] \in Seq(Change)
      BY <3>2, <3>3, ChangesOfList
    <3> QED
      BY <3>1, <3>4 DEF set
  <2> QED
    BY <1>21, <2>1, PlannedStep DEF References
<1>22. CASE Check(c)
  <2>1. (\E todo \in Seq(Change) : Goes(c, todo)) \/ (Go(c, "lock") /\ UNCHANGED work)
    BY <1>22, SkipTyped DEF Check, Skip, Changing
  <2>2. Planned
    BY <1>22, <2>1, GoesTyped, GoTyped DEF Check, Changing, Place
  <2> QED
    BY <1>22, <2>1, <2>2 DEF Check, Goes, Go, Planned, files_, locals, history, Typed
<1>23. CASE LockTask(c)
  <2> DEFINE u == Head(work[c])
  <2>1. u \in Change
    BY <1>23, SkipTyped DEF LockTask, Changing
  <2>2. \/ (\E todo \in Seq(Change) : Goes(c, todo)) /\ UNCHANGED <<lock, existing>>
        \/ /\ Go(c, "write") /\ UNCHANGED work
           /\ Acquire(c, u.task) /\ existing' = [existing EXCEPT ![c] = task[u.task]]
    BY <1>23, SkipTyped DEF LockTask, Skip, Changing
  <2>3. CASE (\E todo \in Seq(Change) : Goes(c, todo)) /\ UNCHANGED <<lock, existing>>
    BY <1>23, <2>3, PlannedStep DEF LockTask, locals
  <2>4. CASE /\ Go(c, "write") /\ UNCHANGED work
             /\ Acquire(c, u.task) /\ existing' = [existing EXCEPT ![c] = task[u.task]]
    <3>1. Planned /\ pc'[c] = "write" /\ \A d \in Callers \ {c} : pc'[d] = pc[d]
      BY <1>23, <2>4, GoTyped DEF LockTask, Changing, Place
    <3>2. task[u.task] \in Task
      BY <2>1 DEF Change, Typed
    <3> HIDE DEF u
    <3> QED
      BY <1>23, <2>4, <3>1, <3>2 DEF LockTask, Acquire, Planned, files_, history, Typed
  <2> QED
    BY <2>2, <2>3, <2>4
<1>24. CASE LockGivesUp(c)
  <2>1. \E todo \in Seq(Change) : Goes(c, todo)
    <3>1. << >> \in Seq(Change)
      OBVIOUS
    <3> QED
      BY <1>24, <3>1 DEF LockGivesUp
  <2> QED
    BY <1>24, <2>1, PlannedStep DEF LockGivesUp
<1>25. CASE Truncate(c)
  BY <1>25 DEF Truncate, Calling, files_, locals, history, Typed, Go, Place, Changing
<1>26. CASE Write(c)
  <2> DEFINE u == Head(work[c])
  <2>1. u \in Change /\ Tail(work[c]) \in Seq(Change)
    BY <1>26, SkipTyped DEF Write, Changing
  <2>2. u.task \in Ids /\ u.set \in Sets
    BY <2>1 DEF Change
  <2>3. Merged(existing[c], u.set) \in Task /\ Merged(meant[u.task], u.set) \in Task
    BY <2>2, MergedTask DEF Typed
  <2>4. Planned /\ pc'[c] \in {"idle", "check"} /\ \A d \in Callers \ {c} : pc'[d] = pc[d]
    BY <1>26, <2>1, GoesTyped DEF Write
  <2> HIDE DEF u
  <2>5. /\ form' = [form EXCEPT ![u.task] = "whole"]
        /\ task' = [task EXCEPT ![u.task] = Merged(existing[c], u.set)]
        /\ meant' = [meant EXCEPT ![u.task] = Merged(meant[u.task], u.set)]
        /\ lock' = Released(c)
        /\ UNCHANGED <<mark, locals, calls, issued, twice, raced>>
    BY <1>26 DEF Write, u
  <2> QED
    BY <2>2, <2>3, <2>4, <2>5, ReleasedTyped DEF Planned, locals, Typed
<1>27. CASE Die(c)
  <2>1. << >> \in Seq(Change)
    OBVIOUS
  <2>2. Planned /\ pc'[c] = "idle" /\ \A d \in Callers \ {c} : pc'[d] = pc[d]
    BY <1>27, <2>1, GoesTyped DEF Die, Settles, Goes, Go, Typed
  <2> QED
    BY <1>27, <2>2, ReleasedTyped DEF Die, Settles, Planned, files_, locals, history, Typed
<1> QED
  BY <1>1, <1>2, <1>3, <1>4, <1>5, <1>6, <1>7, <1>8, <1>9, <1>10, <1>11, <1>12, <1>13, <1>14,
     <1>15, <1>16, <1>17, <1>18, <1>19, <1>20, <1>21, <1>22, <1>23, <1>24, <1>25, <1>26, <1>27
  DEF Step

\* What a step leaves alone of the other callers.
LEMMA OthersStay ==
  ASSUME Typed, NEW c \in Callers, Step(c), NEW d \in Callers, d # c
  PROVE  /\ pc'[d] = pc[d] /\ work'[d] = work[d] /\ existing'[d] = existing[d]
         /\ target'[d] = target[d] /\ files'[d] = files[d] /\ marked'[d] = marked[d]
         /\ sweep'[d] = sweep[d]
<1>1. CASE Create(c)
  BY <1>1 DEF Create, Goes, Go, files_, locals, history, Typed
<1>2. CASE CreateLock(c)
  BY <1>2 DEF CreateLock, Goes, Go, files_, locals, history, Typed
<1>3. CASE LookAtFiles(c)
  BY <1>3 DEF LookAtFiles, Goes, Go, files_, locals, history, Typed
<1>4. CASE LookAtMark(c)
  BY <1>4 DEF LookAtMark, Goes, Go, files_, locals, history, Typed
<1>5. CASE CreateFile(c)
  BY <1>5 DEF CreateFile, Goes, Go, files_, locals, history, Typed
<1>6. CASE FillFile(c)
  BY <1>6 DEF FillFile, Goes, Go, files_, locals, history, Typed
<1>7. CASE Reset(c)
  BY <1>7 DEF Reset, Goes, Go, files_, locals, history, Typed
<1>8. CASE ResetLock(c)
  BY <1>8 DEF ResetLock, Goes, Go, files_, locals, history, Typed
<1>9. CASE ResetMark(c)
  BY <1>9 DEF ResetMark, Goes, Go, files_, locals, history, Typed
<1>10. CASE ResetFill(c)
  BY <1>10 DEF ResetFill, Goes, Go, files_, locals, history, Typed
<1>11. CASE ResetUnlink(c)
  BY <1>11 DEF ResetUnlink, Goes, Go, files_, locals, history, Typed
<1>12. CASE ResetDone(c)
  BY <1>12 DEF ResetDone, Goes, Go, files_, locals, history, Typed
<1>13. CASE TaskUpdate(c)
  BY <1>13 DEF TaskUpdate, Goes, Go, files_, locals, history, Typed
<1>14. CASE BlockTask(c)
  BY <1>14 DEF BlockTask, Goes, Go, files_, locals, history, Typed
<1>15. CASE ClaimTask(c)
  BY <1>15 DEF ClaimTask, Goes, Go, files_, locals, history, Typed
<1>16. CASE Unassign(c)
  BY <1>16 DEF Unassign, Goes, Go, files_, locals, history, Typed
<1>17. CASE Delete(c)
  BY <1>17 DEF Delete, Goes, Go, files_, locals, history, Typed
<1>18. CASE DeleteMark(c)
  BY <1>18 DEF DeleteMark, Goes, Go, files_, locals, history, Typed
<1>19. CASE DeleteFill(c)
  BY <1>19 DEF DeleteFill, Goes, Go, files_, locals, history, Typed
<1>20. CASE DeleteUnlink(c)
  BY <1>20 DEF DeleteUnlink, Goes, Go, files_, locals, history, Typed
<1>21. CASE References(c)
  BY <1>21 DEF References, Goes, Go, files_, locals, history, Typed
<1>22. CASE Check(c)
  BY <1>22 DEF Check, Skip, Goes, Go, files_, locals, history, Typed
<1>23. CASE LockTask(c)
  BY <1>23 DEF LockTask, Skip, Goes, Go, files_, locals, history, Typed
<1>24. CASE LockGivesUp(c)
  BY <1>24 DEF LockGivesUp, Goes, Go, files_, locals, history, Typed
<1>25. CASE Truncate(c)
  BY <1>25 DEF Truncate, Goes, Go, files_, locals, history, Typed
<1>26. CASE Write(c)
  BY <1>26 DEF Write, Goes, Go, files_, locals, history, Typed
<1>27. CASE Die(c)
  BY <1>27 DEF Die, Goes, Go, files_, locals, history, Typed
<1> QED
  BY <1>1, <1>2, <1>3, <1>4, <1>5, <1>6, <1>7, <1>8, <1>9, <1>10, <1>11, <1>12, <1>13, <1>14,
     <1>15, <1>16, <1>17, <1>18, <1>19, <1>20, <1>21, <1>22, <1>23, <1>24, <1>25, <1>26, <1>27
  DEF Step

LEMMA TypesKept == Typed /\ [Next]_vars => Typed'
<1> SUFFICES ASSUME Typed, [Next]_vars PROVE Typed'
  OBVIOUS
<1>1. CASE Next
  BY <1>1, StepTyped DEF Next
<1>2. CASE UNCHANGED vars
  BY <1>2 DEF vars, files_, locals, history, Typed
<1> QED
  BY <1>1, <1>2

LEMMA TypedImpliesTypeOK == Typed => TypeOK
<1> SUFFICES ASSUME Typed PROVE TypeOK
  OBVIOUS
<1>1. ASSUME NEW c \in Callers, NEW i \in DOMAIN work[c]
      PROVE  work[c][i].task \in Ids /\ DOMAIN work[c][i].set \subseteq Fields
  <2>1. work[c] \in Seq(Change)
    BY DEF Typed
  <2>2. work[c][i] \in Change
    BY <2>1
  <2> QED
    BY <2>2 DEF Change, Sets
<1> QED
  BY <1>1 DEF Typed, TypeOK

\* Files, locks, calls and changes have their types at all times (the state
\* of src/utils/tasks.ts and of its callers).
THEOREM TypeCorrect == Spec => []TypeOK
<1>1. Init => Typed
  BY InitTyped
<1>2. Typed /\ [Next]_vars => Typed'
  BY TypesKept
<1>3. Typed => TypeOK
  BY TypedImpliesTypeOK
<1> QED
  BY <1>1, <1>2, <1>3, PTL DEF Spec

-----------------------------------------------------------------------------
(* Fresh ids *)

Below(i) == \E t \in Present : i <= t

\* What a caller that numbers has seen, or will see, of an id.
SeenBy(c, i) ==
  \/ IF marked[c] = -1 THEN i <= mark ELSE i <= marked[c]
  \/ IF files[c] = -1 THEN Below(i) ELSE i <= files[c]

\* What a caller knows of the ids at each step of its numbering.
Sure(c) ==
  /\ pc[c] = "number" => \A i \in issued : SeenBy(c, i)
  /\ pc[c] = "resetMark" =>
       /\ files[c] = 0 \/ files[c] \in Present
       /\ \A i \in issued : i <= mark \/ i <= files[c]
  /\ pc[c] = "resetFill" => \A i \in issued : i <= files[c]
  /\ pc[c] = "unlink" => \A i \in issued : i <= mark
  /\ pc[c] = "deleteMark" => marked[c] = mark /\ target[c] \in Present
  /\ pc[c] = "deleteFill" => target[c] \in Present /\ \A i \in issued : Below(i)

\* But for the time of an overlap, each id ever given is covered by the mark or
\* by a file, and whoever numbers is alone and knows it.
Fresh ==
  ~raced =>
    /\ \A c, d \in Callers : pc[c] \in Numbering /\ pc[d] \in Numbering => c = d
    /\ \A i \in issued : i <= mark \/ Below(i)
    /\ \A c \in Callers : Sure(c)

LEMMA SettledIsFresh == Settled' => Fresh'
  BY DEF Settled, Fresh, Sure, Below, Numbering

\* A step that numbers nothing and takes no file away.
Outside(c) ==
  /\ pc'[c] \notin Numbering
  /\ Present \subseteq Present'
  /\ UNCHANGED <<mark, files, marked, target, issued, raced>>

LEMMA OutsideKeepsFresh ==
  ASSUME Typed, Fresh, NEW c \in Callers, Outside(c),
         \A d \in Callers \ {c} : pc'[d] = pc[d]
  PROVE  Fresh'
<1> SUFFICES ASSUME ~raced PROVE Fresh'
  BY DEF Fresh, Outside
<1>1. \A i : Below(i) => Below(i)'
  BY DEF Below, Outside
<1>2. \A i \in issued : i <= mark' \/ Below(i)'
  BY <1>1 DEF Fresh, Outside
<1>3. ASSUME NEW d \in Callers, pc'[d] \in Numbering PROVE Sure(d)'
  <2>1. d # c /\ pc'[d] = pc[d] /\ Sure(d)
    BY <1>3 DEF Outside, Fresh
  <2>2. \A i : SeenBy(d, i) => SeenBy(d, i)'
    BY <1>1 DEF SeenBy, Outside
  <2> QED
    BY <1>1, <2>1, <2>2 DEF Sure, Outside
<1>4. \A d \in Callers : pc'[d] \notin Numbering => Sure(d)'
  BY DEF Sure, Numbering
<1>5. \A d, e \in Callers : pc'[d] \in Numbering /\ pc'[e] \in Numbering => d = e
  BY DEF Fresh, Outside
<1> QED
  BY <1>2, <1>3, <1>4, <1>5 DEF Fresh, Outside

\* Who numbers is alone: its step need only keep what it knows itself.
LEMMA AloneKeepsFresh ==
  ASSUME Typed, Fresh, NEW c \in Callers, Step(c), raced' = FALSE, raced = FALSE,
         pc[c] \in Numbering \/ ~Numbers(c),
         \A i \in issued' : i <= mark' \/ Below(i)', Sure(c)'
  PROVE  Fresh'
<1>1. \A d \in Callers \ {c} : pc'[d] = pc[d] /\ pc[d] \notin Numbering
  BY OthersStay DEF Fresh, Numbers
<1>2. \A d \in Callers \ {c} : Sure(d)'
  BY <1>1 DEF Sure, Numbering
<1> QED
  BY <1>1, <1>2 DEF Fresh

LEMMA IdsAreNumbers == \A i \in Ids \union {0} : i \in Nat
  BY InitialAssumption DEF Ids

LEMMA OverlapEnds ==
  ASSUME NEW c \in Callers, Step(c), raced
  PROVE  raced' \/ Settled'
  BY DEF Step, Create, CreateLock, LookAtFiles, LookAtMark, CreateFile, FillFile,
     Reset, ResetLock, ResetMark, ResetFill, ResetUnlink, ResetDone,
     TaskUpdate, BlockTask, ClaimTask, Unassign,
     Delete, DeleteMark, DeleteFill, DeleteUnlink, References,
     Check, LockTask, LockGivesUp, Truncate, Write, Die, history, Overlaps, Settles

\* The number that createTask() comes to is new.
LEMMA NumberIsNew ==
  ASSUME Typed, Fresh, ~raced, NEW c \in Callers, CreateFile(c)
  PROVE  NewId(c) \notin issued
<1> DEFINE n == NewId(c)
<1>1. pc[c] = "number" /\ files[c] # -1 /\ marked[c] # -1
  BY DEF CreateFile
<1>2. files[c] \in Nat /\ marked[c] \in Nat
  BY <1>1, IdsAreNumbers DEF Typed
<1>3. n > files[c] /\ n > marked[c]
  BY <1>2 DEF NewId, Larger
<1> HIDE DEF n
<1>4. \A i \in issued : i \in Nat /\ SeenBy(c, i)
  BY <1>1, IdsAreNumbers DEF Typed, Fresh, Sure
<1>5. n \notin issued
  BY <1>1, <1>2, <1>3, <1>4 DEF SeenBy
<1> QED
  BY <1>5 DEF n

LEMMA StepFresh ==
  ASSUME Typed, Fresh, NEW c \in Callers, Step(c)
  PROVE  Fresh'
<1> SUFFICES ASSUME ~raced, ~raced' PROVE Fresh'
  <2>1. CASE raced
    BY <2>1, OverlapEnds, SettledIsFresh DEF Fresh
  <2>2. CASE ~raced
    BY <2>2 DEF Fresh
  <2> QED
    BY <2>1, <2>2
<1>a. /\ raced = FALSE /\ raced' = FALSE
      /\ (\A i \in issued : i <= mark \/ Below(i)) /\ Sure(c)
      /\ \A i \in issued : i \in Nat /\ i > 0
      /\ mark \in Nat /\ Present \subseteq Ids /\ (\A t \in Ids : t \in Nat)
      /\ -1 \notin Ids
  <2>1. raced' \in BOOLEAN
    BY StepTyped DEF Typed
  <2> QED
    BY <2>1, IdsAreNumbers DEF Typed, Fresh, Present, Ids
<1>b. /\ Highest(Present) = 0 \/ Highest(Present) \in Present
      /\ \A t \in Present : t <= Highest(Present)
      /\ Highest(Present) \in Nat
  BY <1>a, HighestIsHighest
<1>c. \A d \in Callers \ {c} : pc'[d] = pc[d]
  BY OthersStay
<1>d. ASSUME UNCHANGED form PROVE Present' = Present /\ \A i : Below(i)' = Below(i)
  BY <1>d DEF Present, Below
<1>1. CASE Create(c)
  <2>1. pc'[c] = "create"
    BY <1>1 DEF Create, Goes, Go, Typed
  <2>2. UNCHANGED <<form, mark, files, marked, target, issued, raced>>
    BY <1>1 DEF Create, files_, locals, history
  <2> QED
    BY <2>1, <2>2, <1>c, <1>d, OutsideKeepsFresh DEF Outside, Numbering
<1>2. CASE CreateLock(c)
  <2>1. pc'[c] = "number" /\ files'[c] = -1 /\ marked'[c] = -1 /\ ~Numbers(c)
        /\ UNCHANGED <<files_, issued>>
    BY <1>2, <1>a DEF CreateLock, Overlaps, Go, Typed
  <2>2. Sure(c)'
    BY <2>1, <1>a, <1>d DEF Sure, SeenBy, files_
  <2> QED
    BY <2>1, <2>2, <1>a, <1>d, AloneKeepsFresh DEF files_
<1>3. CASE LookAtFiles(c)
  <2>1. /\ pc[c] = "number" /\ UNCHANGED <<files_, pc, marked, issued>>
        /\ files[c] = -1 /\ files'[c] = Highest(Present)
    BY <1>3 DEF LookAtFiles, Typed, history
  <2>2. \A i \in issued : SeenBy(c, i) /\ (Below(i) => i <= Highest(Present))
    BY <2>1, <1>a, <1>b DEF Sure, Below
  <2>3. Sure(c)'
    BY <2>1, <2>2, <1>b DEF Sure, SeenBy, files_
  <2> QED
    BY <2>1, <2>3, <1>a, <1>d, AloneKeepsFresh DEF files_, Numbering
<1>4. CASE LookAtMark(c)
  <2>1. /\ pc[c] = "number" /\ UNCHANGED <<files_, pc, files, issued>>
        /\ marked[c] = -1 /\ marked'[c] = mark
    BY <1>4 DEF LookAtMark, Typed, history
  <2>2. Sure(c)'
    BY <2>1, <1>a, <1>d DEF Sure, SeenBy, files_
  <2> QED
    BY <2>1, <2>2, <1>a, <1>d, AloneKeepsFresh DEF files_, Numbering
<1>5. CASE CreateFile(c)
  <2> DEFINE n == NewId(c)
  <2>1. /\ pc[c] = "number" /\ n \in Ids
        /\ form' = [form EXCEPT ![n] = "torn"] /\ issued' = issued \union {n}
        /\ pc'[c] = "fill" /\ UNCHANGED mark
    BY <1>5 DEF CreateFile, Go, Typed
  <2> HIDE DEF n
  <2>2. n \in Present' /\ Present \subseteq Present'
    BY <2>1 DEF Present, Typed
  <2>3. \A i \in issued' : i <= mark' \/ Below(i)'
    BY <2>1, <2>2, <1>a DEF Below
  <2>4. Sure(c)'
    BY <2>1 DEF Sure
  <2> QED
    BY <2>1, <2>3, <2>4, <1>a, AloneKeepsFresh DEF Numbering
<1>6. CASE FillFile(c)
  <2>1. Outside(c)
    <3>1. pc'[c] = "idle" /\ UNCHANGED <<mark, files, marked, target, issued, raced>>
      BY <1>6, <1>a DEF FillFile, Settles, Go, Typed, locals
    <3>2. Present \subseteq Present'
      BY <1>6 DEF FillFile, Present, Typed
    <3> QED
      BY <3>1, <3>2 DEF Outside, Numbering
  <2> QED
    BY <2>1, <1>c, OutsideKeepsFresh
<1>7. CASE Reset(c)
  <2>1. pc'[c] = "reset"
    BY <1>7 DEF Reset, Goes, Go, Typed
  <2>2. UNCHANGED <<form, mark, files, marked, target, issued, raced>>
    BY <1>7 DEF Reset, files_, locals, history
  <2> QED
    BY <2>1, <2>2, <1>c, <1>d, OutsideKeepsFresh DEF Outside, Numbering
<1>8. CASE ResetLock(c)
  <2>1. /\ pc'[c] = "resetMark" /\ files'[c] = Highest(Present) /\ ~Numbers(c)
        /\ UNCHANGED <<files_, issued>>
    BY <1>8, <1>a DEF ResetLock, Overlaps, Go, Typed
  <2>2. \A i \in issued : Below(i) => i <= Highest(Present)
    BY <1>a, <1>b DEF Below
  <2>3. Sure(c)'
    BY <2>1, <2>2, <1>a, <1>b, <1>d DEF Sure, files_
  <2> QED
    BY <2>1, <2>3, <1>a, <1>d, AloneKeepsFresh DEF files_
<1>9. CASE ResetMark(c)
  <2>1. /\ pc[c] = "resetMark" /\ UNCHANGED <<form, files, issued>>
        /\ files[c] \in Nat
    BY <1>9, IdsAreNumbers DEF ResetMark, Typed, history
  <2>2. CASE files[c] > mark
    <3>1. mark' = 0 /\ pc'[c] = "resetFill"
      BY <1>9, <2>2 DEF ResetMark, Go, Typed
    <3>2. \A i \in issued : i <= files[c]
      BY <2>1, <2>2, <1>a DEF Sure
    <3>3. \A i \in issued : Below(i)
      BY <2>1, <2>2, <3>2, <1>a DEF Sure, Below
    <3>4. Sure(c)'
      BY <2>1, <3>1, <3>2 DEF Sure
    <3> QED
      BY <2>1, <3>3, <3>4, <1>a, <1>d, AloneKeepsFresh DEF Numbering
  <2>3. CASE ~(files[c] > mark)
    <3>1. mark' = mark /\ pc'[c] = "unlink"
      BY <1>9, <2>3 DEF ResetMark, Go, Typed
    <3>2. \A i \in issued : i <= mark
      BY <2>1, <2>3, <1>a DEF Sure
    <3>3. Sure(c)'
      BY <2>1, <3>1, <3>2 DEF Sure
    <3> QED
      BY <2>1, <3>1, <3>2, <3>3, <1>a, AloneKeepsFresh DEF Numbering
  <2> QED
    BY <2>2, <2>3
<1>10. CASE ResetFill(c)
  <2>1. /\ pc[c] = "resetFill" /\ mark' = files[c] /\ pc'[c] = "unlink"
        /\ UNCHANGED issued
    BY <1>10 DEF ResetFill, Go, Typed, history
  <2>2. \A i \in issued' : i <= mark'
    BY <2>1, <1>a DEF Sure
  <2>3. Sure(c)'
    BY <2>1, <2>2 DEF Sure
  <2> QED
    BY <2>1, <2>2, <2>3, <1>a, AloneKeepsFresh DEF Numbering
<1>11. CASE ResetUnlink(c)
  <2>1. /\ pc[c] = "unlink" /\ pc'[c] = "unlink" /\ UNCHANGED <<mark, issued>>
    BY <1>11 DEF ResetUnlink, history
  <2>2. \A i \in issued' : i <= mark'
    BY <2>1, <1>a DEF Sure
  <2>3. Sure(c)'
    BY <2>1, <2>2 DEF Sure
  <2> QED
    BY <2>1, <2>2, <2>3, <1>a, AloneKeepsFresh DEF Numbering
<1>12. CASE ResetDone(c)
  <2>1. pc'[c] = "idle"
    BY <1>12 DEF ResetDone, Goes, Go, Typed
  <2>2. UNCHANGED <<form, mark, files, marked, target, issued, raced>>
    BY <1>12, <1>a DEF ResetDone, Settles, files_, locals, history
  <2> QED
    BY <2>1, <2>2, <1>c, <1>d, OutsideKeepsFresh DEF Outside, Numbering
<1>13. CASE TaskUpdate(c)
  <2>1. pc'[c] \in {"idle", "check"}
    BY <1>13 DEF TaskUpdate, Goes, Go, Typed
  <2>2. UNCHANGED <<form, mark, files, marked, target, issued, raced>>
    BY <1>13 DEF TaskUpdate, files_, locals, history
  <2> QED
    BY <2>1, <2>2, <1>c, <1>d, OutsideKeepsFresh DEF Outside, Numbering
<1>14. CASE BlockTask(c)
  <2>1. pc'[c] \in {"idle", "check"}
    BY <1>14 DEF BlockTask, Goes, Go, Typed
  <2>2. UNCHANGED <<form, mark, files, marked, target, issued, raced>>
    BY <1>14 DEF BlockTask, files_, locals, history
  <2> QED
    BY <2>1, <2>2, <1>c, <1>d, OutsideKeepsFresh DEF Outside, Numbering
<1>15. CASE ClaimTask(c)
  <2>1. pc'[c] \in {"idle", "check"}
    BY <1>15 DEF ClaimTask, Goes, Go, Typed
  <2>2. UNCHANGED <<form, mark, files, marked, target, issued, raced>>
    BY <1>15 DEF ClaimTask, files_, locals, history
  <2> QED
    BY <2>1, <2>2, <1>c, <1>d, OutsideKeepsFresh DEF Outside, Numbering
<1>16. CASE Unassign(c)
  <2>1. pc'[c] \in {"idle", "check"}
    BY <1>16 DEF Unassign, Goes, Go, Typed
  <2>2. UNCHANGED <<form, mark, files, marked, target, issued, raced>>
    BY <1>16 DEF Unassign, files_, locals, history
  <2> QED
    BY <2>1, <2>2, <1>c, <1>d, OutsideKeepsFresh DEF Outside, Numbering
<1>17. CASE Delete(c)
  <2>1. /\ pc'[c] = "deleteMark" /\ marked'[c] = mark /\ target'[c] \in Whole /\ ~Numbers(c)
        /\ UNCHANGED <<files_, issued>>
    BY <1>17, <1>a DEF Delete, Overlaps, Go, Typed
  <2>2. Whole \subseteq Present
    BY DEF Whole, Present
  <2>3. Sure(c)'
    BY <2>1, <2>2, <1>d DEF Sure, files_
  <2> QED
    BY <2>1, <2>3, <1>a, <1>d, AloneKeepsFresh DEF files_
<1>18. CASE DeleteMark(c)
  <2>1. /\ pc[c] = "deleteMark" /\ pc'[c] = "deleteFill" /\ target[c] > marked[c]
        /\ UNCHANGED <<form, target, issued>>
    BY <1>18 DEF DeleteMark, Go, Typed, locals, history
  <2>2. marked[c] = mark /\ target[c] \in Present /\ target[c] \in Nat
    BY <2>1, <1>a DEF Sure
  <2>3. \A i \in issued : Below(i)
    BY <2>1, <2>2, <1>a DEF Below
  <2>4. Sure(c)'
    BY <2>1, <2>2, <2>3, <1>d DEF Sure
  <2> QED
    BY <2>1, <2>3, <2>4, <1>a, <1>d, AloneKeepsFresh DEF Numbering
<1>19. CASE DeleteFill(c)
  <2>1. /\ pc[c] = "deleteFill" /\ pc'[c] = "deleteMark" /\ mark' = target[c]
        /\ marked'[c] = target[c] /\ UNCHANGED <<form, target, issued>>
    BY <1>19 DEF DeleteFill, Go, Typed, history
  <2>2. Sure(c)'
    BY <2>1, <1>a, <1>d DEF Sure
  <2> QED
    BY <2>1, <2>2, <1>a, <1>d, AloneKeepsFresh DEF Sure, Numbering
<1>20. CASE DeleteUnlink(c)
  <2>1. /\ pc[c] = "deleteMark" /\ pc'[c] \in {"references", "idle"} /\ target[c] <= marked[c]
        /\ form' = [form EXCEPT ![target[c]] = "absent"]
        /\ UNCHANGED <<mark, issued>>
    BY <1>20 DEF DeleteUnlink, Go, Typed, history
  <2>2. marked[c] = mark /\ target[c] \in Nat
    BY <2>1, <1>a DEF Sure
  <2>3. Present \ {target[c]} \subseteq Present'
    BY <2>1 DEF Present, Typed
  <2>4. ASSUME NEW i \in issued PROVE i <= mark \/ Below(i)'
    <3>1. CASE \E t \in Present \ {target[c]} : i <= t
      BY <2>3, <3>1 DEF Below
    <3>2. CASE i <= target[c]
      BY <2>1, <2>2, <3>2, <1>a
    <3> QED
      BY <3>1, <3>2, <1>a DEF Below
  <2>5. Sure(c)'
    BY <2>1 DEF Sure
  <2> QED
    BY <2>1, <2>4, <2>5, <1>a, AloneKeepsFresh DEF Numbering
<1>21. CASE References(c)
  <2>1. pc'[c] \in {"idle", "check"}
    BY <1>21 DEF References, Goes, Go, Typed
  <2>2. UNCHANGED <<form, mark, files, marked, target, issued, raced>>
    BY <1>21 DEF References, files_, locals, history
  <2> QED
    BY <2>1, <2>2, <1>c, <1>d, OutsideKeepsFresh DEF Outside, Numbering
<1>22. CASE Check(c)
  <2>1. pc'[c] \in {"idle", "check", "lock"}
    BY <1>22 DEF Check, Skip, Goes, Go, Typed
  <2>2. UNCHANGED <<form, mark, files, marked, target, issued, raced>>
    BY <1>22 DEF Check, files_, locals, history
  <2> QED
    BY <2>1, <2>2, <1>c, <1>d, OutsideKeepsFresh DEF Outside, Numbering
<1>23. CASE LockTask(c)
  <2>1. pc'[c] \in {"idle", "check", "write"}
    BY <1>23 DEF LockTask, Skip, Goes, Go, Typed
  <2>2. UNCHANGED <<form, mark, files, marked, target, issued, raced>>
    BY <1>23 DEF LockTask, files_, locals, history
  <2> QED
    BY <2>1, <2>2, <1>c, <1>d, OutsideKeepsFresh DEF Outside, Numbering
<1>24. CASE LockGivesUp(c)
  <2>1. pc'[c] \in {"idle", "check"}
    BY <1>24 DEF LockGivesUp, Goes, Go, Typed
  <2>2. UNCHANGED <<form, mark, files, marked, target, issued, raced>>
    BY <1>24 DEF LockGivesUp, files_, locals, history
  <2> QED
    BY <2>1, <2>2, <1>c, <1>d, OutsideKeepsFresh DEF Outside, Numbering
<1>25. CASE Truncate(c)
  <2>1. Outside(c)
    <3>1. pc'[c] = "merge" /\ UNCHANGED <<mark, files, marked, target, issued, raced>>
      BY <1>25 DEF Truncate, Go, Typed, locals, history
    <3>2. Present \subseteq Present'
      BY <1>25 DEF Truncate, Present, Typed
    <3> QED
      BY <3>1, <3>2 DEF Outside, Numbering
  <2> QED
    BY <2>1, <1>c, OutsideKeepsFresh
<1>26. CASE Write(c)
  <2>1. Outside(c)
    <3>1. pc'[c] \in {"idle", "check"} /\ UNCHANGED <<mark, files, marked, target, issued, raced>>
      BY <1>26 DEF Write, Goes, Go, Typed, locals
    <3>2. Present \subseteq Present'
      BY <1>26 DEF Write, Present, Typed
    <3> QED
      BY <3>1, <3>2 DEF Outside, Numbering
  <2> QED
    BY <2>1, <1>c, OutsideKeepsFresh
<1>27. CASE Die(c)
  <2>1. pc'[c] \in {"idle", "check"}
    BY <1>27 DEF Die, Goes, Go, Typed
  <2>2. UNCHANGED <<form, mark, files, marked, target, issued, raced>>
    BY <1>27, <1>a DEF Die, Settles, files_, locals, history
  <2> QED
    BY <2>1, <2>2, <1>c, <1>d, OutsideKeepsFresh DEF Outside, Numbering
<1> QED
  BY <1>1, <1>2, <1>3, <1>4, <1>5, <1>6, <1>7, <1>8, <1>9, <1>10, <1>11, <1>12, <1>13, <1>14,
     <1>15, <1>16, <1>17, <1>18, <1>19, <1>20, <1>21, <1>22, <1>23, <1>24, <1>25, <1>26, <1>27
  DEF Step

LEMMA InitFresh == Init => Fresh
<1> SUFFICES ASSUME Init PROVE Fresh
  OBVIOUS
<1>1. \A i \in issued : i \in Present /\ i \in Nat
  BY InitialAssumption DEF Init, Present, Ids
<1>2. \A c \in Callers : pc[c] = "idle"
  BY DEF Init
<1> QED
  BY <1>1, <1>2 DEF Init, Fresh, Sure, Numbering, Below

LEMMA FreshKept == Typed /\ Fresh /\ [Next]_vars => Fresh'
<1> SUFFICES ASSUME Typed, Fresh, [Next]_vars PROVE Fresh'
  OBVIOUS
<1>1. CASE Next
  BY <1>1, StepFresh DEF Next
<1>2. CASE UNCHANGED vars
  BY <1>2 DEF vars, files_, locals, history, Fresh, Sure, SeenBy, Below, Present
<1> QED
  BY <1>1, <1>2

\* An id is not given again, but for the time from a deletion that overlaps
\* another call that numbers until all are protected again (createTask(),
\* resetTaskList() and deleteTask() around the mark).
THEOREM FreshIds == Spec => IdsFresh
<1> DEFINE New == \A c \in Callers : CreateFile(c) => raced \/ NewId(c) \notin issued
<1>1. Typed /\ Fresh => New
  BY NumberIsNew
<1>2. Typed /\ Fresh /\ [Next]_vars => [New]_vars
  BY <1>1
<1> QED
  BY <1>2, InitTyped, TypesKept, InitFresh, FreshKept, PTL DEF Spec, IdsFresh

-----------------------------------------------------------------------------
(* Changes of fields *)

Writing == {"write", "merge"}

Creating == {"number", "fill"}

\* Who writes a task holds its lock, and who creates one the list's.
Held ==
  \A c \in Callers : /\ pc[c] \in Writing => lock[Head(work[c]).task] = c
                     /\ pc[c] \in Creating => lock[List] = c

LEMMA LocksStay ==
  ASSUME Typed, NEW c \in Callers, Step(c), NEW l \in Locks,
         lock[l] \in Callers, lock[l] # c
  PROVE  lock'[l] = lock[l]
<1>1. lock[l] # Nobody
  BY CallersAssumption
<1>2. Released(c)[l] = lock[l]
  BY DEF Released
<1>3. \A m : Acquire(c, m) => lock'[l] = lock[l]
  BY <1>1 DEF Acquire, Typed
<1>4. CASE Create(c)
  BY <1>4, <1>2 DEF Create
<1>5. CASE CreateLock(c)
  BY <1>5, <1>3 DEF CreateLock
<1>6. CASE LookAtFiles(c)
  BY <1>6, <1>2 DEF LookAtFiles
<1>7. CASE LookAtMark(c)
  BY <1>7, <1>2 DEF LookAtMark
<1>8. CASE CreateFile(c)
  BY <1>8, <1>2 DEF CreateFile
<1>9. CASE FillFile(c)
  BY <1>9, <1>2 DEF FillFile
<1>10. CASE Reset(c)
  BY <1>10, <1>2 DEF Reset
<1>11. CASE ResetLock(c)
  BY <1>11, <1>3 DEF ResetLock
<1>12. CASE ResetMark(c)
  BY <1>12, <1>2 DEF ResetMark
<1>13. CASE ResetFill(c)
  BY <1>13, <1>2 DEF ResetFill
<1>14. CASE ResetUnlink(c)
  BY <1>14, <1>2 DEF ResetUnlink
<1>15. CASE ResetDone(c)
  BY <1>15, <1>2 DEF ResetDone
<1>16. CASE TaskUpdate(c)
  BY <1>16, <1>2 DEF TaskUpdate
<1>17. CASE BlockTask(c)
  BY <1>17, <1>2 DEF BlockTask
<1>18. CASE ClaimTask(c)
  BY <1>18, <1>2 DEF ClaimTask
<1>19. CASE Unassign(c)
  BY <1>19, <1>2 DEF Unassign
<1>20. CASE Delete(c)
  BY <1>20, <1>2 DEF Delete
<1>21. CASE DeleteMark(c)
  BY <1>21, <1>2 DEF DeleteMark
<1>22. CASE DeleteFill(c)
  BY <1>22, <1>2 DEF DeleteFill
<1>23. CASE DeleteUnlink(c)
  BY <1>23, <1>2 DEF DeleteUnlink
<1>24. CASE References(c)
  BY <1>24, <1>2 DEF References
<1>25. CASE Check(c)
  BY <1>25, <1>2 DEF Check
<1>26. CASE LockTask(c)
  BY <1>26, <1>3 DEF LockTask, Skip, Goes
<1>27. CASE LockGivesUp(c)
  BY <1>27, <1>2 DEF LockGivesUp
<1>28. CASE Truncate(c)
  BY <1>28, <1>2 DEF Truncate
<1>29. CASE Write(c)
  BY <1>29, <1>2 DEF Write
<1>30. CASE Die(c)
  BY <1>30, <1>2 DEF Die
<1> QED
  BY <1>4, <1>5, <1>6, <1>7, <1>8, <1>9, <1>10, <1>11, <1>12, <1>13, <1>14, <1>15, <1>16, <1>17,
     <1>18, <1>19, <1>20, <1>21, <1>22, <1>23, <1>24, <1>25, <1>26, <1>27, <1>28, <1>29, <1>30
  DEF Step

\* A caller comes to its writes by LockTask only, and goes on by Truncate; and
\* it creates a file after CreateLock only.
LEMMA ToWriting ==
  ASSUME Typed, NEW c \in Callers, Step(c)
  PROVE  /\ pc'[c] \in Writing => LockTask(c) \/ Truncate(c)
         /\ pc'[c] \in Creating =>
              CreateLock(c) \/ LookAtFiles(c) \/ LookAtMark(c) \/ CreateFile(c)
<1>1. CASE Create(c)
  BY <1>1 DEF Create, Goes, Go, Writing, Creating, Typed
<1>2. CASE CreateLock(c)
  BY <1>2 DEF CreateLock, Goes, Go, Writing, Creating, Typed
<1>3. CASE LookAtFiles(c)
  BY <1>3 DEF LookAtFiles, Goes, Go, Writing, Creating, Typed
<1>4. CASE LookAtMark(c)
  BY <1>4 DEF LookAtMark, Goes, Go, Writing, Creating, Typed
<1>5. CASE CreateFile(c)
  BY <1>5 DEF CreateFile, Goes, Go, Writing, Creating, Typed
<1>6. CASE FillFile(c)
  BY <1>6 DEF FillFile, Goes, Go, Writing, Creating, Typed
<1>7. CASE Reset(c)
  BY <1>7 DEF Reset, Goes, Go, Writing, Creating, Typed
<1>8. CASE ResetLock(c)
  BY <1>8 DEF ResetLock, Goes, Go, Writing, Creating, Typed
<1>9. CASE ResetMark(c)
  BY <1>9 DEF ResetMark, Goes, Go, Writing, Creating, Typed
<1>10. CASE ResetFill(c)
  BY <1>10 DEF ResetFill, Goes, Go, Writing, Creating, Typed
<1>11. CASE ResetUnlink(c)
  BY <1>11 DEF ResetUnlink, Goes, Go, Writing, Creating, Typed
<1>12. CASE ResetDone(c)
  BY <1>12 DEF ResetDone, Goes, Go, Writing, Creating, Typed
<1>13. CASE TaskUpdate(c)
  BY <1>13 DEF TaskUpdate, Goes, Go, Writing, Creating, Typed
<1>14. CASE BlockTask(c)
  BY <1>14 DEF BlockTask, Goes, Go, Writing, Creating, Typed
<1>15. CASE ClaimTask(c)
  BY <1>15 DEF ClaimTask, Goes, Go, Writing, Creating, Typed
<1>16. CASE Unassign(c)
  BY <1>16 DEF Unassign, Goes, Go, Writing, Creating, Typed
<1>17. CASE Delete(c)
  BY <1>17 DEF Delete, Goes, Go, Writing, Creating, Typed
<1>18. CASE DeleteMark(c)
  BY <1>18 DEF DeleteMark, Goes, Go, Writing, Creating, Typed
<1>19. CASE DeleteFill(c)
  BY <1>19 DEF DeleteFill, Goes, Go, Writing, Creating, Typed
<1>20. CASE DeleteUnlink(c)
  BY <1>20 DEF DeleteUnlink, Goes, Go, Writing, Creating, Typed
<1>21. CASE References(c)
  BY <1>21 DEF References, Goes, Go, Writing, Creating, Typed
<1>22. CASE Check(c)
  BY <1>22 DEF Check, Skip, Goes, Go, Writing, Creating, Typed
<1>23. CASE LockTask(c)
  BY <1>23 DEF LockTask, Skip, Goes, Go, Creating, Typed
<1>24. CASE LockGivesUp(c)
  BY <1>24 DEF LockGivesUp, Goes, Go, Writing, Creating, Typed
<1>25. CASE Truncate(c)
  BY <1>25 DEF Truncate, Goes, Go, Creating, Typed
<1>26. CASE Write(c)
  BY <1>26 DEF Write, Goes, Go, Writing, Creating, Typed
<1>27. CASE Die(c)
  BY <1>27 DEF Die, Goes, Go, Writing, Creating, Typed
<1> QED
  BY <1>1, <1>2, <1>3, <1>4, <1>5, <1>6, <1>7, <1>8, <1>9, <1>10, <1>11, <1>12, <1>13, <1>14,
     <1>15, <1>16, <1>17, <1>18, <1>19, <1>20, <1>21, <1>22, <1>23, <1>24, <1>25, <1>26, <1>27
  DEF Step

\* What LockTask() leaves when it has the lock.
LEMMA LockTaken ==
  ASSUME Typed, NEW c \in Callers, LockTask(c), pc'[c] \in Writing
  PROVE  LET u == Head(work[c]) IN
         /\ pc[c] = "lock" /\ pc'[c] = "write"
         /\ u \in Change /\ UNCHANGED work
         /\ u.task \in Whole /\ (u.claim => Claimable(u.task, c))
         /\ lock' = [lock EXCEPT ![u.task] = c]
         /\ existing'[c] = task[u.task]
         /\ UNCHANGED <<form, task, meant, issued, twice, files, marked>>
<1> DEFINE u == Head(work[c])
<1>1. pc[c] = "lock" /\ UNCHANGED <<form, task, meant, issued, twice, files, marked>>
  BY DEF LockTask, files_, history
<1>2. u \in Change
  BY <1>1, SkipTyped DEF Changing
<1>3. \A todo : Goes(c, todo) => pc'[c] \notin Writing
  BY DEF Goes, Go, Writing, Typed
<1>4. /\ u.task \in Whole /\ (u.claim => Claimable(u.task, c))
      /\ Acquire(c, u.task) /\ Go(c, "write") /\ UNCHANGED work
      /\ existing' = [existing EXCEPT ![c] = task[u.task]]
  BY <1>3 DEF LockTask, Skip
<1> HIDE DEF u
<1>5. pc'[c] = "write" /\ existing'[c] = task[u.task] /\ lock' = [lock EXCEPT ![u.task] = c]
  BY <1>4 DEF Acquire, Go, Typed
<1> QED
  BY <1>1, <1>2, <1>4, <1>5 DEF u

LEMMA StepHeld ==
  ASSUME Typed, Held, NEW c \in Callers, Step(c)
  PROVE  Held'
<1>1. ASSUME NEW d \in Callers \ {c}, pc'[d] \in Writing
      PROVE  lock'[Head(work'[d]).task] = d
  <2>1. pc[d] \in Writing /\ work'[d] = work[d]
    BY <1>1, OthersStay
  <2>2. Head(work[d]).task \in Locks
    BY <2>1, SkipTyped DEF Writing, Changing, Change, Locks
  <2> QED
    BY <2>1, <2>2, LocksStay DEF Held
<1>2. ASSUME pc'[c] \in Writing PROVE lock'[Head(work'[c]).task] = c
  <2>1. CASE LockTask(c)
    <3>1. /\ Head(work[c]) \in Change /\ UNCHANGED work
          /\ lock' = [lock EXCEPT ![Head(work[c]).task] = c]
      BY <1>2, <2>1, LockTaken
    <3>2. Head(work[c]).task \in Locks
      BY <3>1 DEF Change, Locks
    <3> QED
      BY <3>1, <3>2 DEF Typed
  <2>2. CASE Truncate(c)
    BY <2>2 DEF Truncate, Held, Writing
  <2> QED
    BY <1>2, <2>1, <2>2, ToWriting
<1>3. ASSUME NEW d \in Callers \ {c}, pc'[d] \in Creating PROVE lock'[List] = d
  <2>1. lock[List] = d /\ List \in Locks
    BY <1>3, OthersStay DEF Held, Locks
  <2> QED
    BY <2>1, LocksStay
<1>4. ASSUME pc'[c] \in Creating PROVE lock'[List] = c
  <2>1. CASE CreateLock(c)
    BY <2>1 DEF CreateLock, Acquire, Typed, Locks
  <2>2. CASE LookAtFiles(c) \/ LookAtMark(c) \/ CreateFile(c)
    BY <2>2 DEF LookAtFiles, LookAtMark, CreateFile, Held, Creating
  <2> QED
    BY <1>4, <2>1, <2>2, ToWriting
<1> QED
  BY <1>1, <1>2, <1>3, <1>4 DEF Held

\* Who writes a file has read under the lock what was meant, unless two tasks
\* have the file.
Faithful(c) ==
  LET u == Head(work[c]) IN
  pc[c] \in Writing =>
    /\ u.task \in issued
    /\ u.task \notin twice => existing[c] = meant[u.task]
    /\ u.claim => existing[c].owner \in {Nobody, c}

\* The file of a task under creation is not whole, and nobody writes it, with
\* the same exception.
Unwritten(c) ==
  pc[c] = "fill" =>
    /\ NewId(c) \in issued
    /\ NewId(c) \notin twice =>
         /\ form[NewId(c)] # "whole"
         /\ \A d \in Callers : pc[d] \in Writing => Head(work[d]).task # NewId(c)

Kept ==
  /\ Present \subseteq issued
  /\ \A t \in Whole : t \in twice \/ task[t] = meant[t]
  /\ \A c \in Callers : Faithful(c) /\ Unwritten(c)

\* A step that writes no file.
Calm(c) ==
  /\ pc'[c] \notin Writing \union {"fill"}
  /\ Present' \subseteq Present /\ Whole' \subseteq Whole
  /\ UNCHANGED <<task, meant, issued, twice>>

LEMMA CalmKeepsFields ==
  ASSUME Typed, Kept, NEW c \in Callers, Step(c), Calm(c)
  PROVE  Kept'
<1>1. Present' \subseteq issued' /\ \A t \in Whole' : t \in twice' \/ task'[t] = meant'[t]
  BY DEF Kept, Calm
<1>2. ASSUME NEW d \in Callers PROVE Faithful(d)'
  <2>1. CASE d = c
    BY <2>1 DEF Faithful, Calm
  <2>2. CASE d # c
    BY <2>2, OthersStay DEF Faithful, Calm, Kept
  <2> QED
    BY <2>1, <2>2
<1>3. ASSUME NEW d \in Callers, pc'[d] = "fill" PROVE Unwritten(d)'
  <2>1. d # c /\ pc[d] = "fill" /\ files'[d] = files[d] /\ marked'[d] = marked[d]
    BY <1>3, OthersStay DEF Calm
  <2>2. NewId(d)' = NewId(d)
    BY <2>1 DEF NewId
  <2>3. /\ NewId(d) \in issued
        /\ NewId(d) \notin twice =>
             /\ NewId(d) \notin Whole
             /\ \A e \in Callers : pc[e] \in Writing => Head(work[e]).task # NewId(d)
    BY <2>1 DEF Kept, Unwritten, Whole
  <2>4. NewId(d) \in Ids /\ (NewId(d) \notin twice => NewId(d) \notin Whole')
    BY <2>3 DEF Calm, Typed
  <2>5. \A e \in Callers : pc'[e] \in Writing => e # c /\ pc[e] = pc'[e] /\ work[e] = work'[e]
    BY OthersStay DEF Calm
  <2> QED
    BY <2>2, <2>3, <2>4, <2>5 DEF Unwritten, Whole, Calm
<1>4. \A d \in Callers : pc'[d] # "fill" => Unwritten(d)'
  BY DEF Unwritten
<1> QED
  BY <1>1, <1>2, <1>3, <1>4 DEF Kept

\* What the others have read and are about to write is left alone by a step
\* that writes another file.
LEMMA OthersFaithful ==
  ASSUME Typed, Kept, NEW c \in Callers, Step(c), NEW d \in Callers \ {c},
         twice \subseteq twice',
         pc[d] \in Writing =>
           /\ Head(work[d]).task \in issued'
           /\ \/ Head(work[d]).task \in twice'
              \/ meant'[Head(work[d]).task] = meant[Head(work[d]).task]
  PROVE  Faithful(d)'
  BY OthersStay DEF Kept, Faithful

\* At most one caller creates a file: it has the lock of the list.
LEMMA OneCreates ==
  ASSUME Typed, Held, NEW c \in Callers, Step(c), pc[c] \in Creating
  PROVE  \A d \in Callers \ {c} : pc'[d] # "fill"
  BY OthersStay DEF Held, Creating

LEMMA StepKept ==
  ASSUME Typed, Held, Kept, NEW c \in Callers, Step(c)
  PROVE  Kept'
<1>a. /\ Present \subseteq issued /\ Whole \subseteq Present
      /\ (\A t \in Whole : t \in twice \/ task[t] = meant[t])
      /\ \A d \in Callers : Faithful(d) /\ Unwritten(d)
  BY DEF Kept, Whole, Present
<1>1. CASE Create(c)
  <2>1. pc'[c] \notin Writing \union {"fill"} /\ UNCHANGED <<form, task, meant, issued, twice>>
    BY <1>1 DEF Create, Goes, Go, Writing, Typed, files_, history
  <2> QED
    BY <2>1, CalmKeepsFields DEF Calm, Present, Whole
<1>2. CASE CreateLock(c)
  <2>1. pc'[c] \notin Writing \union {"fill"} /\ UNCHANGED <<form, task, meant, issued, twice>>
    BY <1>2 DEF CreateLock, Goes, Go, Writing, Typed, files_, history
  <2> QED
    BY <2>1, CalmKeepsFields DEF Calm, Present, Whole
<1>3. CASE LookAtFiles(c)
  <2>1. pc'[c] \notin Writing \union {"fill"} /\ UNCHANGED <<form, task, meant, issued, twice>>
    BY <1>3 DEF LookAtFiles, Goes, Go, Writing, Typed, files_, history
  <2> QED
    BY <2>1, CalmKeepsFields DEF Calm, Present, Whole
<1>4. CASE LookAtMark(c)
  <2>1. pc'[c] \notin Writing \union {"fill"} /\ UNCHANGED <<form, task, meant, issued, twice>>
    BY <1>4 DEF LookAtMark, Goes, Go, Writing, Typed, files_, history
  <2> QED
    BY <2>1, CalmKeepsFields DEF Calm, Present, Whole
<1>5. CASE CreateFile(c)
  <2> DEFINE n == NewId(c)
  <2>1. /\ pc[c] = "number" /\ n \in Ids /\ pc'[c] = "fill"
        /\ form' = [form EXCEPT ![n] = "torn"] /\ issued' = issued \union {n}
        /\ twice' = twice \union ({n} \intersect issued) /\ NewId(c)' = n
        /\ UNCHANGED <<task, meant>>
    BY <1>5 DEF CreateFile, Go, Typed, locals, NewId
  <2> HIDE DEF n
  <2>2. n \in issued => n \in twice'
    BY <2>1
  <2>3. Present' = Present \union {n} /\ Whole' = Whole \ {n} /\ twice \subseteq twice'
    BY <2>1 DEF Present, Whole, Typed
  <2>4. ASSUME NEW d \in Callers \ {c} PROVE Faithful(d)'
    BY <1>a, <2>1, <2>3, OthersFaithful DEF Faithful
  <2>5. Faithful(c)'
    BY <2>1 DEF Faithful, Writing
  <2>6. Unwritten(c)'
    <3>1. form'[n] # "whole"
      BY <2>1 DEF Typed
    <3>2. ASSUME n \notin twice', NEW d \in Callers, pc'[d] \in Writing
          PROVE  Head(work'[d]).task # n
      <4>1. d # c
        BY <2>1, <3>2 DEF Writing
      <4>2. pc[d] \in Writing /\ work'[d] = work[d]
        BY <3>2, <4>1, OthersStay
      <4>3. Head(work[d]).task \in issued
        BY <1>a, <4>2 DEF Faithful
      <4> QED
        BY <2>2, <3>2, <4>2, <4>3
    <3> QED
      BY <2>1, <3>1, <3>2 DEF Unwritten
  <2>7. \A d \in Callers \ {c} : Unwritten(d)'
    BY <2>1, OneCreates DEF Unwritten, Creating
  <2> QED
    BY <1>a, <2>1, <2>3, <2>4, <2>5, <2>6, <2>7 DEF Kept
<1>6. CASE FillFile(c)
  <2> DEFINE n == NewId(c)
  <2>1. /\ pc[c] = "fill" /\ pc'[c] = "idle" /\ UNCHANGED <<issued, twice>>
        /\ form' = [form EXCEPT ![n] = "whole"]
        /\ task' = [task EXCEPT ![n] = Blank] /\ meant' = [meant EXCEPT ![n] = Blank]
    BY <1>6 DEF FillFile, Go, Typed
  <2>2. /\ n \in issued
        /\ n \notin twice => \A d \in Callers : pc[d] \in Writing => Head(work[d]).task # n
    BY <1>a, <2>1 DEF Unwritten
  <2> HIDE DEF n
  <2>3. /\ Present' \subseteq Present \union {n} /\ Whole' \subseteq Whole \union {n}
        /\ \A t \in Whole' : t \in twice' \/ task'[t] = meant'[t]
    BY <1>a, <2>1, <2>2 DEF Present, Whole, Typed
  <2>4. ASSUME NEW d \in Callers \ {c} PROVE Faithful(d)'
    <3>1. ASSUME pc[d] \in Writing
          PROVE  \/ Head(work[d]).task \in twice'
                 \/ meant'[Head(work[d]).task] = meant[Head(work[d]).task]
      BY <2>1, <2>2, <3>1 DEF Typed
    <3> QED
      BY <1>a, <2>1, <3>1, OthersFaithful DEF Faithful
  <2>5. Faithful(c)'
    BY <2>1 DEF Faithful, Writing
  <2>6. \A d \in Callers : Unwritten(d)'
    BY <2>1, OneCreates DEF Unwritten, Creating
  <2> QED
    BY <1>a, <2>1, <2>2, <2>3, <2>4, <2>5, <2>6 DEF Kept
<1>7. CASE Reset(c)
  <2>1. pc'[c] \notin Writing \union {"fill"} /\ UNCHANGED <<form, task, meant, issued, twice>>
    BY <1>7 DEF Reset, Goes, Go, Writing, Typed, files_, history
  <2> QED
    BY <2>1, CalmKeepsFields DEF Calm, Present, Whole
<1>8. CASE ResetLock(c)
  <2>1. pc'[c] \notin Writing \union {"fill"} /\ UNCHANGED <<form, task, meant, issued, twice>>
    BY <1>8 DEF ResetLock, Goes, Go, Writing, Typed, files_, history
  <2> QED
    BY <2>1, CalmKeepsFields DEF Calm, Present, Whole
<1>9. CASE ResetMark(c)
  <2>1. pc'[c] \notin Writing \union {"fill"} /\ UNCHANGED <<form, task, meant, issued, twice>>
    BY <1>9 DEF ResetMark, Goes, Go, Writing, Typed, files_, history
  <2> QED
    BY <2>1, CalmKeepsFields DEF Calm, Present, Whole
<1>10. CASE ResetFill(c)
  <2>1. pc'[c] \notin Writing \union {"fill"} /\ UNCHANGED <<form, task, meant, issued, twice>>
    BY <1>10 DEF ResetFill, Goes, Go, Writing, Typed, files_, history
  <2> QED
    BY <2>1, CalmKeepsFields DEF Calm, Present, Whole
<1>11. CASE ResetUnlink(c)
  <2>1. /\ pc'[c] = "unlink" /\ UNCHANGED <<task, meant, issued, twice>>
        /\ \E t \in sweep[c] : form' = [form EXCEPT ![t] = "absent"]
    BY <1>11 DEF ResetUnlink, history
  <2>2. Present' \subseteq Present /\ Whole' \subseteq Whole
    BY <2>1 DEF Present, Whole, Typed
  <2> QED
    BY <2>1, <2>2, CalmKeepsFields DEF Calm, Writing
<1>12. CASE ResetDone(c)
  <2>1. pc'[c] \notin Writing \union {"fill"} /\ UNCHANGED <<form, task, meant, issued, twice>>
    BY <1>12 DEF ResetDone, Goes, Go, Writing, Typed, files_, history
  <2> QED
    BY <2>1, CalmKeepsFields DEF Calm, Present, Whole
<1>13. CASE TaskUpdate(c)
  <2>1. pc'[c] \notin Writing \union {"fill"} /\ UNCHANGED <<form, task, meant, issued, twice>>
    BY <1>13 DEF TaskUpdate, Goes, Go, Writing, Typed, files_, history
  <2> QED
    BY <2>1, CalmKeepsFields DEF Calm, Present, Whole
<1>14. CASE BlockTask(c)
  <2>1. pc'[c] \notin Writing \union {"fill"} /\ UNCHANGED <<form, task, meant, issued, twice>>
    BY <1>14 DEF BlockTask, Goes, Go, Writing, Typed, files_, history
  <2> QED
    BY <2>1, CalmKeepsFields DEF Calm, Present, Whole
<1>15. CASE ClaimTask(c)
  <2>1. pc'[c] \notin Writing \union {"fill"} /\ UNCHANGED <<form, task, meant, issued, twice>>
    BY <1>15 DEF ClaimTask, Goes, Go, Writing, Typed, files_, history
  <2> QED
    BY <2>1, CalmKeepsFields DEF Calm, Present, Whole
<1>16. CASE Unassign(c)
  <2>1. pc'[c] \notin Writing \union {"fill"} /\ UNCHANGED <<form, task, meant, issued, twice>>
    BY <1>16 DEF Unassign, Goes, Go, Writing, Typed, files_, history
  <2> QED
    BY <2>1, CalmKeepsFields DEF Calm, Present, Whole
<1>17. CASE Delete(c)
  <2>1. pc'[c] \notin Writing \union {"fill"} /\ UNCHANGED <<form, task, meant, issued, twice>>
    BY <1>17 DEF Delete, Goes, Go, Writing, Typed, files_, history
  <2> QED
    BY <2>1, CalmKeepsFields DEF Calm, Present, Whole
<1>18. CASE DeleteMark(c)
  <2>1. pc'[c] \notin Writing \union {"fill"} /\ UNCHANGED <<form, task, meant, issued, twice>>
    BY <1>18 DEF DeleteMark, Goes, Go, Writing, Typed, files_, history
  <2> QED
    BY <2>1, CalmKeepsFields DEF Calm, Present, Whole
<1>19. CASE DeleteFill(c)
  <2>1. pc'[c] \notin Writing \union {"fill"} /\ UNCHANGED <<form, task, meant, issued, twice>>
    BY <1>19 DEF DeleteFill, Goes, Go, Writing, Typed, files_, history
  <2> QED
    BY <2>1, CalmKeepsFields DEF Calm, Present, Whole
<1>20. CASE DeleteUnlink(c)
  <2>1. /\ pc'[c] \in {"references", "idle"} /\ UNCHANGED <<task, meant, issued, twice>>
        /\ form' = [form EXCEPT ![target[c]] = "absent"]
    BY <1>20 DEF DeleteUnlink, Go, Typed, history
  <2>2. Present' \subseteq Present /\ Whole' \subseteq Whole
    BY <2>1 DEF Present, Whole, Typed
  <2> QED
    BY <2>1, <2>2, CalmKeepsFields DEF Calm, Writing
<1>21. CASE References(c)
  <2>1. pc'[c] \notin Writing \union {"fill"} /\ UNCHANGED <<form, task, meant, issued, twice>>
    BY <1>21 DEF References, Goes, Go, Writing, Typed, files_, history
  <2> QED
    BY <2>1, CalmKeepsFields DEF Calm, Present, Whole
<1>22. CASE Check(c)
  <2>1. pc'[c] \notin Writing \union {"fill"} /\ UNCHANGED <<form, task, meant, issued, twice>>
    BY <1>22 DEF Check, Skip, Goes, Go, Writing, Typed, files_, history
  <2> QED
    BY <2>1, CalmKeepsFields DEF Calm, Present, Whole
<1>23. CASE LockTask(c)
  <2>1. CASE pc'[c] \notin Writing
    <3>1. pc'[c] # "fill" /\ UNCHANGED <<form, task, meant, issued, twice>>
      BY <1>23 DEF LockTask, Skip, Goes, Go, Typed, files_, history
    <3> QED
      BY <2>1, <3>1, CalmKeepsFields DEF Calm, Present, Whole
  <2>2. CASE pc'[c] \in Writing
    <3> DEFINE u == Head(work[c])
    <3>1. /\ pc[c] = "lock" /\ pc'[c] = "write"
          /\ u \in Change /\ UNCHANGED work
          /\ u.task \in Whole /\ (u.claim => Claimable(u.task, c))
          /\ existing'[c] = task[u.task]
          /\ UNCHANGED <<form, task, meant, issued, twice, files, marked>>
      BY <1>23, <2>2, LockTaken
    <3>2. Present' = Present /\ Whole' = Whole
      BY <3>1 DEF Present, Whole
    <3>3. ASSUME NEW d \in Callers \ {c} PROVE Faithful(d)'
      BY <1>a, <3>1, OthersFaithful DEF Faithful
    <3>4. Faithful(c)'
      BY <1>a, <3>1 DEF Faithful, Claimable
    <3>5. ASSUME NEW d \in Callers PROVE Unwritten(d)'
      <4>1. CASE pc'[d] = "fill"
        <5>1. d # c /\ pc[d] = "fill" /\ NewId(d)' = NewId(d)
          BY <3>1, <4>1, OthersStay DEF NewId
        <5>2. NewId(d) \in issued
          BY <1>a, <5>1 DEF Unwritten
        <5>3. ASSUME NewId(d) \notin twice
              PROVE  /\ form[NewId(d)] # "whole"
                     /\ \A e \in Callers : pc'[e] \in Writing => Head(work'[e]).task # NewId(d)
          <6>1. /\ form[NewId(d)] # "whole"
                /\ \A e \in Callers : pc[e] \in Writing => Head(work[e]).task # NewId(d)
            BY <1>a, <5>1, <5>3 DEF Unwritten
          <6>2. u.task # NewId(d)
            BY <3>1, <6>1 DEF Whole
          <6> QED
            BY <3>1, <6>1, <6>2, OthersStay
        <5> QED
          BY <3>1, <5>1, <5>2, <5>3 DEF Unwritten
      <4>2. CASE pc'[d] # "fill"
        BY <4>2 DEF Unwritten
      <4> QED
        BY <4>1, <4>2
    <3> QED
      BY <1>a, <3>1, <3>2, <3>3, <3>4, <3>5 DEF Kept
  <2> QED
    BY <2>1, <2>2
<1>24. CASE LockGivesUp(c)
  <2>1. pc'[c] \notin Writing \union {"fill"} /\ UNCHANGED <<form, task, meant, issued, twice>>
    BY <1>24 DEF LockGivesUp, Goes, Go, Writing, Typed, files_, history
  <2> QED
    BY <2>1, CalmKeepsFields DEF Calm, Present, Whole
<1>25. CASE Truncate(c)
  <2> DEFINE t == Head(work[c]).task
  <2>1. /\ pc[c] = "write" /\ pc'[c] = "merge" /\ form' = [form EXCEPT ![t] = "torn"]
        /\ UNCHANGED <<task, meant, issued, twice, work, existing, files, marked>>
    BY <1>25 DEF Truncate, Go, Typed, locals, history
  <2>2. t \in issued
    BY <1>a, <2>1 DEF Faithful, Writing
  <2> HIDE DEF t
  <2>3. Present' \subseteq Present \union {t} /\ Whole' \subseteq Whole
    BY <2>1 DEF Present, Whole, Typed
  <2>4. \A d \in Callers : pc'[d] \in Writing => pc[d] \in Writing
    BY <2>1, OthersStay DEF Writing
  <2>5. ASSUME NEW d \in Callers PROVE Faithful(d)'
    BY <1>a, <2>1, <2>4 DEF Faithful
  <2>6. ASSUME NEW d \in Callers PROVE Unwritten(d)'
    <3>1. CASE pc'[d] = "fill"
      <4>1. pc[d] = "fill" /\ NewId(d)' = NewId(d)
        BY <2>1, <3>1, OthersStay DEF NewId
      <4>2. NewId(d) \notin twice => form'[NewId(d)] # "whole"
        BY <1>a, <2>1, <4>1 DEF Unwritten, Typed
      <4> QED
        BY <1>a, <2>1, <2>4, <4>1, <4>2 DEF Unwritten
    <3>2. CASE pc'[d] # "fill"
      BY <3>2 DEF Unwritten
    <3> QED
      BY <3>1, <3>2
  <2> QED
    BY <1>a, <2>1, <2>2, <2>3, <2>5, <2>6 DEF Kept
<1>26. CASE Write(c)
  <2> DEFINE u == Head(work[c])
  <2>1. /\ pc[c] = "merge" /\ pc'[c] \in {"idle", "check"}
        /\ form' = [form EXCEPT ![u.task] = "whole"]
        /\ task' = [task EXCEPT ![u.task] = Merged(existing[c], u.set)]
        /\ meant' = [meant EXCEPT ![u.task] = Merged(meant[u.task], u.set)]
        /\ UNCHANGED <<issued, twice, files, marked>>
    BY <1>26 DEF Write, Goes, Go, Typed, locals
  <2>2. u.task \in issued /\ (u.task \notin twice => existing[c] = meant[u.task])
    BY <1>a, <2>1 DEF Faithful, Writing
  <2>3. ASSUME NEW d \in Callers \ {c}, pc[d] \in Writing PROVE Head(work[d]).task # u.task
    BY <2>1, <2>3 DEF Held, Writing
  <2>4. ASSUME NEW d \in Callers, pc[d] = "fill", NewId(d) \notin twice PROVE NewId(d) # u.task
    BY <1>a, <2>1, <2>4 DEF Unwritten, Writing
  <2> HIDE DEF u
  <2>5. /\ Present' \subseteq Present \union {u.task} /\ Whole' \subseteq Whole \union {u.task}
        /\ \A t \in Whole' : t \in twice' \/ task'[t] = meant'[t]
    BY <1>a, <2>1, <2>2 DEF Present, Whole, Typed
  <2>6. ASSUME NEW d \in Callers PROVE Faithful(d)'
    <3>1. CASE d = c
      BY <2>1, <3>1 DEF Faithful, Writing
    <3>2. CASE d # c
      <4>1. ASSUME pc[d] \in Writing
            PROVE  meant'[Head(work[d]).task] = meant[Head(work[d]).task]
        BY <2>1, <2>3, <3>2, <4>1 DEF Typed
      <4> QED
        BY <1>a, <2>1, <3>2, <4>1, OthersFaithful DEF Faithful
    <3> QED
      BY <3>1, <3>2
  <2>7. ASSUME NEW d \in Callers PROVE Unwritten(d)'
    <3>1. CASE pc'[d] = "fill"
      <4>1. d # c /\ pc[d] = "fill" /\ NewId(d)' = NewId(d)
        BY <2>1, <3>1, OthersStay DEF NewId
      <4>2. NewId(d) \notin twice => form'[NewId(d)] # "whole"
        BY <1>a, <2>1, <2>4, <4>1 DEF Unwritten, Typed
      <4>3. \A e \in Callers : pc'[e] \in Writing => e # c /\ pc[e] = pc'[e] /\ work[e] = work'[e]
        BY <2>1, OthersStay DEF Writing
      <4> QED
        BY <1>a, <2>1, <4>1, <4>2, <4>3 DEF Unwritten
    <3>2. CASE pc'[d] # "fill"
      BY <3>2 DEF Unwritten
    <3> QED
      BY <3>1, <3>2
  <2> QED
    BY <1>a, <2>1, <2>2, <2>5, <2>6, <2>7 DEF Kept
<1>27. CASE Die(c)
  <2>1. pc'[c] \notin Writing \union {"fill"} /\ UNCHANGED <<form, task, meant, issued, twice>>
    BY <1>27 DEF Die, Goes, Go, Writing, Typed, files_, history
  <2> QED
    BY <2>1, CalmKeepsFields DEF Calm, Present, Whole
<1> QED
  BY <1>1, <1>2, <1>3, <1>4, <1>5, <1>6, <1>7, <1>8, <1>9, <1>10, <1>11, <1>12, <1>13, <1>14,
     <1>15, <1>16, <1>17, <1>18, <1>19, <1>20, <1>21, <1>22, <1>23, <1>24, <1>25, <1>26, <1>27
  DEF Step

-----------------------------------------------------------------------------

IInv == Typed /\ Held /\ Fresh /\ Kept

LEMMA InitIInv == Init => IInv
<1> SUFFICES ASSUME Init PROVE IInv
  OBVIOUS
<1>1. \A c \in Callers : pc[c] = "idle"
  BY DEF Init
<1>2. \A t \in Present : t \in issued
  BY InitialAssumption DEF Init, Present, Ids
<1>3. Held /\ Kept
  BY <1>1, <1>2 DEF Init, Held, Kept, Faithful, Unwritten, Writing, Creating
<1> QED
  BY <1>3, InitTyped, InitFresh DEF IInv

LEMMA StepIInv == IInv /\ [Next]_vars => IInv'
<1> SUFFICES ASSUME IInv, [Next]_vars PROVE IInv'
  OBVIOUS
<1>1. CASE Next
  BY <1>1, StepTyped, StepHeld, StepFresh, StepKept DEF Next, IInv
<1>2. CASE UNCHANGED vars
  <2>1. Typed' /\ Fresh'
    BY <1>2, TypesKept, FreshKept DEF IInv
  <2>2. Held'
    BY <1>2 DEF vars, IInv, Held
  <2>3. Kept'
    BY <1>2 DEF vars, files_, locals, history, IInv, Kept, Faithful, Unwritten, NewId, Present, Whole
  <2> QED
    BY <2>1, <2>2, <2>3 DEF IInv
<1> QED
  BY <1>1, <1>2

\* No change of one field undoes a change of another, in a file that only one
\* task has (updateTask() reads and writes the whole file under its lock).
THEOREM FieldsKept == Spec => []NoFieldUndone
<1>1. IInv => NoFieldUndone
  BY DEF IInv, Kept, NoFieldUndone
<1> QED
  BY <1>1, InitIInv, StepIInv, PTL DEF Spec

\* A claim that succeeds takes a task that nobody else has, with the same
\* exception (claimTask()).
THEOREM ExclusiveClaims == Spec => ClaimsAreExclusive
<1> DEFINE Free == \A c \in Callers :
      LET u == Head(work[c]) IN
      Write(c) /\ u.claim => u.task \in twice \/ meant[u.task].owner \in {Nobody, c}
<1>1. IInv => Free
  BY DEF IInv, Kept, Faithful, Write, Writing
<1>2. IInv /\ [Next]_vars => [Free]_vars
  BY <1>1
<1> QED
  BY <1>2, InitIInv, StepIInv, PTL DEF Spec, ClaimsAreExclusive
===============================================================================
