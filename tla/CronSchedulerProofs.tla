------------------------- MODULE CronSchedulerProofs --------------------------
(***************************************************************************)
(* Type correctness, one firing a minute and one process for a task, for   *)
(* any number of servers, tasks, minutes and runs.                         *)
(*                                                                         *)
(* Fired relates the two places that remember a firing: a run of a tick is *)
(* never of a later minute than its server's key for the task, so that a   *)
(* task whose key is not this minute has no run of this minute.  Overlap   *)
(* is about the runs of a task that are on their way to a process or have  *)
(* one: a second is only begun while the first has no process yet, or has  *)
(* one that is not entered, which Entries says of tangled runs alone.      *)
(***************************************************************************)
EXTENDS CronScheduler, FiniteSetTheorems, TLAPS

RunRecord ==
  [pc : Pcs, server : Servers, task : Tasks, minute : Minutes, manual : BOOLEAN,
   seen : {NoFile} \union TaskFile, tries : {1, 2}, armed : BOOLEAN, killed : BOOLEAN]

RunType == run \in [Runs -> RunRecord]

Unwritten(r) ==
  IF run[r].pc \in {"stampWrite", "disableWrite"} THEN run[r].seen \in TaskFile
                                                  ELSE run[r].seen = NoFile
Snapshots == \A r \in Runs : Unwritten(r)

ClockType ==
  /\ minute \in Minutes
  /\ up \subseteq Servers
  /\ calls \in 0..MaxRuns

FileType ==
  /\ tasks \in TaskFile
  /\ \A s \in Servers : listed[s] \in {NoFile} \union TaskFile
  /\ listed \in [Servers -> {NoFile} \union TaskFile]

LogType ==
  /\ log \subseteq Runs
  /\ damaged \in BOOLEAN
  /\ tmp \subseteq Writers
  /\ draft \in [Writers -> SUBSET Runs]
  /\ stem \in [Writers -> Writers \union {Nothing}]
  /\ sweep \in [Servers -> {"none", "read", "rename"}]

MemoryType ==
  /\ key \in [Servers -> [Tasks -> Minutes \union {Never}]]
  /\ running \in [Servers -> [Tasks -> Runs \union {Nothing}]]

Typed == ClockType /\ FileType /\ LogType /\ MemoryType /\ RunType /\ Snapshots

LEMMA TypedIsTypeOK == Typed => TypeOK
<1> SUFFICES ASSUME Typed PROVE TypeOK
  OBVIOUS
<1>1. \A r \in Runs :
       /\ run[r].pc \in Pcs
       /\ run[r].server \in Servers /\ run[r].task \in Tasks /\ run[r].minute \in Minutes
       /\ run[r].tries \in {1, 2}
  BY DEF Typed, RunType, RunRecord
<1>2. \A r \in Runs :
       IF run[r].pc \in {"stampWrite", "disableWrite"} THEN run[r].seen \in TaskFile
                                                     ELSE run[r].seen = NoFile
  BY DEF Typed, Snapshots, Unwritten
<1>3. \A s \in Servers : listed[s] = NoFile \/ listed[s] \in TaskFile
  BY DEF Typed, FileType
<1> QED
  BY <1>1, <1>2, <1>3 DEF Typed, ClockType, FileType, LogType, MemoryType, TypeOK

-----------------------------------------------------------------------------
(* Sets of tasks and the runs they get *)

LEMMA Ranks ==
  ASSUME NEW S \in SUBSET Tasks, calls \in Nat
  PROVE  /\ Cardinality(S) \in Nat
         /\ \A t \in S : Rank(S, t) \in Nat /\ Rank(S, t) > calls
                         /\ Rank(S, t) =< calls + Cardinality(S)
<1>1. IsFiniteSet(Tasks)
  BY FS_Interval, BoundsAssumption DEF Tasks
<1>2. IsFiniteSet(S) /\ Cardinality(S) \in Nat
  BY <1>1, FS_Subset, FS_CardinalityType
<1>3. ASSUME NEW t \in S
      PROVE  /\ Rank(S, t) \in Nat /\ Rank(S, t) > calls
             /\ Rank(S, t) =< calls + Cardinality(S)
  <2> DEFINE U == {u \in S : u <= t}
  <2>1. U \subseteq S /\ t \in U
    BY DEF Tasks
  <2>2. Cardinality(U) \in Nat /\ Cardinality(U) =< Cardinality(S) /\ IsFiniteSet(U)
    BY <1>2, <2>1, FS_Subset, FS_CardinalityType
  <2>3. Cardinality(U) # 0
    BY <2>1, <2>2, FS_EmptySet
  <2>4. Rank(S, t) = calls + Cardinality(U)
    BY DEF Rank
  <2> HIDE DEF U
  <2> QED
    BY <1>2, <2>2, <2>3, <2>4
<1> QED
  BY <1>2, <1>3

-----------------------------------------------------------------------------
(* What a step of a run does to the table of runs *)

Idle == {"none", "gone"}

\* Run r goes on from p to q, and no other run changes.
Moves(r, p, q) ==
  /\ run[r].pc = p /\ run'[r].pc = q
  /\ \A u \in Runs \ {r} : run'[u] = run[u]
  /\ run'[r].server = run[r].server /\ run'[r].task = run[r].task
  /\ run'[r].minute = run[r].minute /\ run'[r].manual = run[r].manual

Advances(r, p, q) == RunType' /\ Snapshots' /\ Moves(r, p, q)

\* A step that writes nothing but the pc.
LEMMA GoAdvances ==
  ASSUME NEW r \in Runs, NEW p, NEW q \in Pcs, RunType, Snapshots, Go(r, p, q),
         p \notin {"stampWrite", "disableWrite"}, q \notin {"stampWrite", "disableWrite"}
  PROVE  Advances(r, p, q)
<1>1. run[r] \in RunRecord /\ run[r].pc = p /\ run' = [run EXCEPT ![r].pc = q]
  BY DEF RunType, Go
<1>2. run[r].seen = NoFile
  BY <1>1 DEF Snapshots, Unwritten
<1>3. run'[r] = [run[r] EXCEPT !.pc = q]
  BY <1>1 DEF RunType
<1>4. \A u \in Runs \ {r} : run'[u] = run[u]
  BY <1>1 DEF RunType
<1>5. run'[r] \in RunRecord
  BY <1>1, <1>3 DEF RunRecord
<1>6. RunType'
  BY <1>1, <1>4, <1>5 DEF RunType
<1>7. Moves(r, p, q)
  BY <1>1, <1>3, <1>4 DEF Moves, RunRecord
<1>8. run'[r].seen = NoFile
  BY <1>1, <1>2, <1>3 DEF RunRecord
<1>9. Snapshots'
  BY <1>4, <1>7, <1>8 DEF Snapshots, Unwritten, Moves
<1> QED
  BY <1>6, <1>7, <1>9 DEF Advances

\* A step that writes more of the run, `seen' as the new pc wants it.
LEMMA WritesAdvance ==
  ASSUME NEW r \in Runs, NEW p, NEW q, Snapshots, RunType', Moves(r, p, q), Unwritten(r)'
  PROVE  Advances(r, p, q)
<1>1. Snapshots'
  BY DEF Snapshots, Unwritten, Moves
<1> QED
  BY <1>1 DEF Advances

LEMMA SnapshotTyped ==
  ASSUME NEW r \in Runs, NEW q \in Pcs, NEW file \in {NoFile} \union TaskFile, RunType,
         run' = [run EXCEPT ![r].pc = q, ![r].seen = file]
  PROVE  RunType'
  BY DEF RunType, RunRecord

LEMMA TimerTyped ==
  ASSUME NEW r \in Runs, NEW killed \in BOOLEAN, RunType,
         run' = [run EXCEPT ![r].armed = FALSE, ![r].killed = killed]
  PROVE  RunType'
  BY DEF RunType, RunRecord

LEMMA EndTyped ==
  ASSUME NEW r \in Runs, NEW q \in Pcs, NEW a \in BOOLEAN, NEW k \in BOOLEAN, RunType,
         run' = [run EXCEPT ![r].pc = q, ![r].armed = a, ![r].killed = k]
  PROVE  RunType'
<1>1. [run EXCEPT ![r].pc = q, ![r].armed = a, ![r].killed = k] \in [Runs -> RunRecord]
  BY DEF RunType, RunRecord
<1> QED
  BY <1>1 DEF RunType

LEMMA Readings ==
  ASSUME NEW r \in Runs, RunType, Snapshots, FileType
  PROVE  /\ StampRead(r) => Advances(r, "stamp", "stampWrite")
         /\ DisableRead(r) => Advances(r, "disable", "disableWrite")
<1>1. ASSUME StampRead(r) PROVE Advances(r, "stamp", "stampWrite")
  <2>1. RunType'
    <3>1. "stampWrite" \in Pcs
      BY DEF Pcs, Preparing
    <3>2. tasks \in {NoFile} \union TaskFile
      BY DEF FileType
    <3>3. run' = [run EXCEPT ![r].pc = "stampWrite", ![r].seen = tasks]
      BY <1>1 DEF StampRead
    <3> QED
      BY <3>1, <3>2, <3>3, SnapshotTyped
  <2>2. Moves(r, "stamp", "stampWrite")
    BY <1>1 DEF StampRead, Moves, RunType, RunRecord
  <2>3. Unwritten(r)'
    BY <1>1 DEF StampRead, Unwritten, RunType, RunRecord, FileType
  <2> QED
    BY <2>1, <2>2, <2>3, WritesAdvance
<1>2. ASSUME DisableRead(r) PROVE Advances(r, "disable", "disableWrite")
  <2>1. RunType'
    <3>1. "disableWrite" \in Pcs
      BY DEF Pcs, Preparing
    <3>2. tasks \in {NoFile} \union TaskFile
      BY DEF FileType
    <3>3. run' = [run EXCEPT ![r].pc = "disableWrite", ![r].seen = tasks]
      BY <1>2 DEF DisableRead
    <3> QED
      BY <3>1, <3>2, <3>3, SnapshotTyped
  <2>2. Moves(r, "disable", "disableWrite")
    BY <1>2 DEF DisableRead, Moves, RunType, RunRecord
  <2>3. Unwritten(r)'
    BY <1>2 DEF DisableRead, Unwritten, RunType, RunRecord, FileType
  <2> QED
    BY <2>1, <2>2, <2>3, WritesAdvance
<1> QED
  BY <1>1, <1>2

LEMMA Writings ==
  ASSUME NEW r \in Runs, RunType, Snapshots
  PROVE  /\ StampWrite(r) => Advances(r, "stampWrite", "append") /\ tasks' \in TaskFile
         /\ DisableWrite(r) => Advances(r, "disableWrite", "done") /\ tasks' \in TaskFile
<1>1. ASSUME StampWrite(r)
      PROVE  Advances(r, "stampWrite", "append") /\ tasks' \in TaskFile
  <2>1. RunType'
    <3>1. "append" \in Pcs
      BY DEF Pcs, Preparing
    <3>2. NoFile \in {NoFile} \union TaskFile
      OBVIOUS
    <3>3. run' = [run EXCEPT ![r].pc = "append", ![r].seen = NoFile]
      BY <1>1 DEF StampWrite
    <3> QED
      BY <3>1, <3>2, <3>3, SnapshotTyped
  <2>2. Moves(r, "stampWrite", "append")
    BY <1>1 DEF StampWrite, Moves, RunType, RunRecord
  <2>3. Unwritten(r)'
    BY <1>1 DEF StampWrite, Unwritten, RunType, RunRecord
  <2>4. run[r].seen \in TaskFile /\ run[r].minute \in Minutes /\ run[r].task \in Tasks
    BY <1>1 DEF StampWrite, Snapshots, Unwritten, RunType, RunRecord
  <2>5. tasks' \in TaskFile
    BY <1>1, <2>4 DEF StampWrite, Stamped, TaskFile
  <2> QED
    BY <2>1, <2>2, <2>3, <2>5, WritesAdvance
<1>2. ASSUME DisableWrite(r)
      PROVE  Advances(r, "disableWrite", "done") /\ tasks' \in TaskFile
  <2>1. RunType'
    <3>1. "done" \in Pcs
      BY DEF Pcs, Preparing
    <3>2. NoFile \in {NoFile} \union TaskFile
      OBVIOUS
    <3>3. run' = [run EXCEPT ![r].pc = "done", ![r].seen = NoFile]
      BY <1>2 DEF DisableWrite
    <3> QED
      BY <3>1, <3>2, <3>3, SnapshotTyped
  <2>2. Moves(r, "disableWrite", "done")
    BY <1>2 DEF DisableWrite, Moves, RunType, RunRecord
  <2>3. Unwritten(r)'
    BY <1>2 DEF DisableWrite, Unwritten, RunType, RunRecord
  <2>4. run[r].seen \in TaskFile /\ run[r].task \in Tasks
    BY <1>2 DEF DisableWrite, Snapshots, Unwritten, RunType, RunRecord
  <2>5. tasks' \in TaskFile
    BY <1>2, <2>4 DEF DisableWrite, TaskFile
  <2> QED
    BY <2>1, <2>2, <2>3, <2>5, WritesAdvance
<1> QED
  BY <1>1, <1>2

LEMMA Processes ==
  ASSUME NEW r \in Runs, RunType, Snapshots
  PROVE  /\ Spawn(r) => Advances(r, "start", "child")
         /\ Timeout(r) => Advances(r, "child", "child")
         /\ Ended(r) => Advances(r, "child", "update")
<1>1. ASSUME Spawn(r) PROVE Advances(r, "start", "child")
  <2>1. RunType'
    BY <1>1 DEF Spawn, RunType, RunRecord, Pcs
  <2>2. Moves(r, "start", "child")
    BY <1>1 DEF Spawn, Moves, RunType, RunRecord
  <2>3. run[r].seen = NoFile
    BY <1>1 DEF Spawn, Snapshots, Unwritten
  <2>4. Unwritten(r)'
    BY <1>1, <2>3 DEF Spawn, Unwritten, RunType, RunRecord
  <2> QED
    BY <2>1, <2>2, <2>4, WritesAdvance
<1>2. ASSUME Timeout(r) PROVE Advances(r, "child", "child")
  <2>1. RunType'
    <3>1. (running[run[r].server][run[r].task] # Nothing) \in BOOLEAN
      OBVIOUS
    <3>2. run' = [run EXCEPT ![r].armed = FALSE,
                             ![r].killed = running[run[r].server][run[r].task] # Nothing]
      BY <1>2 DEF Timeout
    <3> QED
      BY <3>1, <3>2, TimerTyped
  <2>2. Moves(r, "child", "child")
    BY <1>2 DEF Timeout, Moves, RunType, RunRecord
  <2>3. run[r].seen = NoFile
    BY <1>2 DEF Timeout, Snapshots, Unwritten
  <2>4. Unwritten(r)'
    BY <1>2, <2>3 DEF Timeout, Unwritten, RunType, RunRecord
  <2> QED
    BY <2>1, <2>2, <2>4, WritesAdvance
<1>3. ASSUME Ended(r) PROVE Advances(r, "child", "update")
  <2>1. RunType'
    <3>1. "update" \in Pcs
      BY DEF Pcs
    <3> QED
      BY <1>3, <3>1, EndTyped DEF Ended
  <2>2. Moves(r, "child", "update")
    BY <1>3 DEF Ended, Moves, RunType, RunRecord
  <2>3. run[r].seen = NoFile
    BY <1>3 DEF Ended, Snapshots, Unwritten
  <2>4. Unwritten(r)'
    BY <1>3, <2>3 DEF Ended, Unwritten, RunType, RunRecord
  <2> QED
    BY <2>1, <2>2, <2>4, WritesAdvance
<1> QED
  BY <1>1, <1>2, <1>3

LEMMA RetryTyped ==
  ASSUME NEW r \in Runs, NEW q \in Pcs, NEW n \in {1, 2}, RunType,
         run' = [run EXCEPT ![r].pc = q, ![r].tries = n]
  PROVE  RunType'
<1>1. [run EXCEPT ![r].pc = q, ![r].tries = n] \in [Runs -> RunRecord]
  BY DEF RunType, RunRecord
<1> QED
  BY <1>1 DEF RunType

LEMMA FailedUpdate ==
  ASSUME NEW r \in Runs, RunType, Snapshots, UpdateFails(r)
  PROVE  \E p \in {"update", "updateRename"}, q \in {"update", "unfinished"} : Advances(r, p, q)
<1>1. PICK p \in {"update", "updateRename"} : run[r].pc = p
  BY DEF UpdateFails
<1>2. run[r].seen = NoFile
  BY <1>1 DEF Snapshots, Unwritten
<1>3. CASE run[r].tries = 1
  <2>1. run' = [run EXCEPT ![r].pc = "update", ![r].tries = 2]
    BY <1>3 DEF UpdateFails, Retry
  <2>2. RunType'
    <3>1. "update" \in Pcs /\ 2 \in {1, 2}
      BY DEF Pcs
    <3> QED
      BY <2>1, <3>1, RetryTyped
  <2>3. Moves(r, p, "update")
    BY <1>1, <2>1 DEF Moves, RunType, RunRecord
  <2>4. Unwritten(r)'
    BY <1>2, <2>1 DEF Unwritten, RunType, RunRecord
  <2> QED
    BY <2>2, <2>3, <2>4, WritesAdvance
<1>4. CASE run[r].tries # 1
  <2>1. run' = [run EXCEPT ![r].pc = "unfinished"]
    BY <1>4 DEF UpdateFails, Retry
  <2>2. RunType'
    BY <2>1 DEF RunType, RunRecord, Pcs
  <2>3. Moves(r, p, "unfinished")
    BY <1>1, <2>1 DEF Moves, RunType, RunRecord
  <2>4. Unwritten(r)'
    BY <1>2, <2>1 DEF Unwritten, RunType, RunRecord
  <2> QED
    BY <2>2, <2>3, <2>4, WritesAdvance
<1> QED
  BY <1>3, <1>4

\* A run is on its way to a process, or has one.
Active == Preparing \union {"child"}

\* What every step of a run does: no run begins or comes back, and only the
\* spawn makes a process.
Progress(r) == \E p \in Pcs \ Idle, q \in Pcs \ Idle :
  /\ Advances(r, p, q)
  /\ q \in Active => p \in Active
  /\ q = "child" => p \in {"start", "child"}

LEMMA RunsProgress ==
  ASSUME NEW r \in Runs, RunType, Snapshots, FileType, RunStep(r)
  PROVE  Progress(r)
<1> USE DEF Idle, Active, Pcs, Preparing
<1>1. CASE StampRead(r)
  BY <1>1, Readings DEF Progress
<1>2. CASE StampWrite(r)
  BY <1>2, Writings DEF Progress
<1>3. CASE Append(r)
  <2>1. Advances(r, "append", "appendRename")
    BY <1>3, GoAdvances DEF Append
  <2> QED
    BY <2>1 DEF Progress
<1>4. CASE AppendRename(r)
  <2>1. Advances(r, "appendRename", "start") \/ Advances(r, "appendRename", "unrecorded")
    BY <1>4, GoAdvances DEF AppendRename
  <2> QED
    BY <2>1 DEF Progress
<1>14. CASE AppendUnread(r)
  <2>1. Advances(r, "append", "unrecorded")
    BY <1>14, GoAdvances DEF AppendUnread
  <2> QED
    BY <2>1 DEF Progress
<1>5. CASE Spawn(r)
  BY <1>5, Processes DEF Progress
<1>6. CASE StartFails(r)
  <2>1. Advances(r, "start", "notStarted")
    BY <1>6, GoAdvances DEF StartFails
  <2> QED
    BY <2>1 DEF Progress
<1>7. CASE Timeout(r)
  BY <1>7, Processes DEF Progress
<1>8. CASE ChildExits(r) \/ ChildKilled(r)
  <2>1. Ended(r)
    BY <1>8 DEF ChildExits, ChildKilled
  <2> QED
    BY <2>1, Processes DEF Progress
<1>9. CASE Update(r)
  <2>1. Advances(r, "update", "updateRename")
    BY <1>9, GoAdvances DEF Update
  <2> QED
    BY <2>1 DEF Progress
<1>10. CASE UpdateRename(r)
  <2>1. After(r) \in {"disable", "done"}
    BY DEF After
  <2>2. Advances(r, "updateRename", After(r))
    BY <1>10, <2>1, GoAdvances DEF UpdateRename
  <2> QED
    BY <2>1, <2>2 DEF Progress
<1>11. CASE UpdateFails(r)
  BY <1>11, FailedUpdate DEF Progress
<1>12. CASE DisableRead(r)
  BY <1>12, Readings DEF Progress
<1>13. CASE DisableWrite(r)
  BY <1>13, Writings DEF Progress
<1> QED
  BY <1>1, <1>2, <1>3, <1>4, <1>5, <1>6, <1>7, <1>8, <1>9, <1>10, <1>11, <1>12, <1>13,
     <1>14
     DEF RunStep

-----------------------------------------------------------------------------
(* New runs, and those that die with their server *)

\* Run r is the new run of task t in server s.
Begun(r, s, t, m) ==
  /\ r > calls /\ r =< calls'
  /\ run'[r].pc = "stamp" /\ run'[r].server = s /\ run'[r].task = t
  /\ run'[r].minute = minute /\ run'[r].manual = m

\* Every run is the old one or a new one, and a task has one new run at most.
Begins(s, S, m) ==
  /\ calls' \in 0..MaxRuns /\ calls' >= calls
  /\ \A r \in Runs : \/ run'[r] = run[r]
                     \/ \E t \in S : r = Rank(S, t) /\ Begun(r, s, t, m)

LEMMA CallTyped ==
  ASSUME NEW pc \in Pcs, NEW s \in Servers, NEW t \in Tasks, NEW n \in Minutes,
         NEW m \in BOOLEAN
  PROVE  Call(pc, s, t, n, m) \in RunRecord
  BY DEF Call, RunRecord

LEMMA NoRunTyped == NoRun \in RunRecord
<1>1. "none" \in Pcs /\ 1 \in Servers /\ 1 \in Tasks /\ 0 \in Minutes
  BY BoundsAssumption DEF Pcs, Servers, Tasks, Minutes
<1> QED
  BY <1>1, CallTyped DEF NoRun

LEMMA NewRunTyped ==
  ASSUME NEW s \in Servers, NEW t \in Tasks, NEW m \in BOOLEAN, minute \in Minutes
  PROVE  /\ NewRun(s, t, m) \in RunRecord
         /\ NewRun(s, t, m).pc = "stamp" /\ NewRun(s, t, m).server = s
         /\ NewRun(s, t, m).task = t /\ NewRun(s, t, m).minute = minute
         /\ NewRun(s, t, m).manual = m /\ NewRun(s, t, m).seen = NoFile
<1>1. "stamp" \in Pcs
  BY DEF Pcs, Preparing
<1>2. NewRun(s, t, m) \in RunRecord
  BY <1>1, CallTyped DEF NewRun
<1> QED
  BY <1>2 DEF NewRun, Call

LEMMA Executing ==
  ASSUME NEW s \in Servers, NEW S \in SUBSET Tasks, NEW m \in BOOLEAN,
         ClockType, RunType, Snapshots, Execute(s, S, m)
  PROVE  RunType' /\ Snapshots' /\ Begins(s, S, m)
<1>1. calls \in Nat /\ minute \in Minutes /\ MaxRuns \in Nat
  BY BoundsAssumption DEF ClockType
<1>2. calls' = calls + Cardinality(S) /\ calls' \in Nat /\ calls' =< MaxRuns
  BY <1>1, Ranks DEF Execute
<1>3. ASSUME NEW r \in Runs
      PROVE  \/ run'[r] = run[r]
             \/ \E t \in S : r = Rank(S, t) /\ run'[r] = NewRun(s, t, m)
  <2>1. CASE \E t \in S : r = Rank(S, t)
    <3> DEFINE t == CHOOSE u \in S : r = Rank(S, u)
    <3>1. t \in S /\ r = Rank(S, t)
      BY <2>1
    <3>2. run'[r] = NewRun(s, t, m)
      BY <2>1 DEF Execute
    <3> QED
      BY <3>1, <3>2
  <2>2. CASE ~ \E t \in S : r = Rank(S, t)
    BY <2>2 DEF Execute
  <2> QED
    BY <2>1, <2>2
<1>4. ASSUME NEW r \in Runs
      PROVE  \/ run'[r] = run[r]
             \/ /\ run'[r] \in RunRecord /\ run'[r].pc = "stamp" /\ run'[r].seen = NoFile
                /\ \E t \in S : r = Rank(S, t) /\ Begun(r, s, t, m)
  <2>1. CASE run'[r] = run[r]
    BY <2>1
  <2>2. ASSUME NEW t \in S, r = Rank(S, t), run'[r] = NewRun(s, t, m)
        PROVE  /\ run'[r] \in RunRecord /\ run'[r].pc = "stamp" /\ run'[r].seen = NoFile
               /\ Begun(r, s, t, m)
    <3>1. r > calls /\ r =< calls'
      BY <1>1, <1>2, <2>2, Ranks
    <3>2. run'[r] \in RunRecord /\ run'[r].pc = "stamp" /\ run'[r].seen = NoFile
      BY <1>1, <2>2, NewRunTyped
    <3>3. run'[r].server = s /\ run'[r].task = t /\ run'[r].minute = minute
      BY <1>1, <2>2, NewRunTyped
    <3>4. run'[r].manual = m
      BY <1>1, <2>2, NewRunTyped
    <3> QED
      BY <3>1, <3>2, <3>3, <3>4 DEF Begun
  <2> QED
    BY <1>3, <2>1, <2>2
<1>5. RunType'
  <2>1. run' = [r \in Runs |-> run'[r]]
    BY DEF Execute
  <2>2. \A r \in Runs : run'[r] \in RunRecord
    BY <1>4 DEF RunType
  <2> QED
    BY <2>1, <2>2 DEF RunType
<1>6. Snapshots'
  BY <1>4 DEF Snapshots, Unwritten
<1>7. Begins(s, S, m)
  <2>1. calls' \in 0..MaxRuns /\ calls' >= calls
    BY <1>1, <1>2, Ranks
  <2> QED
    BY <1>4, <2>1 DEF Begins
<1> QED
  BY <1>5, <1>6, <1>7

\* A run that dies is gone; another stays as it is.
LEMMA Dying ==
  ASSUME NEW s \in Servers, RunType, Snapshots, Die(s)
  PROVE  /\ RunType' /\ Snapshots'
         /\ \A r \in Runs : \/ run'[r] = run[r] /\ ~(r \in Called /\ run[r].server = s)
                            \/ run[r].server = s /\ run'[r].pc = "gone"
<1>1. \A r \in Runs : \/ run'[r] = run[r] /\ ~(r \in Called /\ run[r].server = s)
                      \/ run[r].server = s /\ run'[r] = Gone(r)
  BY DEF Die
<1>2. ASSUME NEW r \in Runs PROVE Gone(r) \in RunRecord
  <2>1. /\ run[r].server \in Servers /\ run[r].task \in Tasks /\ run[r].minute \in Minutes
    BY DEF RunType, RunRecord
  <2>2. run[r].manual \in BOOLEAN
    BY DEF RunType, RunRecord
  <2>3. "gone" \in Pcs
    BY DEF Pcs
  <2> QED
    BY <2>1, <2>2, <2>3, CallTyped DEF Gone
<1>3. \A r \in Runs : Gone(r).pc = "gone" /\ Gone(r).seen = NoFile
  BY DEF Gone, Call
<1>4. RunType'
  <2>1. run' = [r \in Runs |-> run'[r]]
    BY DEF Die
  <2>2. \A r \in Runs : run'[r] \in RunRecord
    BY <1>1, <1>2 DEF RunType
  <2> QED
    BY <2>1, <2>2 DEF RunType
<1>5. Snapshots'
  BY <1>1, <1>3 DEF Snapshots, Unwritten
<1>6. ASSUME NEW r \in Runs
      PROVE  \/ run'[r] = run[r] /\ ~(r \in Called /\ run[r].server = s)
             \/ run[r].server = s /\ run'[r].pc = "gone"
  <2>1. CASE run[r].server = s /\ run'[r] = Gone(r)
    BY <1>3, <2>1
  <2> QED
    BY <1>1, <2>1
<1> QED
  BY <1>4, <1>5, <1>6

-----------------------------------------------------------------------------
(* The types *)

LEMMA WritersAre ==
  /\ \A r \in Runs : r \in Writers
  /\ \A s \in Servers : -s \in Writers
  BY BoundsAssumption DEF Runs, Servers, Writers

FilesTyped ==
  /\ log' \subseteq Runs /\ damaged' \in BOOLEAN
  /\ tmp' \subseteq Writers
  /\ draft' \in [Writers -> SUBSET Runs]
  /\ stem' \in [Writers -> Writers \union {Nothing}]

LEMMA WrittenTyped ==
  ASSUME NEW w \in Writers, NEW content \in SUBSET Runs, LogType, Written(w, content)
  PROVE  FilesTyped
<1>1. Names \subseteq Writers
  BY DEF Names, Used
<1> QED
  BY <1>1 DEF Written, LogType, FilesTyped

LEMMA RenameTyped ==
  ASSUME NEW w \in Writers, LogType, Rename(w) \/ RenameFails(w)
  PROVE  FilesTyped
<1>1. CASE Rename(w)
  <2>1. stem[w] \in Writers
    BY <1>1 DEF Rename, Renames, LogType
  <2>2. draft[stem[w]] \subseteq Runs
    BY <2>1 DEF LogType
  <2> QED
    BY <1>1, <2>1, <2>2 DEF Rename, LogType, FilesTyped
<1>2. CASE RenameFails(w)
  BY <1>2 DEF RenameFails, LogType, FilesTyped
<1> QED
  BY <1>1, <1>2

LEMMA InitTyped == Init => Typed
<1> SUFFICES ASSUME Init PROVE Typed
  OBVIOUS
<1>1. 0 \in Minutes /\ Never \in Minutes \union {Never} /\ 0 \in 0..MaxRuns
  BY BoundsAssumption DEF Minutes
<1>2. ClockType
  BY <1>1 DEF Init, ClockType
<1>3. FileType
  BY <1>1 DEF Init, FileType, TaskFile
<1>4. LogType
  BY DEF Init, LogType
<1>5. MemoryType
  BY <1>1 DEF Init, MemoryType
<1>6. RunType
  BY NoRunTyped DEF Init, RunType
<1>7. Snapshots
  <2>1. NoRun.pc = "none" /\ NoRun.seen = NoFile
    BY DEF NoRun, Call
  <2> QED
    BY <2>1 DEF Init, Snapshots, Unwritten
<1> QED
  BY <1>2, <1>3, <1>4, <1>5, <1>6, <1>7 DEF Typed

LEMMA ServersTyped ==
  ASSUME Typed, NEW s \in Servers, ServerStep(s)
  PROVE  Typed'
<1> USE DEF Typed, files, logFiles, memory
<1>1. CASE Start(s)
  <2>1. ClockType' /\ FileType' /\ MemoryType' /\ RunType'
    BY <1>1 DEF Start, ClockType, FileType, MemoryType, RunType
  <2>2. LogType'
    BY <1>1 DEF Start, LogType
  <2>3. Snapshots'
    BY <1>1 DEF Start, Snapshots, Unwritten
  <2> QED
    BY <2>1, <2>2, <2>3
<1>2. CASE Sweep(s) \/ SweepRename(s)
  <2>1. ClockType' /\ FileType' /\ MemoryType' /\ RunType'
    BY <1>2 DEF Sweep, SweepRename, ClockType, FileType, MemoryType, RunType
  <2>2. FilesTyped
    <3>1. CASE Sweep(s)
      <4>1. log \ Stale \subseteq Runs /\ -s \in Writers
        BY WritersAre DEF LogType
      <4>2. Written(-s, log \ Stale) \/ UNCHANGED logFiles
        BY <3>1 DEF Sweep
      <4> QED
        BY <4>1, <4>2, WrittenTyped DEF LogType, FilesTyped, logFiles
    <3>2. CASE SweepRename(s)
      BY <3>2, RenameTyped, WritersAre DEF SweepRename
    <3> QED
      BY <1>2, <3>1, <3>2
  <2>3. sweep' \in [Servers -> {"none", "read", "rename"}]
    BY <1>2 DEF Sweep, SweepRename, LogType
  <2>4. Snapshots'
    BY <1>2 DEF Sweep, SweepRename, Snapshots, Unwritten
  <2> QED
    BY <2>1, <2>2, <2>3, <2>4 DEF LogType, FilesTyped
<1>3. CASE Die(s)
  <2>1. RunType' /\ Snapshots'
    BY <1>3, Dying
  <2>2. ClockType' /\ FileType'
    BY <1>3 DEF Die, ClockType, FileType
  <2>3. LogType'
    <3>1. damaged' \in BOOLEAN
      BY <1>3 DEF Die, LogType
    <3>2. draft' \in [Writers -> SUBSET Runs]
      BY <1>3 DEF Die, LogType
    <3>3. tmp' \subseteq Writers /\ log' \subseteq Runs
      BY <1>3 DEF Die, LogType
    <3>4. stem' \in [Writers -> Writers \union {Nothing}]
      BY <1>3 DEF Die, LogType
    <3>5. sweep' \in [Servers -> {"none", "read", "rename"}]
      BY <1>3 DEF Die, LogType
    <3> QED
      BY <3>1, <3>2, <3>3, <3>4, <3>5 DEF LogType
  <2>4. MemoryType'
    BY <1>3 DEF Die, MemoryType
  <2> QED
    BY <2>1, <2>2, <2>3, <2>4
<1>4. CASE TickList(s)
  <2>1. ClockType' /\ MemoryType' /\ RunType' /\ LogType'
    BY <1>4 DEF TickList, ClockType, MemoryType, RunType, LogType
  <2>2. FileType'
    BY <1>4 DEF TickList, FileType
  <2>3. Snapshots'
    BY <1>4 DEF TickList, Snapshots, Unwritten
  <2> QED
    BY <2>1, <2>2, <2>3
<1>5. CASE Tick(s)
  <2>1. Due(s) \in SUBSET Tasks
    BY DEF Due
  <2>2. RunType' /\ Snapshots' /\ Begins(s, Due(s), FALSE)
    BY <1>5, <2>1, Executing DEF Tick
  <2>3. ClockType'
    BY <1>5, <2>2 DEF Tick, ClockType, Begins
  <2>4. LogType' /\ FileType'
    BY <1>5 DEF Tick, LogType, FileType
  <2>5. MemoryType'
    BY <1>5 DEF Tick, MemoryType, ClockType
  <2> QED
    BY <2>2, <2>3, <2>4, <2>5
<1>6. ASSUME NEW t \in Tasks, RunNow(s, t) PROVE Typed'
  <2>1. RunType' /\ Snapshots' /\ Begins(s, {t}, TRUE)
    BY <1>6, Executing DEF RunNow
  <2>2. ClockType'
    BY <1>6, <2>1 DEF RunNow, ClockType, Begins
  <2>3. LogType' /\ FileType' /\ MemoryType'
    BY <1>6 DEF RunNow, LogType, FileType, MemoryType
  <2> QED
    BY <2>1, <2>2, <2>3
<1> QED
  BY <1>1, <1>2, <1>3, <1>4, <1>5, <1>6 DEF ServerStep

LEMMA EntryTyped ==
  ASSUME MemoryType, NEW s \in Servers, NEW t \in Tasks, NEW v \in Runs \union {Nothing},
         running' = [running EXCEPT ![s][t] = v], key' = key
  PROVE  MemoryType'
<1>1. [running EXCEPT ![s][t] = v] \in [Servers -> [Tasks -> Runs \union {Nothing}]]
  BY DEF MemoryType
<1> QED
  BY <1>1 DEF MemoryType

LEMMA RunsTyped ==
  ASSUME Typed, NEW r \in Runs, RunStep(r)
  PROVE  Typed'
<1> USE DEF Typed, files, logFiles, memory
<1>1. RunType' /\ Snapshots'
  BY RunsProgress DEF Progress, Advances
<1>2. run[r].server \in Servers /\ run[r].task \in Tasks
  BY DEF RunType, RunRecord
<1>3. CASE \/ StampRead(r) \/ AppendUnread(r) \/ StartFails(r) \/ Timeout(r)
           \/ DisableRead(r)
  BY <1>1, <1>3
     DEF StampRead, AppendUnread, StartFails, Timeout, DisableRead, ClockType, FileType,
         LogType, MemoryType
<1>4. CASE StampWrite(r) \/ DisableWrite(r)
  <2>1. ClockType' /\ LogType' /\ MemoryType'
    BY <1>4 DEF StampWrite, DisableWrite, ClockType, LogType, MemoryType
  <2>2. FileType'
    BY <1>4, Writings DEF StampWrite, DisableWrite, FileType
  <2> QED
    BY <1>1, <2>1, <2>2
<1>5. CASE \/ Append(r) \/ AppendRename(r) \/ Update(r) \/ UpdateRename(r)
  <2>1. ClockType' /\ FileType' /\ MemoryType'
    BY <1>5 DEF Append, AppendRename, Update, UpdateRename, ClockType, FileType, MemoryType
  <2>2. FilesTyped
    <3>1. /\ r \in Writers
          /\ log \union {r} \in SUBSET Runs /\ log \ {r} \in SUBSET Runs
      BY WritersAre DEF LogType
    <3>2. CASE Append(r) \/ Update(r)
      BY <3>1, <3>2, WrittenTyped DEF Append, Update
    <3>3. CASE AppendRename(r) \/ UpdateRename(r)
      BY <3>1, <3>3, RenameTyped DEF AppendRename, UpdateRename
    <3> QED
      BY <1>5, <3>2, <3>3
  <2>3. LogType'
    BY <1>5, <2>2 DEF Append, AppendRename, Update, UpdateRename, LogType, FilesTyped
  <2> QED
    BY <1>1, <2>1, <2>3
<1>6. CASE Spawn(r) \/ ChildExits(r) \/ ChildKilled(r)
  <2>1. ClockType' /\ FileType' /\ LogType'
    BY <1>6 DEF Spawn, ChildExits, ChildKilled, Ended, ClockType, FileType, LogType
  <2>2. MemoryType'
    BY <1>2, <1>6, EntryTyped DEF Spawn, Entered, ChildExits, ChildKilled, Ended
  <2> QED
    BY <1>1, <2>1, <2>2
<1>7. CASE UpdateFails(r)
  <2>1. ClockType' /\ FileType'
    BY <1>7 DEF UpdateFails, ClockType, FileType
  <2>2. LogType'
    <3>1. RenameFails(r) \/ UNCHANGED logFiles
      BY <1>7 DEF UpdateFails
    <3>2. FilesTyped
      BY <3>1, RenameTyped, WritersAre DEF LogType, FilesTyped
    <3> QED
      BY <1>7, <3>2 DEF UpdateFails, LogType, FilesTyped
  <2>3. MemoryType'
    <3>1. CASE run[r].tries = 1
      BY <1>2, <1>7, <3>1, EntryTyped DEF UpdateFails, Retry
    <3>2. CASE run[r].tries # 1
      BY <1>7, <3>2 DEF UpdateFails, Retry, MemoryType
    <3> QED
      BY <3>1, <3>2
  <2> QED
    BY <1>1, <2>1, <2>2, <2>3
<1> QED
  BY <1>3, <1>4, <1>5, <1>6, <1>7 DEF RunStep

LEMMA NextTyped == Typed /\ [Next]_vars => Typed'
<1> SUFFICES ASSUME Typed, [Next]_vars PROVE Typed'
  OBVIOUS
<1>1. CASE NextMinute
  <2>1. ClockType'
    BY <1>1, BoundsAssumption DEF NextMinute, Typed, ClockType, Minutes
  <2>2. FileType' /\ LogType' /\ MemoryType' /\ RunType'
    BY <1>1 DEF NextMinute, Typed, FileType, LogType, MemoryType, RunType, files, logFiles,
                    memory
  <2>3. Snapshots'
    BY <1>1 DEF NextMinute, Typed, Snapshots, Unwritten
  <2> QED
    BY <2>1, <2>2, <2>3 DEF Typed
<1>2. CASE \E s \in Servers : ServerStep(s)
  BY <1>2, ServersTyped
<1>3. CASE \E r \in Runs : RunStep(r)
  BY <1>3, RunsTyped
<1>4. CASE UNCHANGED vars
  <2>1. FileType' /\ LogType' /\ MemoryType' /\ RunType' /\ ClockType'
    BY <1>4
       DEF Typed, ClockType, FileType, LogType, MemoryType, RunType, vars, files, logFiles,
           memory
  <2>2. Snapshots'
    BY <1>4 DEF Typed, Snapshots, Unwritten, vars
  <2> QED
    BY <2>1, <2>2 DEF Typed
<1> QED
  BY <1>1, <1>2, <1>3, <1>4 DEF Next

\* Every variable keeps its type: in particular the file of tasks, whoever
\* puts back what he has read of it (cronService.ts:86-126).
THEOREM TypeCorrect == Spec => []TypeOK
<1>1. Spec => []Typed
  BY InitTyped, NextTyped, PTL DEF Spec
<1> QED
  BY <1>1, TypedIsTypeOK, PTL

-----------------------------------------------------------------------------
(* Once a minute *)

\* No run has a number that was not given out.
Fresh == \A r \in Runs : r > calls => run[r].pc = "none"

KeysArePast == \A s \in Servers, t \in Tasks : key[s][t] =< minute

\* The key of a task is of no earlier minute than any run that a tick began.
Fired ==
  \A r \in Runs :
    run[r].pc \notin Idle /\ ~run[r].manual
      => run[r].minute =< key[run[r].server][run[r].task]

OnceInv == Fresh /\ KeysArePast /\ Fired /\ OncePerMinute

LEMMA InitOnce == Init => OnceInv
<1> SUFFICES ASSUME Init PROVE OnceInv
  OBVIOUS
<1>1. \A r \in Runs : run[r].pc = "none"
  BY DEF Init, NoRun, Call
<1>2. KeysArePast
  BY DEF Init, KeysArePast, Never
<1> QED
  BY <1>1, <1>2 DEF OnceInv, Fresh, Fired, OncePerMinute, Idle

\* No run changes, and no key.
LEMMA OnceStays ==
  ASSUME OnceInv, Typed, minute' \in Minutes, minute =< minute', UNCHANGED <<run, key, calls>>
  PROVE  OnceInv'
<1>1. KeysArePast'
  <2> SUFFICES ASSUME NEW s \in Servers, NEW t \in Tasks PROVE key[s][t] =< minute'
    BY DEF KeysArePast
  <2>1. key[s][t] \in Int /\ minute \in Int /\ minute' \in Int /\ key[s][t] =< minute
    BY BoundsAssumption
       DEF Typed, MemoryType, ClockType, Minutes, Never, OnceInv, KeysArePast
  <2> QED
    BY <2>1
<1> QED
  BY <1>1 DEF OnceInv, Fresh, Fired, OncePerMinute

\* A run goes on: it keeps what Fired speaks of.
LEMMA OnceProgress ==
  ASSUME OnceInv, Typed, NEW r \in Runs, Progress(r), UNCHANGED <<minute, key, calls>>
  PROVE  OnceInv'
<1>1. PICK p \in Pcs \ Idle, q \in Pcs \ Idle : Moves(r, p, q)
  BY DEF Progress, Advances
<1>2. \A u \in Runs : /\ run'[u].pc \notin Idle <=> run[u].pc \notin Idle
                      /\ run'[u].server = run[u].server /\ run'[u].task = run[u].task
                      /\ run'[u].minute = run[u].minute
  BY <1>1 DEF Moves
<1>3. \A u \in Runs : run'[u].manual = run[u].manual
  BY <1>1 DEF Moves
<1>4. Fresh'
  <2>1. r =< calls
    BY <1>1, BoundsAssumption DEF Moves, OnceInv, Fresh, Idle, Runs, Typed, ClockType
  <2> QED
    BY <1>1, <2>1, BoundsAssumption DEF Moves, OnceInv, Fresh, Runs, Typed, ClockType
<1>5. KeysArePast'
  BY DEF OnceInv, KeysArePast
<1>6. Fired'
  BY <1>2, <1>3 DEF OnceInv, Fired
<1>7. OncePerMinute'
  BY <1>2, <1>3 DEF OnceInv, OncePerMinute, Idle
<1> QED
  BY <1>4, <1>5, <1>6, <1>7 DEF OnceInv

\* The keys of a server that dies are forgotten, and so are its runs.
LEMMA OnceDies ==
  ASSUME OnceInv, Typed, NEW s \in Servers, Die(s)
  PROVE  OnceInv'
<1>1. \A r \in Runs : \/ run'[r] = run[r] /\ (run[r].server # s \/ run[r].pc = "none")
                      \/ run[r].server = s /\ run'[r].pc = "gone" /\ r =< calls
  <2> SUFFICES ASSUME NEW r \in Runs
               PROVE  \/ run'[r] = run[r] /\ (run[r].server # s \/ run[r].pc = "none")
                      \/ run[r].server = s /\ run'[r].pc = "gone" /\ r =< calls
    OBVIOUS
  <2>1. CASE r \in Called /\ run[r].server = s
    <3>1. run'[r] = Gone(r)
      BY <2>1 DEF Die
    <3> QED
      BY <2>1, <3>1 DEF Gone, Call, Called
  <2>2. CASE ~(r \in Called /\ run[r].server = s)
    <3>1. run'[r] = run[r]
      BY <2>2 DEF Die
    <3>2. r \notin Called => run[r].pc = "none"
      BY BoundsAssumption DEF OnceInv, Fresh, Called, Runs, Typed, ClockType
    <3> QED
      BY <2>2, <3>1, <3>2
  <2> QED
    BY <2>1, <2>2
<1>2. calls' = calls /\ minute' = minute /\ calls \in Nat /\ minute \in Nat
  BY BoundsAssumption DEF Die, Typed, ClockType, Minutes
<1>3. Fresh'
  BY <1>1, <1>2 DEF OnceInv, Fresh, Runs
<1>4. \A u \in Servers, t \in Tasks :
        key'[u][t] = IF u = s THEN Never ELSE key[u][t]
  BY DEF Die, Typed, MemoryType
<1>5. KeysArePast'
  BY <1>2, <1>4 DEF OnceInv, KeysArePast, Never
<1>6. \A r \in Runs : run'[r].pc \notin Idle => run'[r] = run[r] /\ run[r].server # s
  BY <1>1 DEF Idle
<1>7. Fired'
  <2> SUFFICES ASSUME NEW r \in Runs, run'[r].pc \notin Idle, ~run'[r].manual
               PROVE  run'[r].minute =< key'[run'[r].server][run'[r].task]
    BY DEF Fired
  <2>1. run'[r] = run[r] /\ run[r].server # s
    BY <1>6
  <2>2. run[r].server \in Servers /\ run[r].task \in Tasks
    BY DEF Typed, RunType, RunRecord
  <2>3. run[r].minute =< key[run[r].server][run[r].task]
    BY <2>1 DEF OnceInv, Fired
  <2> QED
    BY <1>4, <2>1, <2>2, <2>3
<1>8. OncePerMinute'
  BY <1>6 DEF OnceInv, OncePerMinute, Idle
<1> QED
  BY <1>3, <1>5, <1>7, <1>8 DEF OnceInv

\* New runs: those of a tick are of tasks whose key was of an earlier minute
\* and is of this one now.
LEMMA OnceBegins ==
  ASSUME OnceInv, Typed, NEW s \in Servers, NEW S \in SUBSET Tasks, NEW m \in BOOLEAN,
         Begins(s, S, m), minute' = minute,
         key' = [key EXCEPT ![s] = [t \in Tasks |-> IF ~m /\ t \in S THEN minute ELSE key[s][t]]],
         \A t \in S : m \/ key[s][t] # minute
  PROVE  OnceInv'
<1>1. calls \in Nat /\ calls' \in Nat /\ calls' >= calls /\ minute \in Nat
  BY BoundsAssumption DEF Begins, Typed, ClockType, Minutes
<1>2. \A u \in Servers, t \in Tasks : key[u][t] \in Int /\ key[u][t] =< minute
  BY BoundsAssumption DEF Typed, MemoryType, Minutes, Never, OnceInv, KeysArePast
<1>3. \A u \in Servers, t \in Tasks :
        key'[u][t] = IF u = s /\ ~m /\ t \in S THEN minute ELSE key[u][t]
  BY DEF Typed, MemoryType
<1>4. \A u \in Servers, t \in Tasks : key[u][t] =< key'[u][t] /\ key'[u][t] =< minute
  BY <1>1, <1>2, <1>3
<1>5. Fresh'
  BY <1>1 DEF Begins, Begun, OnceInv, Fresh, Runs
<1>6. KeysArePast'
  BY <1>4 DEF KeysArePast
<1>7. \A r \in Runs : /\ run[r].server \in Servers /\ run[r].task \in Tasks
                      /\ run[r].minute \in Int
  BY BoundsAssumption DEF Typed, RunType, RunRecord, Minutes
<1>8. Fired'
  <2> SUFFICES ASSUME NEW r \in Runs, run'[r].pc \notin Idle, ~run'[r].manual
               PROVE  run'[r].minute =< key'[run'[r].server][run'[r].task]
    BY DEF Fired
  <2>1. CASE run'[r] = run[r]
    <3>1. run[r].minute =< key[run[r].server][run[r].task]
      BY <2>1 DEF OnceInv, Fired
    <3>2. key[run[r].server][run[r].task] =< key'[run[r].server][run[r].task]
      BY <1>4, <1>7
    <3>3. key[run[r].server][run[r].task] \in Int /\ key'[run[r].server][run[r].task] \in Int
      BY <1>1, <1>2, <1>3, <1>7
    <3> QED
      BY <1>7, <2>1, <3>1, <3>2, <3>3
  <2>2. ASSUME NEW t \in S, Begun(r, s, t, m)
        PROVE  run'[r].minute =< key'[run'[r].server][run'[r].task]
    <3>1. run'[r].minute = minute /\ run'[r].server = s /\ run'[r].task = t /\ ~m
      BY <2>2 DEF Begun
    <3> QED
      BY <1>1, <1>3, <3>1
  <2> QED
    BY <2>1, <2>2 DEF Begins
<1>9. ASSUME NEW r \in Runs, NEW q \in Runs, NEW t \in S,
             q = Rank(S, t), Begun(q, s, t, m), ~m, r # q,
             run'[r].pc \notin Idle, ~run'[r].manual,
             run'[r].server = s, run'[r].task = t
      PROVE  run'[r].minute # minute
  <2>1. run'[r] = run[r]
    BY <1>9 DEF Begins, Begun
  <2>2. run[r].minute =< key[s][t]
    BY <1>9, <2>1 DEF OnceInv, Fired
  <2>3. key[s][t] < minute
    BY <1>1, <1>2, <1>9
  <2> QED
    BY <1>1, <1>2, <1>7, <2>1, <2>2, <2>3
<1>10. OncePerMinute'
  <2> SUFFICES ASSUME NEW r \in Runs, NEW q \in Runs, r # q,
                      run'[r].pc \notin Idle, run'[q].pc \notin Idle,
                      ~run'[r].manual, ~run'[q].manual,
                      run'[r].server = run'[q].server, run'[r].task = run'[q].task
               PROVE  run'[r].minute # run'[q].minute
    BY DEF OncePerMinute, Idle
  <2>1. ASSUME NEW t \in S, q = Rank(S, t), Begun(q, s, t, m)
        PROVE  run'[r].minute # run'[q].minute
    BY <1>9, <2>1 DEF Begun
  <2>2. ASSUME NEW t \in S, r = Rank(S, t), Begun(r, s, t, m)
        PROVE  run'[r].minute # run'[q].minute
    BY <1>9, <2>2 DEF Begun
  <2>3. CASE run'[r] = run[r] /\ run'[q] = run[q]
    BY <2>3 DEF OnceInv, OncePerMinute, Idle
  <2> QED
    BY <2>1, <2>2, <2>3 DEF Begins
<1> QED
  BY <1>5, <1>6, <1>8, <1>10 DEF OnceInv

LEMMA NextOnce == OnceInv /\ Typed /\ [Next]_vars => OnceInv'
<1> SUFFICES ASSUME OnceInv, Typed, [Next]_vars PROVE OnceInv'
  OBVIOUS
<1> USE DEF files, logFiles, memory
<1>1. minute \in Minutes /\ minute \in Nat
  BY BoundsAssumption DEF Typed, ClockType, Minutes
<1>2. CASE NextMinute
  <2>1. minute' \in Minutes /\ minute =< minute' /\ UNCHANGED <<run, key, calls>>
    BY <1>1, <1>2, BoundsAssumption DEF NextMinute, Minutes
  <2> QED
    BY <2>1, OnceStays
<1>3. ASSUME NEW s \in Servers, Start(s) \/ Sweep(s) \/ SweepRename(s) \/ TickList(s)
      PROVE  OnceInv'
  <2>1. UNCHANGED <<minute, run, key, calls>>
    BY <1>3 DEF Start, Sweep, SweepRename, TickList
  <2> QED
    BY <1>1, <2>1, OnceStays
<1>4. ASSUME NEW s \in Servers, Die(s) PROVE OnceInv'
  BY <1>4, OnceDies
<1>5. ASSUME NEW s \in Servers, Tick(s) PROVE OnceInv'
  <2>1. Due(s) \in SUBSET Tasks /\ \A t \in Due(s) : key[s][t] # minute
    BY DEF Due
  <2>2. Begins(s, Due(s), FALSE)
    BY <1>5, <2>1, Executing DEF Tick, Typed
  <2>3. minute' = minute
    BY <1>5 DEF Tick
  <2>4. key' = [key EXCEPT ![s] = [t \in Tasks |->
                  IF ~FALSE /\ t \in Due(s) THEN minute ELSE key[s][t]]]
    BY <1>5 DEF Tick
  <2> QED
    BY <2>1, <2>2, <2>3, <2>4, OnceBegins
<1>6. ASSUME NEW s \in Servers, NEW t \in Tasks, RunNow(s, t) PROVE OnceInv'
  <2>1. Begins(s, {t}, TRUE)
    BY <1>6, Executing DEF RunNow, Typed
  <2>2. minute' = minute /\ key' = key
    BY <1>6 DEF RunNow
  <2>3. key = [key EXCEPT ![s] = [u \in Tasks |->
                 IF ~TRUE /\ u \in {t} THEN minute ELSE key[s][u]]]
    BY DEF Typed, MemoryType
  <2> QED
    BY <2>1, <2>2, <2>3, OnceBegins
<1>7. ASSUME NEW r \in Runs, RunStep(r) PROVE OnceInv'
  <2>1. Progress(r)
    BY <1>7, RunsProgress DEF Typed
  <2>2. UNCHANGED <<minute, key, calls>>
    BY <1>7 DEF RunStep, StampRead, StampWrite, AppendUnread, Append, AppendRename, Spawn,
                StartFails, Timeout, ChildExits, ChildKilled, Ended, Update, UpdateRename,
                UpdateFails, DisableRead, DisableWrite
  <2> QED
    BY <2>1, <2>2, OnceProgress
<1>8. CASE UNCHANGED vars
  BY <1>1, <1>8, OnceStays DEF vars
<1> QED
  BY <1>2, <1>3, <1>4, <1>5, <1>6, <1>7, <1>8 DEF Next, ServerStep

\* However ticks, runs and requests interleave, and whatever is lost from the
\* file of tasks, the ticks in one life of a server fire a task once in a
\* minute (tick(), cronScheduler.ts:386-410).
THEOREM OnceAMinute == Spec => []OncePerMinute
<1>1. Init => OnceInv /\ Typed
  BY InitOnce, InitTyped
<1>2. OnceInv /\ Typed /\ [Next]_vars => (OnceInv /\ Typed)'
  BY NextOnce, NextTyped
<1>3. OnceInv => OncePerMinute
  BY DEF OnceInv
<1> QED
  BY <1>1, <1>2, <1>3, PTL DEF Spec

-----------------------------------------------------------------------------
(* One process *)

Tangled(r) == r \in tangled

\* Two runs of a task that are on their way to a process, or have one.
Overlap ==
  \A r, q \in Runs :
    /\ r # q /\ run[r].pc \in Active /\ run[q].pc \in Active
    /\ run[r].server = run[q].server /\ run[r].task = run[q].task
    => Tangled(r)

\* A process is entered among those that run, unless it is tangled.
Entries ==
  \A r \in Runs :
    run[r].pc = "child" => running[run[r].server][run[r].task] = r \/ Tangled(r)

AloneInv == Overlap /\ Entries

LEMMA ActiveIsNotIdle == Active \intersect Idle = {} /\ "child" \in Active
  BY DEF Active, Preparing, Idle

LEMMA InitAlone == Init => AloneInv
<1> SUFFICES ASSUME Init PROVE AloneInv
  OBVIOUS
<1>1. \A r \in Runs : run[r].pc = "none"
  BY DEF Init, NoRun, Call
<1> QED
  BY <1>1, ActiveIsNotIdle DEF AloneInv, Overlap, Entries, Idle

\* No run becomes active.
LEMMA OverlapStays ==
  ASSUME Overlap, tangled \subseteq tangled',
         \A r \in Runs : run'[r].pc \in Active =>
           /\ run[r].pc \in Active
           /\ run'[r].server = run[r].server /\ run'[r].task = run[r].task
  PROVE  Overlap'
  BY DEF Overlap, Tangled

LEMMA AloneStays ==
  ASSUME AloneInv, UNCHANGED <<run, running, tangled>>
  PROVE  AloneInv'
  BY DEF AloneInv, Overlap, Entries, Tangled

LEMMA AloneProgress ==
  ASSUME AloneInv, Typed, NEW r \in Runs, RunStep(r)
  PROVE  AloneInv'
<1> USE DEF files, logFiles, memory
<1>1. PICK p \in Pcs \ Idle, q \in Pcs \ Idle :
        /\ Moves(r, p, q)
        /\ q \in Active => p \in Active
        /\ q = "child" => p \in {"start", "child"}
  BY RunsProgress DEF Progress, Advances, Typed
<1>2. run[r].server \in Servers /\ run[r].task \in Tasks
  BY DEF Typed, RunType, RunRecord
<1>3. tangled \subseteq tangled'
  BY DEF RunStep, StampRead, StampWrite, AppendUnread, Append, AppendRename, Spawn,
         StartFails, Timeout, ChildExits, ChildKilled, Ended, Update, UpdateRename,
         UpdateFails, Retry, DisableRead, DisableWrite
<1>4. \A u \in Runs : run'[u].server = run[u].server /\ run'[u].task = run[u].task
  BY <1>1 DEF Moves
<1>5. Overlap'
  <2>1. \A u \in Runs : run'[u].pc \in Active => run[u].pc \in Active
    BY <1>1 DEF Moves
  <2> QED
    BY <1>3, <1>4, <2>1, OverlapStays DEF AloneInv
<1>6. \A u \in Runs : Tangled(u) => Tangled(u)'
  BY <1>3, <1>4 DEF Tangled
<1>7. Entries'
  <2>1. CASE Spawn(r)
    <3> SUFFICES ASSUME NEW u \in Runs, run'[u].pc = "child"
                 PROVE  running'[run[u].server][run[u].task] = u \/ Tangled(u)'
      BY <1>4 DEF Entries
    <3>1. running' = [running EXCEPT ![run[r].server][run[r].task] = r]
          /\ run[r].pc = "start"
      BY <2>1 DEF Spawn, Entered
    <3>2. CASE u = r
      BY <1>2, <3>1, <3>2 DEF Typed, MemoryType
    <3>3. CASE u # r /\ run[u].server = run[r].server /\ run[u].task = run[r].task
      <4>1. run[u].pc = "child"
        BY <1>1, <3>3 DEF Moves
      <4>2. run[r].pc \in Active /\ run[u].pc \in Active
        BY <3>1, <4>1 DEF Active, Preparing
      <4>3. Tangled(u)
        BY <3>3, <4>2 DEF AloneInv, Overlap
      <4> QED
        BY <1>6, <4>3
    <3>4. CASE u # r /\ ~(run[u].server = run[r].server /\ run[u].task = run[r].task)
      <4>1. run[u].pc = "child" /\ run[u].server \in Servers /\ run[u].task \in Tasks
        BY <1>1, <3>4 DEF Moves, Typed, RunType, RunRecord
      <4>2. running'[run[u].server][run[u].task] = running[run[u].server][run[u].task]
        BY <1>2, <3>1, <3>4, <4>1 DEF Typed, MemoryType
      <4> QED
        BY <1>6, <4>1, <4>2 DEF AloneInv, Entries
    <3> QED
      BY <3>2, <3>3, <3>4
  <2>2. CASE Ended(r)
    <3> SUFFICES ASSUME NEW u \in Runs, run'[u].pc = "child"
                 PROVE  running'[run[u].server][run[u].task] = u \/ Tangled(u)'
      BY <1>4 DEF Entries
    <3>1. running' = [running EXCEPT ![run[r].server][run[r].task] = Nothing]
          /\ run[r].pc = "child" /\ run'[r].pc = "update"
      BY <2>2, Processes DEF Ended, Advances, Moves, Typed
    <3>2. u # r /\ run[u].pc = "child"
      BY <1>1, <3>1 DEF Moves
    <3>3. CASE run[u].server = run[r].server /\ run[u].task = run[r].task
      <4>1. Tangled(u)
        BY <3>1, <3>2, <3>3, ActiveIsNotIdle DEF AloneInv, Overlap
      <4> QED
        BY <1>6, <4>1
    <3>4. CASE ~(run[u].server = run[r].server /\ run[u].task = run[r].task)
      <4>1. run[u].server \in Servers /\ run[u].task \in Tasks
        BY DEF Typed, RunType, RunRecord
      <4>2. running'[run[u].server][run[u].task] = running[run[u].server][run[u].task]
        BY <1>2, <3>1, <3>4, <4>1 DEF Typed, MemoryType
      <4> QED
        BY <1>6, <3>2, <4>2 DEF AloneInv, Entries
    <3> QED
      BY <3>3, <3>4
  <2>3. CASE UpdateFails(r) /\ run[r].tries = 1
    <3> SUFFICES ASSUME NEW u \in Runs, run'[u].pc = "child"
                 PROVE  running'[run[u].server][run[u].task] = u \/ Tangled(u)'
      BY <1>4 DEF Entries
    <3>1. running' = [running EXCEPT ![run[r].server][run[r].task] = Nothing]
          /\ run[r].pc # "child" /\ run'[r].pc # "child"
      BY <2>3 DEF UpdateFails, Retry, Typed, RunType, RunRecord
    <3>2. u # r /\ run[u].pc = "child"
      BY <1>1, <3>1 DEF Moves
    <3>3. CASE run[u].server = run[r].server /\ run[u].task = run[r].task
      <4>1. CASE running[run[u].server][run[u].task] = u
        <5>1. u # Nothing
          BY DEF Nothing, Runs
        <5>2. u \in tangled'
          BY <2>3, <3>3, <4>1, <5>1 DEF UpdateFails, Retry
        <5> QED
          BY <5>2 DEF Tangled
      <4>2. CASE Tangled(u)
        BY <1>6, <4>2
      <4> QED
        BY <3>2, <4>1, <4>2 DEF AloneInv, Entries
    <3>4. CASE ~(run[u].server = run[r].server /\ run[u].task = run[r].task)
      <4>1. run[u].server \in Servers /\ run[u].task \in Tasks
        BY DEF Typed, RunType, RunRecord
      <4>2. running'[run[u].server][run[u].task] = running[run[u].server][run[u].task]
        BY <1>2, <3>1, <3>4, <4>1 DEF Typed, MemoryType
      <4> QED
        BY <1>6, <3>2, <4>2 DEF AloneInv, Entries
    <3> QED
      BY <3>3, <3>4
  <2>4. CASE ~Spawn(r) /\ ~Ended(r) /\ ~(UpdateFails(r) /\ run[r].tries = 1)
    <3>1. running' = running
      BY <2>4 DEF RunStep, StampRead, StampWrite, AppendUnread, Append, AppendRename,
                  StartFails, Timeout, ChildExits, ChildKilled, Update, UpdateRename,
                  UpdateFails, Retry, DisableRead, DisableWrite
    <3>2. run[r].pc = "start" => run'[r].pc # "child"
      BY <2>4 DEF RunStep, StampRead, StampWrite, AppendUnread, Append, AppendRename,
                  StartFails, Timeout, ChildExits, ChildKilled, Update, UpdateRename,
                  UpdateFails, Retry, DisableRead, DisableWrite, Go, Typed, RunType, RunRecord
    <3>3. \A u \in Runs : run'[u].pc = "child" => run[u].pc = "child"
      BY <1>1, <3>2 DEF Moves
    <3> QED
      BY <1>4, <1>6, <3>1, <3>3 DEF AloneInv, Entries
  <2> QED
    BY <2>1, <2>2, <2>3, <2>4
<1> QED
  BY <1>5, <1>7 DEF AloneInv

\* Executing() for one task or for those of a tick: where a task is not entered
\* and no call for it is on its way, its new run is alone.
LEMMA AloneBegins ==
  ASSUME AloneInv, Fresh, Typed, NEW s \in Servers, NEW S \in SUBSET Tasks,
         NEW m \in BOOLEAN, Execute(s, S, m), running' = running,
         \A t \in S : running[s][t] = Nothing
  PROVE  AloneInv'
<1>1. Begins(s, S, m)
  BY Executing DEF Typed
<1>2. tangled \subseteq tangled'
  BY DEF Execute
<1>3. ASSUME NEW r \in Runs, NEW t \in S, run[r].pc \in Active, Of(r, s, t)
      PROVE  r \in tangled' /\ Rank(S, t) \in tangled'
  <2>1. r \in Called
    BY <1>3, ActiveIsNotIdle, BoundsAssumption
       DEF Fresh, Idle, Called, Runs, Typed, ClockType
  <2>2. r \in Beside(s, t)
    <3>1. CASE run[r].pc = "child"
      <4>1. running[s][t] # r
        BY DEF Nothing, Runs
      <4>2. r \in tangled
        BY <1>3, <3>1, <4>1 DEF AloneInv, Entries, Tangled, Of
      <4> QED
        BY <1>3, <2>1, <3>1, <4>2 DEF Beside
    <3>2. CASE run[r].pc \in Preparing
      BY <1>3, <2>1, <3>2 DEF Beside
    <3> QED
      BY <1>3, <3>1, <3>2 DEF Active
  <2>3. r \in UNION {Beside(s, u) : u \in S}
    BY <2>2
  <2>4. Rank(S, t) \in {Rank(S, u) : u \in {v \in S : Beside(s, v) # {}}}
    BY <2>2
  <2> QED
    BY <2>3, <2>4 DEF Execute
<1>4. ASSUME NEW r \in Runs, NEW q \in Runs, NEW t \in S,
             q = Rank(S, t), Begun(q, s, t, m), r # q,
             run'[r].pc \in Active, run'[r].server = s, run'[r].task = t
      PROVE  r \in tangled' /\ q \in tangled'
  <2>1. run'[r] = run[r]
    BY <1>1, <1>4 DEF Begins, Begun
  <2> QED
    BY <1>3, <1>4, <2>1 DEF Of
<1>5. Overlap'
  <2> SUFFICES ASSUME NEW r \in Runs, NEW q \in Runs, r # q,
                      run'[r].pc \in Active, run'[q].pc \in Active,
                      run'[r].server = run'[q].server, run'[r].task = run'[q].task
               PROVE  r \in tangled'
    BY DEF Overlap, Tangled
  <2>1. ASSUME NEW t \in S, q = Rank(S, t), Begun(q, s, t, m)
        PROVE  r \in tangled'
    BY <1>4, <2>1 DEF Begun
  <2>2. ASSUME NEW t \in S, r = Rank(S, t), Begun(r, s, t, m)
        PROVE  r \in tangled'
    BY <1>4, <2>2 DEF Begun
  <2>3. CASE run'[r] = run[r] /\ run'[q] = run[q]
    BY <1>2, <2>3 DEF AloneInv, Overlap, Tangled
  <2> QED
    BY <1>1, <2>1, <2>2, <2>3 DEF Begins
<1>6. Entries'
  <2> SUFFICES ASSUME NEW r \in Runs, run'[r].pc = "child"
               PROVE  running[run'[r].server][run'[r].task] = r \/ r \in tangled'
    BY DEF Entries, Tangled
  <2>1. run'[r] = run[r]
    BY <1>1 DEF Begins, Begun
  <2> QED
    BY <1>2, <2>1 DEF AloneInv, Entries, Tangled
<1> QED
  BY <1>5, <1>6 DEF AloneInv

LEMMA NextAlone == AloneInv /\ Fresh /\ Typed /\ [Next]_vars => AloneInv'
<1> SUFFICES ASSUME AloneInv, Fresh, Typed, [Next]_vars PROVE AloneInv'
  OBVIOUS
<1> USE DEF files, logFiles, memory
<1>1. CASE NextMinute
  BY <1>1, AloneStays DEF NextMinute
<1>2. ASSUME NEW s \in Servers, Start(s) \/ Sweep(s) \/ SweepRename(s) \/ TickList(s)
      PROVE  AloneInv'
  BY <1>2, AloneStays DEF Start, Sweep, SweepRename, TickList
<1>3. ASSUME NEW s \in Servers, Die(s) PROVE AloneInv'
  <2>1. \A r \in Runs : \/ run'[r] = run[r] /\ ~(r \in Called /\ run[r].server = s)
                        \/ run[r].server = s /\ run'[r].pc = "gone"
    BY <1>3, Dying DEF Typed
  <2>2. \A r \in Runs : run'[r].pc \in Active => run'[r] = run[r] /\ run[r].server # s
    <3> SUFFICES ASSUME NEW r \in Runs, run'[r].pc \in Active
                 PROVE  run'[r] = run[r] /\ run[r].server # s
      OBVIOUS
    <3>1. run'[r] = run[r] /\ ~(r \in Called /\ run[r].server = s)
      BY <2>1, ActiveIsNotIdle DEF Idle
    <3>2. r \in Called
      BY <3>1, ActiveIsNotIdle, BoundsAssumption
         DEF Fresh, Idle, Called, Runs, Typed, ClockType
    <3> QED
      BY <3>1, <3>2
  <2>3. tangled' = tangled
    BY <1>3 DEF Die
  <2>4. Overlap'
    BY <2>2, <2>3, OverlapStays DEF AloneInv
  <2>5. \A u \in Servers : u # s => running'[u] = running[u]
    BY <1>3 DEF Die, Typed, MemoryType
  <2>6. \A r \in Runs : run[r].server \in Servers
    BY DEF Typed, RunType, RunRecord
  <2>7. Entries'
    BY <2>2, <2>3, <2>5, <2>6, ActiveIsNotIdle DEF AloneInv, Entries, Tangled
  <2> QED
    BY <2>4, <2>7 DEF AloneInv
<1>4. ASSUME NEW s \in Servers, Tick(s) PROVE AloneInv'
  <2>1. Due(s) \in SUBSET Tasks /\ \A t \in Due(s) : running[s][t] = Nothing
    BY DEF Due
  <2>2. Execute(s, Due(s), FALSE) /\ running' = running
    BY <1>4 DEF Tick
  <2> QED
    BY <2>1, <2>2, AloneBegins
<1>5. ASSUME NEW s \in Servers, NEW t \in Tasks, RunNow(s, t) PROVE AloneInv'
  <2>1. Execute(s, {t}, TRUE) /\ running' = running /\ running[s][t] = Nothing
    BY <1>5 DEF RunNow
  <2>2. {t} \in SUBSET Tasks /\ \A u \in {t} : running[s][u] = Nothing
    BY <2>1
  <2> QED
    BY <2>1, <2>2, AloneBegins
<1>6. ASSUME NEW r \in Runs, RunStep(r) PROVE AloneInv'
  BY <1>6, AloneProgress
<1>7. CASE UNCHANGED vars
  BY <1>7, AloneStays DEF vars
<1> QED
  BY <1>1, <1>2, <1>3, <1>4, <1>5, <1>6, <1>7 DEF Next, ServerStep

\* Two processes of a task live in one server only if both are tangled: begun
\* beside one another before the spawn, or robbed of their entry by an update
\* that failed; a call that finds only runs that are neither is held off by the
\* guard, however many came before (executeTask(), cronScheduler.ts:434, 527, 624).
THEOREM OneAtATime == Spec => []OneProcess
<1>1. Init => AloneInv /\ OnceInv /\ Typed
  BY InitAlone, InitOnce, InitTyped
<1>2. OnceInv => Fresh
  BY DEF OnceInv
<1>3. AloneInv /\ OnceInv /\ Typed /\ [Next]_vars => (AloneInv /\ OnceInv /\ Typed)'
  BY <1>2, NextAlone, NextOnce, NextTyped
<1>4. AloneInv => OneProcess
  BY ActiveIsNotIdle DEF AloneInv, Overlap, OneProcess, Tangled
<1> QED
  BY <1>1, <1>3, <1>4, PTL DEF Spec
=============================================================================
