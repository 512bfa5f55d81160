------------------------------- MODULE TaskList -------------------------------
(***************************************************************************)
(* The task list that the agents of a team share: src/utils/tasks.ts, a    *)
(* directory of one JSON file for each task, and the calls that the task   *)
(* tools, the in-process runner, the list watcher and the leader make.     *)
(*                                                                         *)
(* The ids are numbered from the highest file and the high water mark,     *)
(* under a lock of the list.  A change of a task reads the file and writes *)
(* it again with some fields replaced, under a lock of the task.  Deleting *)
(* takes no lock, and most of what a change is computed from was read      *)
(* before any lock was held.                                               *)
(*                                                                         *)
(* A write truncates the file first: readers without the lock may see a    *)
(* torn file, which they take for a missing one (and a torn mark for 0). A *)
(* caller is an agent with one call under way.  Its process may die in the *)
(* middle; its locks are broken when they are stale.                       *)
(*                                                                         *)
(* Left out: texts and metadata of a task, claims with checkAgentBusy      *)
(* (nobody makes them), and a lock that is broken while its holder lives.  *)
(* listTasks() and the reads of a check under the lock are one step.       *)
(***************************************************************************)
EXTENDS Integers, Sequences, SequencesExt

CONSTANTS
  Callers,      \* agents that use the list, by name
  Initial,      \* number of tasks at the start
  MaxCreates,   \* bound: ids beyond those of the start
  MaxCalls      \* bound: calls made

ASSUME InitialAssumption == Initial \in Nat /\ MaxCreates \in Nat /\ MaxCalls \in Nat

Ids == 1..(Initial + MaxCreates)

Nobody == "nobody"
List == 0   \* the list's lock, beside those of the tasks
Locks == {List} \union Ids

ASSUME CallersAssumption == Nobody \notin Callers

Statuses == {"pending", "in_progress", "completed"}
Task == [owner : Callers \union {Nobody}, status : Statuses,
         blocks : SUBSET Ids, blockedBy : SUBSET Ids]
Fields == {"owner", "status", "blocks", "blockedBy"}

VARIABLES
  form,      \* of each task's file: absent, torn (truncated), or whole
  task,      \* its content, once it is whole
  mark,      \* the high water mark; 0 is no mark, or a torn one
  lock,      \* holder of each lock
  pc,        \* where each call is
  work,      \* changes of tasks it still has to make; the first is under way
  existing,  \* the task it has read under the lock
  target,    \* the task it deletes; 0 before the first
  files,     \* highest id it saw among the files; -1 before it looked
  marked,    \* the mark it saw; -1 before it looked
  sweep,     \* files it still has to delete
  calls,     \* calls made
  issued,    \* history: ids given to tasks
  twice,     \* history: ids given more than once
  raced,     \* history: a deletion overlapped a call that numbers, and ids are
             \* still unprotected
  meant      \* history: the value last written to each field on purpose

files_ == <<form, task, mark>>
locals == <<existing, target, files, marked, sweep>>
history == <<issued, twice, raced, meant>>
vars == <<files_, lock, pc, work, locals, calls, history>>

Blank == [owner |-> Nobody, status |-> "pending", blocks |-> {}, blockedBy |-> {}]

Init ==
  /\ form = [t \in Ids |-> IF t <= Initial THEN "whole" ELSE "absent"]
  /\ task = [t \in Ids |-> Blank]
  /\ mark = 0
  /\ lock = [l \in Locks |-> Nobody]
  /\ pc = [c \in Callers |-> "idle"]
  /\ work = [c \in Callers |-> << >>]
  /\ existing = [c \in Callers |-> Blank]
  /\ target = [c \in Callers |-> 0]
  /\ files = [c \in Callers |-> -1]
  /\ marked = [c \in Callers |-> -1]
  /\ sweep = [c \in Callers |-> {}]
  /\ calls = 0
  /\ issued = 1..Initial
  /\ twice = {}
  /\ raced = FALSE
  /\ meant = task

Whole == {t \in Ids : form[t] = "whole"}
Present == {t \in Ids : form[t] # "absent"}
Highest(S) == IF S = {} THEN 0 ELSE CHOOSE t \in S : \A u \in S : u <= t
Larger(i, j) == IF i < j THEN j ELSE i

Go(c, where) == pc' = [pc EXCEPT ![c] = where]
Calling == calls < MaxCalls /\ calls' = calls + 1

\* Mutant of Acquire: the work is not awaited before the lock is released.
AcquireBriefly(c, l) == lock[l] = Nobody /\ UNCHANGED lock

Acquire(c, l) == lock[l] = Nobody /\ lock' = [lock EXCEPT ![l] = c]
Released(c) == [l \in Locks |-> IF lock[l] = c THEN Nobody ELSE lock[l]]

\* Between the read of the mark and the use of what was read.
Numbering ==
  {"number", "fill", "resetMark", "resetFill", "unlink", "deleteMark", "deleteFill"}
Numbers(c) == \E o \in Callers \ {c} : pc[o] \in Numbering

\* The trouble of an overlap is over when nobody numbers and no id ever given
\* is above the mark and all the files.
Settled ==
  /\ \A c \in Callers : pc[c] \notin Numbering
  /\ \A i \in issued : i <= mark \/ \E t \in Present : i <= t

Overlaps(c) == raced' = (raced \/ Numbers(c))
Settles == raced' = (raced /\ ~Settled')

-----------------------------------------------------------------------------
(* createTask() *)

Create(c) ==
  /\ pc[c] = "idle"
  /\ Calling
  /\ Go(c, "create")
  /\ UNCHANGED <<files_, lock, work, locals, history>>

CreateLock(c) ==
  /\ pc[c] = "create"
  /\ Acquire(c, List)
  /\ Go(c, "number")
  /\ files' = [files EXCEPT ![c] = -1]
  /\ marked' = [marked EXCEPT ![c] = -1]
  /\ Overlaps(c)
  /\ UNCHANGED <<files_, work, existing, target, sweep, calls, issued, twice, meant>>

\* findHighestTaskId() looks at both at once, and they answer in either order.
LookAtFiles(c) ==
  /\ pc[c] = "number"
  /\ files[c] = -1
  /\ files' = [files EXCEPT ![c] = Highest(Present)]
  /\ UNCHANGED <<files_, lock, pc, work, existing, target, marked, sweep, calls, history>>

LookAtMark(c) ==
  /\ pc[c] = "number"
  /\ marked[c] = -1
  /\ marked' = [marked EXCEPT ![c] = mark]
  /\ UNCHANGED <<files_, lock, pc, work, existing, target, files, sweep, calls, history>>

\* Mutant of NewId: the mark is not looked at.
NewIdOfFiles(c) == files[c] + 1

NewId(c) == Larger(files[c], marked[c]) + 1

CreateFile(c) ==
  /\ pc[c] = "number"
  /\ files[c] # -1 /\ marked[c] # -1
  /\ NewId(c) \in Ids   \* bound
  /\ form' = [form EXCEPT ![NewId(c)] = "torn"]
  /\ issued' = issued \union {NewId(c)}
  /\ twice' = twice \union ({NewId(c)} \intersect issued)
  /\ Go(c, "fill")
  /\ UNCHANGED <<task, mark, lock, work, locals, calls, raced, meant>>

FillFile(c) ==
  /\ pc[c] = "fill"
  /\ form' = [form EXCEPT ![NewId(c)] = "whole"]
  /\ task' = [task EXCEPT ![NewId(c)] = Blank]
  /\ meant' = [meant EXCEPT ![NewId(c)] = Blank]
  /\ lock' = Released(c)
  /\ Go(c, "idle")
  /\ UNCHANGED <<mark, work, locals, calls, issued, twice>>
  /\ Settles

-----------------------------------------------------------------------------
(* resetTaskList() *)

Reset(c) ==
  /\ pc[c] = "idle"
  /\ Calling
  /\ Go(c, "reset")
  /\ UNCHANGED <<files_, lock, work, locals, history>>

ResetLock(c) ==
  /\ pc[c] = "reset"
  /\ Acquire(c, List)
  /\ files' = [files EXCEPT ![c] = Highest(Present)]
  /\ Overlaps(c)
  /\ Go(c, "resetMark")
  /\ UNCHANGED <<files_, work, existing, target, marked, sweep, calls, issued, twice, meant>>

\* The mark is raised to the highest id, or is high enough.
ResetMark(c) ==
  /\ pc[c] = "resetMark"
  /\ IF files[c] > mark
     THEN mark' = 0 /\ Go(c, "resetFill") /\ UNCHANGED sweep
     ELSE UNCHANGED mark /\ Go(c, "unlink") /\ sweep' = [sweep EXCEPT ![c] = Present]
  /\ UNCHANGED <<form, task, lock, work, existing, target, files, marked, calls, history>>

\* Mutant of ResetFill: the mark is the id to give next.
ResetFillNext(c) ==
  /\ pc[c] = "resetFill"
  /\ mark' = files[c] + 1
  /\ sweep' = [sweep EXCEPT ![c] = Present]
  /\ Go(c, "unlink")
  /\ UNCHANGED <<form, task, lock, work, existing, target, files, marked, calls, history>>

ResetFill(c) ==
  /\ pc[c] = "resetFill"
  /\ mark' = files[c]
  /\ sweep' = [sweep EXCEPT ![c] = Present]
  /\ Go(c, "unlink")
  /\ UNCHANGED <<form, task, lock, work, existing, target, files, marked, calls, history>>

ResetUnlink(c) ==
  /\ pc[c] = "unlink"
  /\ \E t \in sweep[c] :
       /\ form' = [form EXCEPT ![t] = "absent"]
       /\ sweep' = [sweep EXCEPT ![c] = @ \ {t}]
  /\ UNCHANGED <<task, mark, lock, pc, work, existing, target, files, marked, calls, history>>

ResetDone(c) ==
  /\ pc[c] = "unlink"
  /\ sweep[c] = {}
  /\ lock' = Released(c)
  /\ Go(c, "idle")
  /\ UNCHANGED <<files_, work, locals, calls, issued, twice, meant>>
  /\ Settles

-----------------------------------------------------------------------------
(* updateTask() and the claim, which writes in the same way *)

Update(t, set) == [task |-> t, set |-> set, claim |-> FALSE]
Claim(t, c) == [task |-> t, set |-> [owner |-> c], claim |-> TRUE]

Goes(c, todo) ==
  /\ work' = [work EXCEPT ![c] = todo]
  /\ Go(c, IF todo = << >> THEN "idle" ELSE "check")

\* A missing task is no error before the lock is asked for: an update is
\* skipped, a claim ends the call.
Skip(c) == Goes(c, IF Head(work[c]).claim THEN << >> ELSE Tail(work[c]))

Check(c) ==
  /\ pc[c] = "check"
  /\ IF Head(work[c]).task \in Whole THEN Go(c, "lock") /\ UNCHANGED work ELSE Skip(c)
  /\ UNCHANGED <<files_, lock, locals, calls, history>>

\* Mutant of Claimable: the owner is not looked at again under the lock.
ClaimableUnlooked(t, c) ==
  /\ task[t].status # "completed"
  /\ \A b \in task[t].blockedBy : b \in Whole => task[b].status = "completed"

\* The checks of claimTask() under the lock of the task.
Claimable(t, c) ==
  /\ task[t].owner \in {Nobody, c}
  /\ task[t].status # "completed"
  /\ \A b \in task[t].blockedBy : b \in Whole => task[b].status = "completed"

\* The lock of a file that is gone cannot be had: the error ends the call.
LockTask(c) ==
  LET u == Head(work[c]) IN
  /\ pc[c] = "lock"
  /\ IF u.task \notin Present
     THEN Goes(c, << >>) /\ UNCHANGED <<lock, existing>>
     ELSE
       /\ lock[u.task] = Nobody
       /\ IF u.task \in Whole /\ (u.claim => Claimable(u.task, c))
          THEN /\ Acquire(c, u.task)
               /\ existing' = [existing EXCEPT ![c] = task[u.task]]
               /\ Go(c, "write")
               /\ UNCHANGED work
          ELSE Skip(c) /\ UNCHANGED <<lock, existing>>
  /\ UNCHANGED <<files_, target, files, marked, sweep, calls, history>>

\* The lock stays taken for longer than the retries last.
LockGivesUp(c) ==
  /\ \/ pc[c] \in {"create", "reset"} /\ lock[List] # Nobody
     \/ pc[c] = "lock" /\ lock[Head(work[c]).task] # Nobody
  /\ Goes(c, << >>)
  /\ UNCHANGED <<files_, lock, locals, calls, history>>

Truncate(c) ==
  /\ pc[c] = "write"
  /\ form' = [form EXCEPT ![Head(work[c]).task] = "torn"]
  /\ Go(c, "merge")
  /\ UNCHANGED <<task, mark, lock, work, locals, calls, history>>

Merged(old, set) == [f \in Fields |-> IF f \in DOMAIN set THEN set[f] ELSE old[f]]

\* A file that was deleted meanwhile is there again.
Write(c) ==
  LET u == Head(work[c]) IN
  /\ pc[c] = "merge"
  /\ form' = [form EXCEPT ![u.task] = "whole"]
  /\ task' = [task EXCEPT ![u.task] = Merged(existing[c], u.set)]
  /\ meant' = [meant EXCEPT ![u.task] = Merged(@, u.set)]
  /\ lock' = Released(c)
  /\ Goes(c, Tail(work[c]))
  /\ UNCHANGED <<mark, locals, calls, issued, twice, raced>>

-----------------------------------------------------------------------------
(* The calls that end in updates *)

\* TaskUpdate: what is changed depends on what was read, and a status of
\* in_progress makes the caller the owner of a task that had none.
TaskUpdate(c) ==
  /\ pc[c] = "idle"
  /\ Calling
  /\ \E t \in Whole :
       \/ \E s \in Statuses \ {task[t].status} :
            Goes(c, <<Update(t, IF s = "in_progress" /\ task[t].owner = Nobody
                                THEN [status |-> s, owner |-> c] ELSE [status |-> s])>>)
       \/ \E o \in Callers \ {task[t].owner} : Goes(c, <<Update(t, [owner |-> o])>>)
  /\ UNCHANGED <<files_, lock, locals, history>>

\* blockTask() of TaskUpdate's addBlocks and addBlockedBy.
BlockTask(c) ==
  /\ pc[c] = "idle"
  /\ Calling
  /\ \E from, to \in Whole :
       /\ from # to
       /\ Goes(c, (IF to \in task[from].blocks THEN << >>
                   ELSE <<Update(from, [blocks |-> task[from].blocks \union {to}])>>)
               \o (IF from \in task[to].blockedBy THEN << >>
                   ELSE <<Update(to, [blockedBy |-> task[to].blockedBy \union {from}])>>))
  /\ UNCHANGED <<files_, lock, locals, history>>

\* findAvailableTask(), then claimTask(): the in-process runner sets the status
\* afterwards, the watcher gives the task back if nobody takes the prompt.
ClaimTask(c) ==
  /\ pc[c] = "idle"
  /\ Calling
  /\ \E t \in Whole :
       /\ task[t].status = "pending" /\ task[t].owner = Nobody /\ Claimable(t, c)
       /\ \E rest \in {<<Update(t, [status |-> "in_progress"])>>,
                       <<Update(t, [owner |-> Nobody])>>, << >>} :
            Goes(c, <<Claim(t, c)>> \o rest)
  /\ UNCHANGED <<files_, lock, locals, history>>

\* unassignTeammateTasks(), when a member leaves.
Unassign(c) ==
  /\ pc[c] = "idle"
  /\ Calling
  /\ \E o \in Callers :
     \E open \in SetToSeqs({t \in Whole : task[t].owner = o /\ task[t].status # "completed"}) :
       Goes(c, [i \in DOMAIN open |->
                  Update(open[i], [owner |-> Nobody, status |-> "pending"])])
  /\ UNCHANGED <<files_, lock, locals, history>>

-----------------------------------------------------------------------------
(* deleteTask() *)

\* The tool has seen the task; the mark is read first.
Delete(c) ==
  /\ pc[c] = "idle"
  /\ Calling
  /\ \E t \in Whole : target' = [target EXCEPT ![c] = t]
  /\ marked' = [marked EXCEPT ![c] = mark]
  /\ Overlaps(c)
  /\ Go(c, "deleteMark")
  /\ UNCHANGED <<files_, lock, work, existing, files, sweep, issued, twice, meant>>

DeleteMark(c) ==
  /\ pc[c] = "deleteMark"
  /\ target[c] > marked[c]
  /\ mark' = 0
  /\ Go(c, "deleteFill")
  /\ UNCHANGED <<form, task, lock, work, locals, calls, history>>

DeleteFill(c) ==
  /\ pc[c] = "deleteFill"
  /\ mark' = target[c]
  /\ marked' = [marked EXCEPT ![c] = target[c]]
  /\ Go(c, "deleteMark")
  /\ UNCHANGED <<form, task, lock, work, existing, target, files, sweep, calls, history>>

DeleteUnlink(c) ==
  /\ pc[c] = "deleteMark"
  /\ target[c] <= marked[c]
  /\ form' = [form EXCEPT ![target[c]] = "absent"]
  /\ Go(c, IF target[c] \in Present THEN "references" ELSE "idle")
  /\ UNCHANGED <<task, mark, lock, work, locals, calls, issued, twice, meant>>
  /\ Settles

\* The lists without the deleted task are those of this moment.
References(c) ==
  LET Without(S) == S \ {target[c]} IN
  /\ pc[c] = "references"
  /\ \E refs \in SetToSeqs({t \in Whole : target[c] \in task[t].blocks \union task[t].blockedBy}) :
       Goes(c, [i \in DOMAIN refs |->
                  Update(refs[i], [blocks |-> Without(task[refs[i]].blocks),
                                   blockedBy |-> Without(task[refs[i]].blockedBy)])])
  /\ UNCHANGED <<files_, lock, locals, calls, history>>

-----------------------------------------------------------------------------

\* The process of a call dies; its locks are stale some time later.
Die(c) ==
  /\ pc[c] # "idle"
  /\ lock' = Released(c)
  /\ Goes(c, << >>)
  /\ UNCHANGED <<files_, locals, calls, issued, twice, meant>>
  /\ Settles

Step(c) ==
  \/ Create(c) \/ CreateLock(c) \/ LookAtFiles(c) \/ LookAtMark(c) \/ CreateFile(c) \/ FillFile(c)
  \/ Reset(c) \/ ResetLock(c) \/ ResetMark(c) \/ ResetFill(c) \/ ResetUnlink(c) \/ ResetDone(c)
  \/ TaskUpdate(c) \/ BlockTask(c) \/ ClaimTask(c) \/ Unassign(c)
  \/ Delete(c) \/ DeleteMark(c) \/ DeleteFill(c) \/ DeleteUnlink(c) \/ References(c)
  \/ Check(c) \/ LockTask(c) \/ LockGivesUp(c) \/ Truncate(c) \/ Write(c)
  \/ Die(c)

Next == \E c \in Callers : Step(c)

Spec == Init /\ [][Next]_vars

-----------------------------------------------------------------------------
(* Properties *)

Place ==
  {"idle", "create", "number", "fill", "reset", "resetMark", "resetFill", "unlink",
   "check", "lock", "write", "merge", "deleteMark", "deleteFill", "references"}

TypeOK ==
  /\ form \in [Ids -> {"absent", "torn", "whole"}]
  /\ task \in [Ids -> Task]
  /\ mark \in {0} \union Ids
  /\ lock \in [Locks -> Callers \union {Nobody}]
  /\ pc \in [Callers -> Place]
  /\ \A c \in Callers : \A i \in DOMAIN work[c] :
       work[c][i].task \in Ids /\ DOMAIN work[c][i].set \subseteq Fields
  /\ existing \in [Callers -> Task]
  /\ target \in [Callers -> {0} \union Ids]
  /\ files \in [Callers -> {-1, 0} \union Ids]
  /\ marked \in [Callers -> {-1, 0} \union Ids]
  /\ sweep \in [Callers -> SUBSET Ids]
  /\ issued \subseteq Ids /\ twice \subseteq issued
  /\ meant \in [Ids -> Task]

\* A number that was given is not given again, however tasks are created,
\* deleted and reset and wherever a process dies.  Excepted is the time from a
\* deletion, which takes no lock of the list, that overlaps another call that
\* numbers, until all that were given are at or below the mark or a file again:
\* then the code may give a number again, although its mark is there "to
\* prevent ID reuse" (tasks.ts:143, 400).
IdsFresh ==
  [][\A c \in Callers : CreateFile(c) => raced \/ NewId(c) \notin issued]_vars

\* A change of one field never undoes a change of another: what a file holds
\* is what was last meant for each field, although every change rewrites the
\* whole file from what it has read (updateTask()).  Two tasks that were given
\* one number share a file, and are excepted.  What is meant for a list of
\* blockers is the list that its writer has made of an older one.
NoFieldUndone ==
  \A t \in Whole : t \in twice \/ task[t] = meant[t]

\* A claim that succeeds takes a task that nobody else has, however many
\* callers found it free; excepted are tasks that were given one number.
ClaimsAreExclusive ==
  [][\A c \in Callers :
       LET u == Head(work[c]) IN
       Write(c) /\ u.claim => u.task \in twice \/ meant[u.task].owner \in {Nobody, c}]_vars
=============================================================================
