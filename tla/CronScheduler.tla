----------------------------- MODULE CronScheduler -----------------------------
(***************************************************************************)
(* The scheduled tasks of the server: src/server/services/cronScheduler.ts *)
(* ticks once a minute and runs every task whose cron expression matches   *)
(* as a CLI process; cronService.ts keeps the tasks in one JSON file, and  *)
(* scheduled_tasks_log.json keeps a record of every run.                   *)
(*                                                                         *)
(* Servers may die and start again, and several may live on the same       *)
(* files.  executeTask() is a run with a pc; every await lets the other    *)
(* runs, ticks and requests go on.  Both files are read, changed and       *)
(* written again with no lock, each through a temporary file and a rename. *)
(* The log's is named by the millisecond, so that two writers may share it *)
(* and one may rename what the other still writes: until that is done, or  *)
(* for good if it is never done, the log cannot be read.                   *)
(*                                                                         *)
(* `minute' counts calendar minutes.  Of the log only the runs that it has *)
(* as running are there.  Left out are what a run prints, its environment, *)
(* notifications, and what users write to the file of tasks.               *)
(***************************************************************************)
EXTENDS Integers, FiniteSets

CONSTANTS
  NServers,   \* server processes that may start
  NTasks,     \* tasks in the file at the start, in its order
  Recurring,  \* those that are not disabled after their first run
  Schedule,   \* pairs of a task and a minute that its expression matches
  StaleAfter, \* minutes after which a run in the log is taken for dead, 11
  MaxMinute,  \* bound: minutes that pass
  MaxRuns,    \* bound: calls of executeTask() that get past its guard
  MaxManual   \* bound: those of them that a user asks for

ASSUME BoundsAssumption ==
  /\ NServers \in Nat \ {0} /\ NTasks \in Nat \ {0} /\ MaxMinute \in Nat
  /\ StaleAfter \in Nat /\ MaxRuns \in Nat /\ MaxManual \in Nat

Servers == 1..NServers
Tasks == 1..NTasks
Minutes == 0..MaxMinute
Runs == 1..MaxRuns
Never == -1
Nothing == 0   \* no run or name, where a number is expected

\* Who writes the log: runs, and the cleanup of server s as -s.
Writers == {w \in (-NServers)..MaxRuns : w # 0}

TaskFile == [Tasks -> [enabled : BOOLEAN, fired : Minutes \union {Never}]]
NoFile == << >>

VARIABLES
  minute,   \* the clock
  up,       \* the servers that run
  tasks,    \* scheduled_tasks.json
  log,      \* scheduled_tasks_log.json: the runs whose status is `running'
  damaged,  \* the log is a file that was never written to its end
  tmp,      \* names of the temporary files of the log
  draft,    \* what they say, as the log does
  stem,     \* the name each writer uses
  key,      \* lastFiredMinuteKey of each server
  running,  \* runningTasks of each server: the run that is entered
  listed,   \* what a tick has read and not yet looked at
  sweep,    \* cleanupStaleRuns() of each server
  run,      \* calls of executeTask(), in order
  calls,    \* how many there were
  tangled   \* history: runs that began beside another, or lost their entry

logFiles == <<log, damaged, tmp, draft, stem>>
files == <<tasks, logFiles>>
memory == <<key, running, listed>>
vars == <<minute, up, files, memory, sweep, run, calls, tangled>>

\* A call of executeTask(); `seen' is what it has read of the file of tasks.
Call(pc, s, t, m, manual) ==
  [pc |-> pc, server |-> s, task |-> t, minute |-> m, manual |-> manual,
   seen |-> NoFile, tries |-> 1, armed |-> FALSE, killed |-> FALSE]
NoRun == Call("none", 1, 1, 0, FALSE)

Init ==
  /\ minute = 0
  /\ up = {}
  /\ tasks = [t \in Tasks |-> [enabled |-> TRUE, fired |-> Never]]
  /\ log = {}
  /\ damaged = FALSE
  /\ tmp = {}
  /\ draft = [n \in Writers |-> {}]
  /\ stem = [w \in Writers |-> Nothing]
  /\ key = [s \in Servers |-> [t \in Tasks |-> Never]]
  /\ running = [s \in Servers |-> [t \in Tasks |-> Nothing]]
  /\ listed = [s \in Servers |-> NoFile]
  /\ sweep = [s \in Servers |-> "none"]
  /\ run = [r \in Runs |-> NoRun]
  /\ calls = 0
  /\ tangled = {}

Called == 1..calls
Preparing == {"stamp", "stampWrite", "append", "appendRename", "start"}
Of(r, s, t) == run[r].server = s /\ run[r].task = t
Alive(r) == run[r].server \in up
Gone(r) == Call("gone", run[r].server, run[r].task, run[r].minute, run[r].manual)

\* Run r is at pc `from' and goes on to `to'.
Go(r, from, to) ==
  /\ run[r].pc = from
  /\ Alive(r)
  /\ run' = [run EXCEPT ![r].pc = to]

-----------------------------------------------------------------------------
(* The clock, and servers that start *)

NextMinute ==
  /\ minute < MaxMinute
  /\ minute' = minute + 1
  /\ UNCHANGED <<up, files, memory, sweep, run, calls, tangled>>

\* start() does not wait for the cleanup; the first tick is at once.
Start(s) ==
  /\ s \notin up
  /\ up' = up \union {s}
  /\ sweep' = [sweep EXCEPT ![s] = "read"]
  /\ UNCHANGED <<minute, files, memory, run, calls, tangled>>

-----------------------------------------------------------------------------
(* The log's temporary files, and servers that die *)

Home(w) == IF w < 0 THEN -w ELSE run[w].server
Renaming ==
  {w \in Writers : IF w < 0 THEN sweep[-w] = "rename"
                            ELSE run[w].pc \in {"appendRename", "updateRename"}}
Used == {n \in Writers : \E w \in Renaming : stem[w] = n}

\* A name that nobody uses, or that of a writer in the same millisecond.
Names == Used \union {n \in Writers \ Used : \A m \in Writers \ Used : n =< m}

Written(w, content) == \E n \in Names :
  /\ stem' = [stem EXCEPT ![w] = n]
  /\ tmp' = tmp \union {n}
  /\ draft' = [draft EXCEPT ![n] = content]
  /\ UNCHANGED <<log, damaged>>

Renames(w) == stem[w] \in tmp
Rename(w) ==
  /\ Renames(w)
  /\ log' = draft[stem[w]]
  /\ damaged' = FALSE
  /\ tmp' = tmp \ {stem[w]}
  /\ draft' = [draft EXCEPT ![stem[w]] = {}]
  /\ stem' = [stem EXCEPT ![w] = Nothing]

\* Another writer has taken the file away.
RenameFails(w) ==
  /\ ~Renames(w)
  /\ stem' = [stem EXCEPT ![w] = Nothing]
  /\ UNCHANGED <<log, damaged, tmp, draft>>

\* The file of writer w was taken away, perhaps before it was written to its end.
Robbed(w) == w \in Renaming /\ ~Renames(w)
Torn == damaged \/ \E w \in Writers : Robbed(w)

\* cleanupStaleRuns() writes only if it finds a stale run.
Stale == {r \in log : minute - run[r].minute > StaleAfter}

Sweep(s) ==
  /\ s \in up /\ sweep[s] = "read"
  /\ \/ /\ ~damaged /\ Stale # {}
        /\ sweep' = [sweep EXCEPT ![s] = "rename"]
        /\ Written(-s, log \ Stale)
     \/ /\ Torn \/ Stale = {}
        /\ sweep' = [sweep EXCEPT ![s] = "none"]
        /\ UNCHANGED logFiles
  /\ UNCHANGED <<minute, up, tasks, memory, run, calls, tangled>>

SweepRename(s) ==
  /\ s \in up /\ sweep[s] = "rename"
  /\ Rename(-s) \/ RenameFails(-s)
  /\ sweep' = [sweep EXCEPT ![s] = "none"]
  /\ UNCHANGED <<minute, up, tasks, memory, run, calls, tangled>>

\* Nobody calls stop(): a server that shuts down and one that is killed
\* leave the same behind, the files.  A temporary one is never used again, and
\* what was being written to the log stays as far as it came.
Die(s) ==
  /\ s \in up
  /\ up' = up \ {s}
  /\ tmp' = {n \in tmp : \E w \in Renaming : stem[w] = n /\ Home(w) # s}
  /\ draft' = [n \in Writers |-> IF n \in tmp' THEN draft[n] ELSE {}]
  /\ stem' = [w \in Writers |-> IF Home(w) = s THEN Nothing ELSE stem[w]]
  /\ damaged' \in {damaged, damaged \/ \E w \in Writers : Robbed(w) /\ Home(w) = s}
  /\ key' = [key EXCEPT ![s] = [t \in Tasks |-> Never]]
  /\ running' = [running EXCEPT ![s] = [t \in Tasks |-> Nothing]]
  /\ listed' = [listed EXCEPT ![s] = NoFile]
  /\ sweep' = [sweep EXCEPT ![s] = "none"]
  /\ run' = [r \in Runs |-> IF r \in Called /\ run[r].server = s THEN Gone(r) ELSE run[r]]
  /\ UNCHANGED <<minute, tasks, log, calls, tangled>>

-----------------------------------------------------------------------------
(* tick() and the request to run a task now *)

TickList(s) ==
  /\ s \in up
  /\ listed[s] = NoFile
  /\ listed' = [listed EXCEPT ![s] = tasks]
  /\ UNCHANGED <<minute, up, files, key, running, sweep, run, calls, tangled>>

\* Mutant of Due: a task is free as long as its file does not say otherwise.
DueByFile(s) ==
  {t \in Tasks :
     /\ listed[s][t].enabled
     /\ running[s][t] = Nothing
     /\ listed[s][t].fired # minute
     /\ <<t, minute>> \in Schedule}

Due(s) ==
  {t \in Tasks :
     /\ listed[s][t].enabled
     /\ running[s][t] = Nothing
     /\ key[s][t] # minute
     /\ listed[s][t].fired # minute
     /\ <<t, minute>> \in Schedule}

NewRun(s, t, manual) == Call("stamp", s, t, minute, manual)

\* executeTask() for each of these tasks, in the file's order.
Rank(S, t) == calls + Cardinality({u \in S : u <= t})

\* Runs of a task that a new one begins beside: they have not come to their
\* spawn, or have a process and are tangled themselves.
Beside(s, t) ==
  {r \in Called : /\ Of(r, s, t)
                  /\ run[r].pc \in Preparing \/ (run[r].pc = "child" /\ r \in tangled)}

Execute(s, S, manual) ==
  /\ calls + Cardinality(S) <= MaxRuns
  /\ calls' = calls + Cardinality(S)
  /\ run' = [r \in Runs |->
               IF \E t \in S : r = Rank(S, t)
                 THEN NewRun(s, CHOOSE t \in S : r = Rank(S, t), manual)
                 ELSE run[r]]
  /\ tangled' = tangled \union {Rank(S, t) : t \in {u \in S : Beside(s, u) # {}}}
                      \union (UNION {Beside(s, t) : t \in S})

Tick(s) ==
  /\ s \in up
  /\ listed[s] # NoFile
  /\ listed' = [listed EXCEPT ![s] = NoFile]
  /\ key' = [key EXCEPT ![s] =
               [t \in Tasks |-> IF t \in Due(s) THEN minute ELSE key[s][t]]]
  /\ Execute(s, Due(s), FALSE)
  /\ UNCHANGED <<minute, up, files, running, sweep>>

RunNow(s, t) ==
  /\ s \in up
  /\ Cardinality({r \in Called : run[r].manual}) < MaxManual
  /\ running[s][t] = Nothing
  /\ Execute(s, {t}, TRUE)
  /\ UNCHANGED <<minute, up, files, memory, sweep>>

-----------------------------------------------------------------------------
(* executeTask(), up to the process *)

\* What a run that a user asks for awaits first, its session, only delays it.
\* updateLastFired()
StampRead(r) ==
  /\ run[r].pc = "stamp" /\ Alive(r)
  /\ run' = [run EXCEPT ![r].pc = "stampWrite", ![r].seen = tasks]
  /\ UNCHANGED <<minute, up, files, memory, sweep, calls, tangled>>

\* Mutant of Stamped: the task gets the run's id.
StampedId(r) == [run[r].seen EXCEPT ![run[r].task].fired = MaxMinute + r]

Stamped(r) == [run[r].seen EXCEPT ![run[r].task].fired = run[r].minute]

StampWrite(r) ==
  /\ run[r].pc = "stampWrite" /\ Alive(r)
  /\ tasks' = Stamped(r)
  /\ run' = [run EXCEPT ![r].pc = "append", ![r].seen = NoFile]
  /\ UNCHANGED <<minute, up, logFiles, memory, sweep, calls, tangled>>

\* appendRun(): when it throws, the run is over.
AppendUnread(r) ==
  /\ Torn
  /\ Go(r, "append", "unrecorded")
  /\ UNCHANGED <<minute, up, files, memory, sweep, calls, tangled>>

Append(r) ==
  /\ ~damaged
  /\ Go(r, "append", "appendRename")
  /\ Written(r, log \union {r})
  /\ UNCHANGED <<minute, up, tasks, memory, sweep, calls, tangled>>

AppendRename(r) ==
  /\ \/ Rename(r) /\ Go(r, "appendRename", "start")
     \/ RenameFails(r) /\ Go(r, "appendRename", "unrecorded")
  /\ UNCHANGED <<minute, up, tasks, memory, sweep, calls, tangled>>

\* Mutant of Entered: the process is not entered among those that run.
EnteredNot(r) == running

Entered(r) == [running EXCEPT ![run[r].server][run[r].task] = r]

Spawn(r) ==
  /\ run[r].pc = "start" /\ Alive(r)
  /\ run' = [run EXCEPT ![r].pc = "child", ![r].armed = TRUE]
  /\ running' = Entered(r)
  /\ UNCHANGED <<minute, up, files, key, listed, sweep, calls, tangled>>

\* The provider is gone, or the executable is: nobody catches it.
StartFails(r) ==
  /\ Go(r, "start", "notStarted")
  /\ UNCHANGED <<minute, up, files, memory, sweep, calls, tangled>>

-----------------------------------------------------------------------------
(* executeTask(), from the process on *)

\* The timer looks for the task, not for its own run.
Timeout(r) ==
  /\ run[r].pc = "child" /\ run[r].armed /\ Alive(r)
  /\ run' = [run EXCEPT ![r].armed = FALSE,
                        ![r].killed = running[run[r].server][run[r].task] # Nothing]
  /\ UNCHANGED <<minute, up, files, memory, sweep, calls, tangled>>

Ended(r) ==
  /\ run[r].pc = "child" /\ Alive(r)
  /\ run' = [run EXCEPT ![r].pc = "update", ![r].armed = FALSE, ![r].killed = FALSE]
  /\ running' = [running EXCEPT ![run[r].server][run[r].task] = Nothing]
  /\ UNCHANGED <<minute, up, files, key, listed, sweep, calls, tangled>>

ChildExits(r) == ~run[r].killed /\ Ended(r)
ChildKilled(r) == run[r].killed /\ Ended(r)

Update(r) ==
  /\ ~damaged
  /\ Go(r, "update", "updateRename")
  /\ Written(r, log \ {r})
  /\ UNCHANGED <<minute, up, tasks, memory, sweep, calls, tangled>>

After(r) ==
  IF run[r].tries = 1 /\ run[r].task \notin Recurring THEN "disable" ELSE "done"

UpdateRename(r) ==
  /\ Rename(r)
  /\ Go(r, "updateRename", After(r))
  /\ UNCHANGED <<minute, up, tasks, memory, sweep, calls, tangled>>

\* updateRun() throws: the catch clause takes the task out of those that run,
\* whoever put it there, and tries once more.
Retry(r) ==
  IF run[r].tries = 1
    THEN /\ run' = [run EXCEPT ![r].pc = "update", ![r].tries = 2]
         /\ running' = [running EXCEPT ![run[r].server][run[r].task] = Nothing]
         /\ tangled' = tangled \union ({running[run[r].server][run[r].task]} \ {Nothing})
    ELSE /\ run' = [run EXCEPT ![r].pc = "unfinished"]
         /\ UNCHANGED <<running, tangled>>

UpdateFails(r) ==
  /\ \/ run[r].pc = "update" /\ Torn /\ UNCHANGED logFiles
     \/ run[r].pc = "updateRename" /\ RenameFails(r)
  /\ Alive(r)
  /\ Retry(r)
  /\ UNCHANGED <<minute, up, tasks, key, listed, sweep, calls>>

\* updateTask() with enabled: false, after a task's only run.
DisableRead(r) ==
  /\ run[r].pc = "disable" /\ Alive(r)
  /\ run' = [run EXCEPT ![r].pc = "disableWrite", ![r].seen = tasks]
  /\ UNCHANGED <<minute, up, files, memory, sweep, calls, tangled>>

DisableWrite(r) ==
  /\ run[r].pc = "disableWrite" /\ Alive(r)
  /\ tasks' = [run[r].seen EXCEPT ![run[r].task].enabled = FALSE]
  /\ run' = [run EXCEPT ![r].pc = "done", ![r].seen = NoFile]
  /\ UNCHANGED <<minute, up, logFiles, memory, sweep, calls, tangled>>

-----------------------------------------------------------------------------
ServerStep(s) ==
  \/ Start(s) \/ Die(s) \/ Sweep(s) \/ SweepRename(s)
  \/ TickList(s) \/ Tick(s) \/ (\E t \in Tasks : RunNow(s, t))

RunStep(r) ==
  \/ StampRead(r) \/ StampWrite(r) \/ Append(r) \/ AppendUnread(r) \/ AppendRename(r)
  \/ Spawn(r) \/ StartFails(r) \/ Timeout(r) \/ ChildExits(r) \/ ChildKilled(r)
  \/ Update(r) \/ UpdateRename(r) \/ UpdateFails(r) \/ DisableRead(r) \/ DisableWrite(r)

Next ==
  \/ NextMinute
  \/ \E s \in Servers : ServerStep(s)
  \/ \E r \in Runs : RunStep(r)

\* The timer of a process fires, and a process that is killed exits.  Nothing
\* makes a process exit by itself.
Fairness == \A r \in Runs : WF_vars(Timeout(r)) /\ WF_vars(ChildKilled(r))

Spec == Init /\ [][Next]_vars /\ Fairness

-----------------------------------------------------------------------------
Pcs == Preparing \union
  {"none", "gone", "unrecorded", "notStarted", "child", "update", "updateRename",
   "unfinished", "disable", "disableWrite", "done"}

\* The type invariant.
TypeOK ==
  /\ minute \in Minutes
  /\ up \subseteq Servers
  /\ tasks \in TaskFile
  /\ log \subseteq Runs
  /\ damaged \in BOOLEAN
  /\ tmp \subseteq Writers
  /\ draft \in [Writers -> SUBSET Runs]
  /\ stem \in [Writers -> Writers \union {Nothing}]
  /\ key \in [Servers -> [Tasks -> Minutes \union {Never}]]
  /\ running \in [Servers -> [Tasks -> Runs \union {Nothing}]]
  /\ \A s \in Servers : listed[s] = NoFile \/ listed[s] \in TaskFile
  /\ sweep \in [Servers -> {"none", "read", "rename"}]
  /\ calls \in 0..MaxRuns
  /\ \A r \in Runs :
       /\ run[r].pc \in Pcs
       /\ run[r].server \in Servers /\ run[r].task \in Tasks /\ run[r].minute \in Minutes
       /\ run[r].tries \in {1, 2}
       /\ IF run[r].pc \in {"stampWrite", "disableWrite"} THEN run[r].seen \in TaskFile
                                                        ELSE run[r].seen = NoFile

\* However ticks, runs and requests interleave, and whatever is lost from the
\* file, the ticks of a server fire a task once in a minute, until it dies
\* (the guards of tick(), cronScheduler.ts:386-410).
OncePerMinute ==
  \A r, q \in Runs :
    /\ r # q /\ run[r].pc \notin {"none", "gone"} /\ run[q].pc \notin {"none", "gone"}
    /\ ~run[r].manual /\ ~run[q].manual
    /\ run[r].server = run[q].server /\ run[r].task = run[q].task
    => run[r].minute # run[q].minute

\* Two processes of a task live in one server only if both are tangled: one
\* was begun while the other had not come to its spawn, when the guard of
\* executeTask() sees nothing; or while the other, tangled already or robbed of
\* its entry by the failed update of a third, had a process that the guard no
\* longer sees (cronScheduler.ts:434, 527, 569, 624).  The trouble ends with
\* those runs: the ends of tangled runs, which take out entries by task and not
\* by run, let no later call past that finds only untangled ones.
OneProcess ==
  \A r, q \in Runs :
    /\ r # q /\ run[r].pc = "child" /\ run[q].pc = "child"
    /\ run[r].server = run[q].server /\ run[r].task = run[q].task
    => r \in tangled /\ q \in tangled

\* A process that does not end is killed by its timer, unless its own run is
\* tangled with others, as OneProcess has it: whose entry the timer then finds,
\* or whether it finds one, the code leaves open (cronScheduler.ts:538-546).
HungIsKilled ==
  \A r \in Runs :
    run[r].pc = "child" ~> run[r].pc # "child" \/ ~Alive(r) \/ r \in tangled

\* "Fire and forget -- we want all matching tasks to start"
\* (cronScheduler.ts:413): no task is dropped before its process is tried.
AllMatchingStart == \A r \in Runs : run[r].pc # "unrecorded"
=============================================================================
