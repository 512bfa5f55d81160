------------------------ MODULE StreamingToolExecutor ------------------------
(***************************************************************************)
(* How one turn runs the tools of a reply while the reply still streams:   *)
(* src/services/tools/StreamingToolExecutor.ts, driven by the loop of      *)
(* src/query.ts.                                                           *)
(*                                                                         *)
(* addTool() queues a tool; processQueue() starts the queued tools that    *)
(* may run together; every tool runs as an asynchronous task of its own    *)
(* and, done, calls processQueue() again; getCompletedResults() and        *)
(* getRemainingResults() give the results to the turn.  Each step below is *)
(* what the code does between two awaits (or two yields): processQueue()   *)
(* awaits after every tool it starts, so several calls of it can be under  *)
(* way, each remembered by the tool it looks at next.                      *)
(*                                                                         *)
(* Progress messages and context modifiers are left out.                   *)
(***************************************************************************)
EXTENDS Integers, Sequences

CONSTANTS
  MaxTools,   \* bound: tool_use blocks of the reply
  Kinds       \* what the definition of a tool says of one call

ASSUME MaxToolsAssumption == MaxTools \in Nat

\* May the call run beside others, is it Bash (whose error cancels the
\* others), what does an interrupt do to it, is there such a tool at all.
ASSUME KindsAssumption ==
  Kinds \subseteq [known : BOOLEAN, safe : BOOLEAN, bash : BOOLEAN,
                  interruptBehavior : {"cancel", "block"}]

Tools == 1..MaxTools   \* in the order they are received

VARIABLES
  kind,        \* the kinds of the tools of this reply, chosen at the start
  status,      \* of each tool; "absent" until its block has streamed in
  results,     \* the tool_result messages of each tool
  scans,       \* number of processQueue() calls that look at a tool next
  hasErrored,
  discarded,
  abort,       \* the turn's controller: not aborted, or by what; a submitted
               \* message ("message") aborts with reason 'interrupt', an
               \* interrupt request and a rejected permission do not
  phase,       \* of query.ts: streaming the reply, then draining the executor
  cursor,      \* the tool getCompletedResults() looks at next; 0 if not under way
  walk,        \* the same for the processQueue() getRemainingResults() awaits
  emitted      \* tools in the order their results were given to the turn

turnVars == <<phase, cursor, walk, emitted>>
vars == <<kind, status, results, scans, hasErrored, discarded, abort, turnVars>>

Aborts == {"message", "request", "rejection"}
Outcomes == {"ok", "error", "sibling_error", "user_interrupted", "streaming_fallback"}

TypeOK ==
  /\ kind \in [Tools -> Kinds]
  /\ status \in [Tools -> {"absent", "queued", "executing", "completed", "yielded"}]
  /\ results \in [Tools -> Seq(Outcomes)]
  /\ scans \in [1..MaxTools + 1 -> Nat]
  /\ hasErrored \in BOOLEAN
  /\ discarded \in BOOLEAN
  /\ abort \in {"none"} \cup Aborts
  /\ phase \in {"streaming", "remaining", "finished"}
  /\ cursor \in 0..MaxTools + 1
  /\ walk \in 0..MaxTools + 1
  /\ emitted \in Seq(Tools)

Init ==
  /\ kind \in [Tools -> Kinds]
  /\ status = [t \in Tools |-> "absent"]
  /\ results = [t \in Tools |-> << >>]
  /\ scans = [p \in 1..MaxTools + 1 |-> 0]
  /\ hasErrored = FALSE
  /\ discarded = FALSE
  /\ abort = "none"
  /\ phase = "streaming"
  /\ cursor = 0
  /\ walk = 0
  /\ emitted = << >>

With(st, s) == {t \in Tools : st[t] = s}
First(t, S) == t \in S /\ \A u \in S : t <= u

-----------------------------------------------------------------------------
(* Starting tools *)

\* getAbortReason(), for a tool that is about to start or has an update.
AbortReason(t) ==
  IF discarded THEN "streaming_fallback"
  ELSE IF hasErrored THEN "sibling_error"
  ELSE IF \/ abort \in {"request", "rejection"}
          \/ abort = "message" /\ kind[t].interruptBehavior = "cancel"
       THEN "user_interrupted"
  ELSE "none"

\* Mutant of CanExecute: only the tools that run are asked.
CanExecuteBeside(st, t) ==
  \A u \in With(st, "executing") : kind[u].safe

CanExecute(st, t) ==
  \A u \in With(st, "executing") : kind[t].safe /\ kind[u].safe

\* Mutant of Startable: the walk does not stop at a blocked exclusive tool.
StartableAny(st, p) ==
  {t \in With(st, "queued") : p <= t /\ CanExecute(st, t)}

\* The tools a processQueue() that looks at tool p next may start: it passes
\* over a queued tool only if that one is concurrency-safe.
Startable(st, p) ==
  {t \in With(st, "queued") :
     /\ p <= t
     /\ CanExecute(st, t)
     /\ \A u \in With(st, "queued") : p <= u /\ u < t => kind[u].safe}

\* executeTool() up to its first await: an aborted tool is completed at once.
Launch(st, t) ==
  [st EXCEPT ![t] = IF AbortReason(t) = "none" THEN "executing" ELSE "completed"]

\* Mutant of Synthetic: the test for a reason is missing.
SyntheticAlways(t) == [results EXCEPT ![t] = Append(@, AbortReason(t))]

Synthetic(t) ==
  [results EXCEPT ![t] =
     IF AbortReason(t) = "none" THEN @ ELSE Append(@, AbortReason(t))]

\* Mutant of Start: an aborted tool is passed over and stays queued.
StartUnlessAborted(st, t, sc) ==
  /\ status' = [st EXCEPT ![t] = IF AbortReason(t) = "none" THEN "executing" ELSE @]
  /\ scans' = sc
  /\ UNCHANGED results

\* Starting tool t; one that is completed at once calls processQueue() again.
Start(st, t, sc) ==
  /\ status' = Launch(st, t)
  /\ results' = Synthetic(t)
  /\ scans' = IF AbortReason(t) = "none" THEN sc ELSE [sc EXCEPT ![1] = @ + 1]

\* One stretch of processQueue(), from tool p to the next await or the end.
Stretch(st, p, sc) ==
  \/ /\ Startable(st, p) = {}
     /\ status' = st
     /\ scans' = sc
     /\ UNCHANGED results
  \/ \E t \in Tools :
       /\ First(t, Startable(st, p))
       /\ Start(st, t, [sc EXCEPT ![t + 1] = @ + 1])

ContinueQueue(p) ==
  /\ scans[p] > 0
  /\ Stretch(status, p, [scans EXCEPT ![p] = @ - 1])
  /\ UNCHANGED <<kind, hasErrored, discarded, abort, turnVars>>

-----------------------------------------------------------------------------
(* The reply streams in; the turn is aborted or falls back *)

AddTool(t) ==
  /\ phase = "streaming"
  /\ cursor = 0
  /\ ~discarded
  /\ abort = "none"
  /\ status[t] = "absent"
  /\ \A u \in Tools : u < t => status[u] # "absent"
  /\ IF kind[t].known
       THEN Stretch([status EXCEPT ![t] = "queued"], 1, scans)
       ELSE /\ status' = [status EXCEPT ![t] = "completed"]
            /\ results' = [results EXCEPT ![t] = <<"error">>]
            /\ UNCHANGED scans
  /\ UNCHANGED <<kind, hasErrored, discarded, abort, turnVars>>

\* A streaming fallback; the turn goes on with a new executor.
Discard ==
  /\ phase = "streaming"
  /\ cursor = 0
  /\ discarded' = TRUE
  /\ phase' = "finished"
  /\ UNCHANGED <<kind, status, results, scans, hasErrored, abort, cursor, walk, emitted>>

\* An interrupt request of the server, or a message of priority 'now'.
Interrupt(by) ==
  /\ abort = "none"
  /\ phase # "finished"
  /\ abort' = by
  /\ UNCHANGED <<kind, status, results, scans, hasErrored, discarded, turnVars>>

\* Rejecting a tool's permission dialog aborts the tool's own controller,
\* which passes the abort on to the turn's.
RejectPermission(t) ==
  /\ status[t] = "executing"
  /\ results[t] = << >>
  /\ abort = "none"
  /\ ~discarded
  /\ ~hasErrored
  /\ abort' = "rejection"
  /\ UNCHANGED <<kind, status, results, scans, hasErrored, discarded, turnVars>>

-----------------------------------------------------------------------------
(* Tools running *)

ToolErrored(t) == "error" \in {results[t][i] : i \in DOMAIN results[t]}
\* Mutant of Cancelled: the tool's own error is not considered.
CancelledAnyway(t) == AbortReason(t) # "none"

Cancelled(t) == AbortReason(t) # "none" /\ ~ToolErrored(t)

Complete(t) ==
  /\ status' = [status EXCEPT ![t] = "completed"]
  /\ scans' = [scans EXCEPT ![1] = @ + 1]

\* An update of a cancelled tool, whatever it holds, is replaced by a
\* synthetic error, and the tool is left to itself.
UpdateCancelled(t) ==
  /\ status[t] = "executing"
  /\ Cancelled(t)
  /\ results' = [results EXCEPT ![t] = Append(@, AbortReason(t))]
  /\ Complete(t)
  /\ UNCHANGED <<kind, hasErrored, discarded, abort, turnVars>>

\* The update that holds the result; hook messages may follow it.
UpdateResult(t, outcome) ==
  /\ status[t] = "executing"
  /\ ~Cancelled(t)
  /\ results[t] = << >>
  /\ results' = [results EXCEPT ![t] = Append(@, outcome)]
  /\ hasErrored' = (hasErrored \/ (outcome = "error" /\ kind[t].bash))
  /\ UNCHANGED <<kind, status, scans, discarded, abort, turnVars>>

ToolEnds(t) ==
  /\ status[t] = "executing"
  /\ results[t] # << >>
  /\ Complete(t)
  /\ UNCHANGED <<kind, results, hasErrored, discarded, abort, turnVars>>

-----------------------------------------------------------------------------
(* Results to the turn *)

\* The first tool from the cursor on whose result can be given: the look at
\* the tools stops at an executing tool that is not concurrency-safe.
Ready(p) ==
  {t \in With(status, "completed") :
     /\ p <= t
     /\ \A u \in With(status, "executing") : p <= u /\ u < t => kind[u].safe}

GetCompletedResults ==
  /\ phase = "streaming"
  /\ cursor = 0
  /\ abort = "none"
  /\ ~discarded
  /\ cursor' = 1
  /\ UNCHANGED <<kind, status, results, scans, hasErrored, discarded, abort, phase, walk, emitted>>

Yield ==
  /\ cursor # 0
  /\ \/ /\ Ready(cursor) = {}
        /\ cursor' = 0
        /\ UNCHANGED <<status, emitted>>
     \/ \E t \in Tools :
          /\ First(t, Ready(cursor))
          /\ cursor' = t + 1
          /\ status' = [status EXCEPT ![t] = "yielded"]
          /\ emitted' = Append(emitted, t)
  /\ UNCHANGED <<kind, results, scans, hasErrored, discarded, abort, phase, walk>>

EndStreaming ==
  /\ phase = "streaming"
  /\ cursor = 0
  /\ phase' = "remaining"
  /\ UNCHANGED <<kind, status, results, scans, hasErrored, discarded, abort, cursor, walk, emitted>>

\* Mutant of Unfinished: tools that have not started are forgotten.
UnfinishedStarted == \E t \in Tools : status[t] \in {"executing", "completed"}

Unfinished == \E t \in Tools : status[t] \notin {"absent", "yielded"}

\* A round of getRemainingResults() awaits a processQueue() of its own and
\* then looks for results; it waits while tools execute and none has completed.
GetRemainingResults ==
  /\ phase = "remaining"
  /\ cursor = 0
  /\ walk = 0
  /\ Unfinished
  /\ With(status, "executing") = {} \/ With(status, "completed") # {}
  /\ walk' = 1
  /\ UNCHANGED <<kind, status, results, scans, hasErrored, discarded, abort, phase,
                 cursor, emitted>>

ContinueRound ==
  /\ walk # 0
  /\ \/ /\ Startable(status, walk) = {}
        /\ walk' = 0
        /\ cursor' = 1
        /\ UNCHANGED <<status, results, scans>>
     \/ \E t \in Tools :
          /\ First(t, Startable(status, walk))
          /\ Start(status, t, scans)
          /\ walk' = t + 1
          /\ UNCHANGED cursor
  /\ UNCHANGED <<kind, hasErrored, discarded, abort, phase, emitted>>

Finish ==
  /\ phase = "remaining"
  /\ cursor = 0
  /\ walk = 0
  /\ ~Unfinished
  /\ phase' = "finished"
  /\ UNCHANGED <<kind, status, results, scans, hasErrored, discarded, abort, cursor, walk, emitted>>

-----------------------------------------------------------------------------

Queue == \E p \in 1..MaxTools + 1 : ContinueQueue(p)
Update(t) == UpdateCancelled(t) \/ \E o \in {"ok", "error"} : UpdateResult(t, o)
Consumer == Yield \/ GetRemainingResults \/ ContinueRound \/ Finish

Next ==
  \/ \E t \in Tools : AddTool(t) \/ Update(t) \/ ToolEnds(t) \/ RejectPermission(t)
  \/ \E by \in {"message", "request"} : Interrupt(by)
  \/ Discard
  \/ Queue
  \/ GetCompletedResults
  \/ EndStreaming
  \/ Consumer

Spec == Init /\ [][Next]_vars

\* processQueue() goes on after its await, a tool that runs has a result some
\* time and then ends, and the turn takes the results it is given.
Fairness ==
  /\ \A p \in 1..MaxTools + 1 : WF_vars(ContinueQueue(p))
  /\ \A t \in Tools : WF_vars(Update(t)) /\ WF_vars(ToolEnds(t))
  /\ WF_vars(Consumer)

FairSpec == Spec /\ Fairness

-----------------------------------------------------------------------------
(* Properties *)

Executing == With(status, "executing")
Started == {t \in Tools : status[t] \in {"executing", "completed", "yielded"}}
Given == {emitted[i] : i \in DOMAIN emitted}

\* A tool that is not concurrency-safe has the workspace to itself, however
\* many processQueue() calls are under way at once.
Exclusive ==
  \A t, u \in Executing : t # u => kind[t].safe /\ kind[u].safe

\* Tools start in the order they were received: nothing overtakes a tool that
\* waits for exclusive access, which therefore is not starved.
StartedInOrder ==
  \A t, u \in Tools :
    u < t /\ kind[t].known /\ t \in Started => u \in Started

\* The tool whose error cancels its siblings, and any other tool that failed
\* by itself, is answered by that error alone.
OwnErrorStands ==
  \A t \in Tools : ToolErrored(t) => Len(results[t]) = 1

\* Every tool_use that was given to the executor has been answered, once, when
\* the turn goes on.
AllAnswered ==
  phase = "finished" /\ ~discarded =>
    /\ \A t \in Tools : status[t] # "absent" => t \in Given /\ results[t] # << >>
    /\ \A i, j \in DOMAIN emitted : i # j => emitted[i] # emitted[j]

Service ==
  INSTANCE ToolService WITH
    shared <- {t \in Tools : kind[t].safe},
    asked <- {t \in Tools : status[t] # "absent"},
    begun <- Started,
    ended <- With(status, "completed") \union With(status, "yielded"),
    answers <- emitted,
    over <- IF phase # "finished" THEN "no"
            ELSE IF discarded THEN "abandoned" ELSE "answered"

\* The executor is a readers-writers lock that serves first come first: its
\* processQueue() calls, however many are under way and wherever they stand,
\* together with aborts, fallbacks and polls, amount to ToolService.  (It
\* includes StartedInOrder.)
ServesTools == Service!Spec

\* A submitted message (reason 'interrupt') leaves the tools whose interrupt
\* behaviour is 'block' alone, also those that have not started yet.
BlockToolsOutliveMessage ==
  \A t \in Tools :
    abort = "message" /\ kind[t].interruptBehavior = "block" =>
      \A i \in DOMAIN results[t] : results[t][i] # "user_interrupted"

\* The turn does not hang in getRemainingResults().
Drained == phase = "remaining" ~> phase = "finished"
=============================================================================
