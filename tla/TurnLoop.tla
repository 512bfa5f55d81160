------------------------------- MODULE TurnLoop -------------------------------
(***************************************************************************)
(* The headless turn loop of the CLI: run() and the input reader of        *)
(* src/cli/print.ts, the command queue they share                          *)
(* (src/utils/messageQueueManager.ts), the mid-turn drain of src/query.ts  *)
(* and the background tasks whose notifications come back through the      *)
(* queue (src/tasks, src/tools/AgentTool).                                 *)
(*                                                                         *)
(* Two asynchronous tasks run side by side.  The reader takes one message  *)
(* at a time from the input: an interrupt aborts the current controller,   *)
(* a prompt is enqueued and run() is called.  run() is its own mutex: it   *)
(* drains the queue one turn after the other, waits for background tasks,  *)
(* flushes and goes idle.  Each await of run() is a phase here.            *)
(*                                                                         *)
(* Prompts are numbered in the order they are sent.  All of them have the  *)
(* same priority and workload and none is a slash command, as the          *)
(* worldviews of Elio's loop: whoever takes prompts from the queue takes   *)
(* all it sees, so the queue is the set of them and a count of the         *)
(* notifications.  The polling of a team lead is not modelled.             *)
(***************************************************************************)
EXTENDS Integers, Sequences

CONSTANTS
  MaxPrompts,  \* bound: prompts sent
  MaxWire,     \* bound: messages on the wire
  Agents,      \* background agents and workflows: a result waits for them
  Shells       \* background shells: run() waits for them, a result does not

ASSUME PromptsAssumption == MaxPrompts \in Nat /\ MaxWire \in Nat

ASSUME TasksAssumption == Agents \intersect Shells = {}

Prompts == 1..MaxPrompts
Interrupt == 0       \* on the wire, beside prompts
Tasks == Agents \union Shells
Nothing == [prompts |-> {}, notices |-> 0]

VARIABLES
  wire,          \* messages written to the CLI's input and not yet read
  sent,          \* prompts sent so far
  inputClosed,
  queued,        \* prompts in the command queue
  notices,       \* task notifications in the command queue
  phase,         \* where run() is; run() is not running when "idle"
  turn,          \* number of the current or the last turn
  taken,         \* prompts the current turn has been given
  aborted,       \* the current turn's controller is aborted
  seen,          \* what the mid-turn drain saw when it looked at the queue
  task,          \* state of each background task
  held,          \* heldBackResult: at most one result
  output,        \* results emitted
  dropped,       \* history: prompts whose turn's result was never emitted
  late           \* history: prompts read since the current turn was aborted

inputVars  == <<wire, sent, inputClosed>>
queueVars  == <<queued, notices>>
turnVars   == <<turn, taken, aborted, seen, late>>
resultVars == <<held, output, dropped>>
vars == <<inputVars, queueVars, phase, turnVars, task, resultVars>>

Result == [turn : Nat, prompts : SUBSET Prompts]

TypeOK ==
  /\ wire \in Seq(Prompts \union {Interrupt})
  /\ sent \in 0..MaxPrompts
  /\ inputClosed \in BOOLEAN
  /\ queued \subseteq Prompts
  /\ notices \in Nat
  /\ phase \in {"idle", "entry", "draining", "turn", "gate", "waiting", "flush", "done"}
  /\ turn \in Nat
  /\ taken \subseteq Prompts
  /\ aborted \in BOOLEAN
  /\ seen \in [prompts : SUBSET Prompts, notices : Nat]
  /\ task \in [Tasks -> {"none", "running", "killed", "over"}]
  /\ held \in Seq(Result) /\ Len(held) <= 1
  /\ output \in Seq(Result)
  /\ dropped \subseteq Prompts
  /\ late \subseteq Prompts

Init ==
  /\ wire = << >>
  /\ sent = 0
  /\ inputClosed = FALSE
  /\ queued = {}
  /\ notices = 0
  /\ phase = "idle"
  /\ turn = 0
  /\ taken = {}
  /\ aborted = FALSE
  /\ seen = Nothing
  /\ task = [t \in Tasks |-> "none"]
  /\ held = << >>
  /\ output = << >>
  /\ dropped = {}
  /\ late = {}

InTurn == phase \in {"turn", "gate"}
QueueEmpty == queued = {} /\ notices = 0
Running(tasks) == {t \in tasks : task[t] = "running"}

-----------------------------------------------------------------------------
(* The server's end of the wire *)

SendPrompt ==
  /\ ~inputClosed
  /\ sent < MaxPrompts
  /\ Len(wire) < MaxWire
  /\ sent' = sent + 1
  /\ wire' = Append(wire, sent + 1)
  /\ UNCHANGED <<inputClosed, queueVars, phase, turnVars, task, resultVars>>

SendInterrupt ==
  /\ ~inputClosed
  /\ Len(wire) < MaxWire
  /\ wire' = Append(wire, Interrupt)
  /\ UNCHANGED <<sent, inputClosed, queueVars, phase, turnVars, task, resultVars>>

-----------------------------------------------------------------------------
(* The reader *)

\* run() returns at once when it is running already.
CallRun == phase' = IF phase = "idle" THEN "entry" ELSE phase

ReadPrompt ==
  /\ wire # << >>
  /\ Head(wire) # Interrupt
  /\ wire' = Tail(wire)
  /\ queued' = queued \union {Head(wire)}
  /\ CallRun
  /\ late' = IF aborted THEN late \union {Head(wire)} ELSE late
  /\ UNCHANGED <<sent, inputClosed, turn, taken, aborted, seen, notices,
                 task, resultVars>>

\* Outside a turn the controller is that of an earlier turn, or undefined:
\* aborting it stops nothing.
ReadInterrupt ==
  /\ wire # << >>
  /\ Head(wire) = Interrupt
  /\ wire' = Tail(wire)
  /\ aborted' = (aborted \/ InTurn)
  /\ UNCHANGED <<sent, inputClosed, queueVars, phase, turn, taken, seen, late,
                 task, resultVars>>

\* End of input: output.done() when idle, otherwise left to run().
CloseInput ==
  /\ wire = << >>
  /\ ~inputClosed
  /\ inputClosed' = TRUE
  /\ phase' = IF phase = "idle" THEN "done" ELSE phase
  /\ UNCHANGED <<wire, sent, queueVars, turnVars, task, resultVars>>

-----------------------------------------------------------------------------
(* run() *)

\* The awaits before the first drain (MCP servers, plugins).
EnterRun ==
  /\ phase = "entry"
  /\ phase' = "draining"
  /\ UNCHANGED <<inputVars, queueVars, turnVars, task, resultVars>>

\* Mutant of StartTurn: a batch of prompts takes a notification along.
StartTurnTakesNotice ==
  /\ phase = "draining"
  /\ ~QueueEmpty
  /\ phase' = "turn"
  /\ turn' = turn + 1
  /\ taken' = queued
  /\ queued' = {}
  /\ notices' = notices - 1
  /\ aborted' = FALSE
  /\ late' = {}
  /\ UNCHANGED <<inputVars, seen, task, resultVars>>

\* Prompts go first and all of them in one batch; notifications go singly.
StartTurn ==
  /\ phase = "draining"
  /\ ~QueueEmpty
  /\ phase' = "turn"
  /\ turn' = turn + 1
  /\ taken' = queued
  /\ queued' = {}
  /\ notices' = IF queued = {} THEN notices - 1 ELSE notices
  /\ aborted' = FALSE
  /\ late' = {}
  /\ UNCHANGED <<inputVars, seen, task, resultVars>>

\* Mutant of OpenGate: an aborted turn looks at the queue too.
OpenGateAborted ==
  /\ phase = "turn"
  /\ ~QueueEmpty
  /\ phase' = "gate"
  /\ seen' = [prompts |-> queued, notices |-> notices]
  /\ UNCHANGED <<inputVars, queueVars, turn, taken, aborted, late, task, resultVars>>

\* After a round of tools that was not aborted the turn looks at the queue ...
OpenGate ==
  /\ phase = "turn"
  /\ ~aborted
  /\ ~QueueEmpty
  /\ phase' = "gate"
  /\ seen' = [prompts |-> queued, notices |-> notices]
  /\ UNCHANGED <<inputVars, queueVars, turn, taken, aborted, late, task, resultVars>>

\* Mutant of Consume: everything queued by now is removed.
ConsumeAll(sleepRan) ==
  /\ phase = "gate"
  /\ phase' = "turn"
  /\ taken' = taken \union seen.prompts
  /\ queued' = {}
  /\ notices' = IF sleepRan THEN 0 ELSE notices
  /\ seen' = Nothing
  /\ UNCHANGED <<inputVars, turn, aborted, late, task, resultVars>>

\* ... and, attachments awaited, removes what it saw: the prompts, and the
\* notifications too if the Sleep tool was among the tools.
Consume(sleepRan) ==
  /\ phase = "gate"
  /\ phase' = "turn"
  /\ taken' = taken \union seen.prompts
  /\ queued' = queued \ seen.prompts
  /\ notices' = IF sleepRan THEN notices - seen.notices ELSE notices
  /\ seen' = Nothing
  /\ UNCHANGED <<inputVars, turn, aborted, late, task, resultVars>>

ThisResult == [turn |-> turn, prompts |-> taken]
PromptsOf(results) == UNION {results[i].prompts : i \in DOMAIN results}

\* Mutant of EndTurn: a result emitted at once leaves the held one in place.
EndTurnKeepsHeld ==
  /\ phase = "turn"
  /\ phase' = "draining"
  /\ taken' = {}
  /\ aborted' = FALSE
  /\ late' = {}
  /\ IF Running(Agents) # {}
       THEN held' = <<ThisResult>> /\ dropped' = dropped \union PromptsOf(held)
                                  /\ UNCHANGED output
       ELSE output' = Append(output, ThisResult) /\ UNCHANGED <<held, dropped>>
  /\ UNCHANGED <<inputVars, queueVars, turn, seen, task>>

\* ask() yields its one result, whether the turn was aborted or not.  It is
\* held back while an agent runs; either way it replaces one held before.
EndTurn ==
  /\ phase = "turn"
  /\ phase' = "draining"
  /\ taken' = {}
  /\ aborted' = FALSE
  /\ late' = {}
  /\ dropped' = dropped \union PromptsOf(held)
  /\ IF Running(Agents) # {}
       THEN held' = <<ThisResult>> /\ UNCHANGED output
       ELSE held' = << >> /\ output' = Append(output, ThisResult)
  /\ UNCHANGED <<inputVars, queueVars, turn, seen, task>>

\* The queue is empty but a background task runs: sleep, then drain again.
Wait ==
  /\ phase = "draining"
  /\ QueueEmpty
  /\ Running(Tasks) # {}
  /\ phase' = "waiting"
  /\ UNCHANGED <<inputVars, queueVars, turnVars, task, resultVars>>

Wake ==
  /\ phase = "waiting"
  /\ phase' = "draining"
  /\ UNCHANGED <<inputVars, queueVars, turnVars, task, resultVars>>

EmitHeld ==
  /\ phase = "draining"
  /\ QueueEmpty
  /\ Running(Tasks) = {}
  /\ phase' = "flush"
  /\ output' = output \o held
  /\ held' = << >>
  /\ UNCHANGED <<inputVars, queueVars, turnVars, task, dropped>>

\* Mutant of LeaveRun: no second look at the queue.
LeaveRunUnchecked ==
  /\ phase = "flush"
  /\ phase' = IF inputClosed THEN "done" ELSE "idle"
  /\ UNCHANGED <<inputVars, queueVars, turnVars, task, resultVars>>

\* The finally block releases the mutex, then the queue is checked again.
LeaveRun ==
  /\ phase = "flush"
  /\ phase' = IF ~QueueEmpty THEN "entry"
              ELSE IF inputClosed THEN "done" ELSE "idle"
  /\ UNCHANGED <<inputVars, queueVars, turnVars, task, resultVars>>

\* A turn throws: an error result is written and the process shuts down.
RunThrows ==
  /\ phase = "turn"
  /\ phase' = "done"
  /\ taken' = {}
  /\ aborted' = FALSE
  /\ late' = {}
  /\ output' = Append(output, ThisResult)
  /\ dropped' = dropped \union PromptsOf(held)
  /\ held' = << >>
  /\ UNCHANGED <<inputVars, queueVars, turn, seen, task>>

-----------------------------------------------------------------------------
(* Background tasks *)

StartTask(t) ==
  /\ phase = "turn"
  /\ task[t] = "none"
  /\ task' = [task EXCEPT ![t] = "running"]
  /\ UNCHANGED <<inputVars, queueVars, phase, turnVars, resultVars>>

\* Completed or failed: the status and the notification in one step.
TaskEnds(t) ==
  /\ phase # "done"
  /\ task[t] = "running"
  /\ task' = [task EXCEPT ![t] = "over"]
  /\ notices' = notices + 1
  /\ UNCHANGED <<inputVars, queued, phase, turnVars, resultVars>>

\* stopTask(), called by the TaskStop tool or by a stop_task request: a shell
\* is marked as notified, an agent is left to notify when it has unwound.
StopTask(t) ==
  /\ phase # "done"
  /\ task[t] = "running"
  /\ task' = [task EXCEPT ![t] = IF t \in Shells THEN "over" ELSE "killed"]
  /\ UNCHANGED <<inputVars, queueVars, phase, turnVars, resultVars>>

AgentUnwinds(t) ==
  /\ phase # "done"
  /\ task[t] = "killed"
  /\ task' = [task EXCEPT ![t] = "over"]
  /\ notices' = notices + 1
  /\ UNCHANGED <<inputVars, queued, phase, turnVars, resultVars>>

-----------------------------------------------------------------------------

Reader == ReadPrompt \/ ReadInterrupt
Turn == StartTurn \/ OpenGate \/ (\E sleepRan \in BOOLEAN : Consume(sleepRan)) \/ EndTurn
Run == EnterRun \/ Turn \/ Wait \/ Wake \/ EmitHeld \/ LeaveRun
Background == \E t \in Tasks : StartTask(t) \/ TaskEnds(t) \/ StopTask(t) \/ AgentUnwinds(t)

Next ==
  \/ SendPrompt
  \/ SendInterrupt
  \/ CloseInput
  \/ Reader
  \/ Run
  \/ RunThrows
  \/ Background

Spec == Init /\ [][Next]_vars

\* The event loop runs whatever is ready.  A turn ends (the model stops
\* calling tools, or the API gives up), however often it looks at the queue;
\* a background task completes or, killed, unwinds.
Fairness ==
  /\ WF_vars(Reader)
  /\ WF_vars(EnterRun) /\ WF_vars(StartTurn)
  /\ WF_vars(\E sleepRan \in BOOLEAN : Consume(sleepRan))
  /\ SF_vars(EndTurn)
  /\ WF_vars(Wait) /\ WF_vars(Wake) /\ WF_vars(EmitHeld) /\ WF_vars(LeaveRun)
  /\ \A t \in Tasks : WF_vars(TaskEnds(t)) /\ WF_vars(AgentUnwinds(t))

FairSpec == Spec /\ Fairness

-----------------------------------------------------------------------------
(* Properties *)

OnWire == {p \in Prompts : \E i \in DOMAIN wire : wire[i] = p}
Places == <<OnWire, queued, taken, PromptsOf(held), PromptsOf(output), dropped>>

\* However prompts are batched, attached to a running turn, held back or
\* dropped with a superseded result, each of them is in exactly one place:
\* none is lost and none is given to two turns (drainCommandQueue() and the
\* mid-turn drain of query.ts both empty the queue).
EveryPromptOnce ==
  /\ UNION {Places[i] : i \in DOMAIN Places} = 1..sent
  /\ \A i, j \in DOMAIN Places : i # j => Places[i] \intersect Places[j] = {}
  /\ \A i, j \in DOMAIN output : i # j => output[i].prompts \intersect output[j].prompts = {}

\* run() never goes idle over a prompt that arrived while it was on its way
\* out, over a result it still holds, or over a running background task.
IdleIsDrained ==
  phase = "idle" => queued = {} /\ held = << >> /\ Running(Tasks) = {}

\* Results come out in the order of the turns: a held result is never
\* emitted after that of a later turn.
ResultsInOrder ==
  \A i, j \in DOMAIN (output \o held) :
    i < j => (output \o held)[i].turn < (output \o held)[j].turn

\* However prompts are batched, attached to a running turn, held back or
\* superseded, they are settled in the order they were sent and once each,
\* and by results in the order of the turns: the loop implements PromptService
\* (print.ts:1931 batches what is queued, print.ts:2213 holds a result back,
\* query.ts:1574 hands what is queued to the running turn).
Service == INSTANCE PromptService WITH settled <- PromptsOf(output) \union dropped,
                                       answers <- output
SettlesInOrder == Service!Spec

\* A prompt read after the interrupt of the current turn is left for the next
\* turn: the interrupted one never takes it, although its mid-turn drain may
\* be under way when the interrupt arrives.
InterruptedTurnTakesNoMore == aborted => taken \intersect late = {}

\* Every prompt read is answered, by a result of its own turn or a later one.
PromptHandled ==
  \A p \in Prompts :
    p \in queued ~> (p \in PromptsOf(output) \union dropped \/ phase = "done")
=============================================================================
