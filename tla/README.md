# Elio_Agent in TLA+

Elio is an agent that lives in time slices. A server (`src/src/server`) runs a heartbeat; at
every beat `MainLoop.step()` interrupts the turn in progress and presents a *worldview* to a CLI
process over a line protocol. The CLI (`src/src/cli/print.ts`, `src/src/query.ts`) runs the
model's turns, their tools and its background agents, and writes one result per turn. Inside the
CLI a memory (`src/src/elio/memory`) captures every message as an event and enriches it later. The
CLI's lines come back to the server over a WebSocket that reconnects (`src/src/cli/transports`); the
agents of a team share a list of tasks in files (`src/src/utils/tasks.ts`); and the server starts
further CLIs on a schedule (`src/src/server/services/cronScheduler.ts`).

This directory holds TLA+ modules of those parts, the configurations with which TLC checks them on
small instances, and theorems that TLAPS proves for every value of the constants. Paths below are
relative to the repository; `print.ts` is `src/src/cli/print.ts`, and so on.

- [1 The system](#1-the-system): the inventory
- [2 The modules](#2-the-modules): how state and actions correspond to the code
- [3 The runs](#3-the-runs): what each shows, bounds, fairness
- [4 What disagrees with the documentation](#4-what-disagrees-with-the-documentation)
- [5 The proofs](#5-the-proofs)
- [6 What is not covered](#6-what-is-not-covered)
- [7 The plan](#7-the-plan)

## 1 The system

All of the modelled code is TypeScript on an event loop: a handler runs without interruption up to
its next `await` (or, in a generator, `yield`). Concurrency is therefore the interleaving of such
stretches, of timers, and of three kinds of processes: the server, one CLI per session, and what
the CLI spawns.

| Component | State | Operations | Talks to |
|---|---|---|---|
| `MainLoop.ts`, `heartbeatService.ts`, `WorldviewBuffer.ts` | flags `processing`, `starting`, `expectStaleResult`; two timers; the percept buffer and a ring of the last slices | `step()` at every beat, `onOutput()`, timers, `shutdown()`; `push()` by `ws/handler.ts` | ConversationService (calls, callbacks) |
| `conversationService.ts` | the map from session ids to sessions, deleted ids, per session the process, the socket, waiting messages, callbacks | `startSession()`, exit handler, stop, delete, socket attach/detach, `sendSdkMessage()` | CLI processes (pipes, socket), file system |
| `ws/handler.ts` | per client session: startup promise, runtime version, stop request, prewarm state | messages of desktop and chat clients; restarts on a change of model or permissions | ConversationService |
| `print.ts`: `run()` and the reader; `messageQueueManager.ts` | the mutex `running`, the command queue, the turn's abort controller, `heldBackResult` | reading one line of input, draining the queue, waiting for tasks, leaving | the server (wire), `query.ts`, tasks |
| `query.ts`, `StreamingToolExecutor.ts` | the tools of the current reply with status and results; the abort signal | `addTool()`, `processQueue()`, `executeTool()`, `getCompletedResults()`, `getRemainingResults()`, `discard()` | tools, `run()` |
| tasks (`agentToolUtils.ts`, `stopTask.ts`, `LocalShellTask.tsx`) | status and `notified` of each background task | start, end, stop, unwind | the command queue |
| `elio/memory` | event graph, inverted index, the slow path's queue and retry counts, three files | capture, `tick()`, `saveAll()`, load | the language model, the prompt (`ContextBridge`) |
| `cli/transports/WebSocketTransport.ts` | the connection, one reconnection timer, a circular buffer of messages, ping and pong | `write()`, connect, close, ping, reconnect, replay | the server (`handleSdkPayload()`) |
| `utils/tasks.ts` | one file per task, a high water mark, lock files; shared by several CLIs | create, update, claim, block, delete, reset, unassign | the task tools, `inProcessRunner.ts`, other CLIs |
| `server/services/cronService.ts`, `cronScheduler.ts` | the file of scheduled tasks, the log of runs, per server `runningTasks` and the minute last fired for each task | `tick()`, run now, `executeTask()` with its timer, cleanup at the start | CLI processes, the file system |
| `utils/cronScheduler.ts` | a file of tasks, a lock among sessions | check, fire, catch up on missed tasks | the command queue |
| `utils/teammateMailbox.ts` | an inbox file per agent under a lock file | append, mark as read | other CLIs |
| `adapters/common` | a socket per chat, handler queues, message buffers, seen ids | connect, reconnect, enqueue, flush | the server |

The rest (providers, proxies, OAuth, settings, session files, compaction, tools, commands, plugins,
speech, the terminal and desktop interfaces) is configuration, data or rendering; PROJECT.json
lists each with the reason why it is not modelled.

What is hard in each of them, and what therefore has to be shown:

- **MainLoop** infers the CLI's state. A result carries no name of the turn it ends; the session can
  vanish during any await; the heartbeat, two timers and the timers they left behind write the same flags. To
  show: what becomes of a percept when its worldview is lost, no flag outlives its timer, results are
  attributed to the right turn.
- **ConversationService** asks its map by id after every await and may find another session than
  the one it began with; it does not know which connection closes, nor whether one that is open still
  works. To show: an exit is reported once, messages go in order and to no other process over
  reconnections, a dead session leaves the map, a deleted one stays down.
- **The turn loop** is two asynchronous tasks on one queue. To show: no prompt is lost or handled
  twice, idle means drained, results are in order, an interrupted turn takes no more input.
- **The executor** runs several `processQueue()` walks over one list of tools. To show: exclusive
  tools are alone and not overtaken, every `tool_use` is answered once, a tool's own error stands,
  the turn does not hang.
- **The memory** overlaps its ticks, retries, and is killed without notice. To show: no event or
  link is lost or renumbered, finished work stays on disk, an event has one worker and a bounded number
  of tries, every queued event is settled.
- **The transport** replaces connections while old ones still deliver. To show: only an overflow of
  the buffer loses a message, one reconnection is under way at a time, what is in the buffer arrives.
- **The task list** is files that several processes read before they lock them. To show: when an id
  is given twice, that changes of different fields do not undo each other, and that a task is claimed by
  one agent, wherever a process dies.
- **The cron scheduler** looks before it awaits and acts after, on files it rewrites whole, and it
  restarts. To show: a task fires once a minute, which runs can have processes beside each other, and
  a process that hangs is killed.
- **The CLI's scheduler, the mailbox, the chat adapters** (not modelled): several processes, and
  reconnection against pending handlers and buffers.

PROJECT.json, `hazards`, lists these at the lines where they bite, with the properties that would
catch them.

## 2 The modules

| Module | Extends or instantiates | Models |
|---|---|---|
| `MainLoop` | | `MainLoop.ts`, `heartbeatService.ts`, `WorldviewBuffer.ts` |
| `TurnLoop` | | `run()` and the reader of `print.ts`, `messageQueueManager.ts`, the mid-turn drain of `query.ts`, tasks |
| `PromptService` | | abstract: what the CLI promises whoever sends it prompts; `TurnLoop` implements it |
| `ElioTurns` | extends `MainLoop`, instantiates `TurnLoop` | both together over the wire |
| `StreamingToolExecutor` | | `StreamingToolExecutor.ts` as `query.ts` drives it |
| `ToolService` | | abstract: how tools are served; `StreamingToolExecutor` implements it |
| `ConversationService` | | one session id of `conversationService.ts` |
| `SessionPort` | | abstract: what the users of a session are promised; `ConversationService` implements it |
| `Memory` | | `elio/memory` of one CLI and its directory |
| `EventLog` | | abstract: what the readers of that directory are promised; `Memory` implements it |
| `WebSocketTransport` | | `WebSocketTransport.ts` on Bun and the server's `handleSdkPayload()` |
| `MessageChannel` | | abstract: what arrives of what a CLI writes; `WebSocketTransport` implements it |
| `TaskList` | | `utils/tasks.ts` and its callers |
| `CronScheduler` | | `server/services/cronScheduler.ts` and `cronService.ts` |
| `MC*` | each of the above | model values and definitions for TLC |
| `*Proofs` | each its module | theorems; `MainLoopProofs` has those of `MainLoop` and of `ElioTurns` |

Some operators are variants of another, X, with a plausible bug (a comment or the name says so); no
specification uses them. They serve to see that a property can fail: replacing X by the variant
makes TLC find the property violated (PROJECT.json, `mutants`).

### MainLoop

The variables carry the names of the fields. `boot` is where the `step()` that awaits
`startSession()` stands (before the spawn, in the grace period). A timer is the number of ticks it
has left; time does not pass over an expired timer. `orphanTimers` are stale-result timers whose
handle was overwritten without being cleared: they still fire.

One action per handler: the three ways `step()` goes, the spawn, the two ways the awaited start
ends and its retry over a stale lock, `onOutput()`, the timers, `shutdown()`. `Slice` is what
`step()` does without awaiting: interrupt, drain the buffer and commit the slice to the ring, send.
The session is what MainLoop sees of it: it may exit, be stopped or be started by others. Speech,
`lastElioOutput` and all of the worldview's text but its percepts guard no control and are left out.

A worldview (`Presented`) is the set of what it shows: the percepts just drained with their text, and
those of the ring as `commitSlice()` keeps them, cut to 80 characters (`WorldviewBuffer.ts:59`). A
percept in `Long` has only its gist left there. `Hand` is `sendSdkMessage()`, which returns true whenever
there is a session: without a socket the worldview goes to `outbound` (`pendingOutbound`) and dies with
the session unless the CLI connects before; a socket whose connection is dead swallows it; only an open
one delivers it. `told` is what was delivered, and `lost` counts the worldviews that were not and will
not be.

### TurnLoop

`phase` is the await at which `run()` stands; `wire` what the server has written and the reader not
yet read; the queue is a set of prompts and a count of notifications, because whoever takes prompts
takes all it sees (all have one priority and none is a slash command, as Elio's worldviews).
`OpenGate` and `Consume` are the two halves of the mid-turn drain, before and after its awaits.
`held` is `heldBackResult`. A background agent that is stopped is `killed` until its error handler
has enqueued its notification. Not modelled here: slash commands, suggestions, cron prompts, the
polling of a team lead, and control requests other than interrupt, stop_task and end of input.

`PromptService` is what all this amounts to for the sender: prompts sent, settled (answered, or
superseded with a result that is not given), turns begun, answers. Held results, interrupts and queues
are gone from it. Under the mapping a prompt is settled when its result is emitted or replaced, a turn
begins when `StartTurn` does, and every other step stutters.

### ElioTurns

The composition adds the CLI to MainLoop: a slice writes an interrupt, if `processing`, and then a
worldview on `TurnLoop`'s wire; `Deliver` gives the next result to `onOutput()`; percepts, timers and
the bootstrap are `MainLoop`'s own actions, and the reader and `run()` are `TurnLoop`'s. The CLI lives
once and has no background tasks.
There are two specifications. `ElioSpec` leaves the two sides as fast as they like. `PromptSpec` adds the
assumption under which the code's protocol works: within one tick the CLI starts a turn that is
called for and winds up one that is interrupted (`Settled`). A turn nobody interrupts may take as
long as it likes. Without the assumption the flags and the CLI part ways (section 4), but worldviews are
still settled in order (section 5).

### StreamingToolExecutor

`scans[p]` counts the `processQueue()` calls that look at tool `p` next: each awaits after every tool
it starts, and every completion calls it anew. `walk` is the one call that
`getRemainingResults()` awaits, `cursor` the position of the generator `getCompletedResults()`, which
the consumer may leave suspended between two results. `abort` keeps *why* the turn was aborted: a
submitted message uses the reason `'interrupt'`, an interrupt request does not. Left out: progress
messages and context modifiers. The kinds of the tools of a reply are a variable that never changes,
so that one run checks several replies (`Replies` in the MC module).

What the model has and a reader may not expect: results are given out as their tools complete, the
comment at line 38 ("emitted in the order tools were received") notwithstanding; a result followed by hook messages can be
answered a second time when a sibling's error comes in between, which the message normalisation
(`utils/messages.ts:5452`) removes later; a `tool_use` that streams in after an abort is never added.

`ToolService` is the turn's side: a readers-writers lock on the workspace, first come first served, and
one answer of each tool taken before the turn goes on. A tool begins when its status leaves `queued` and
has ended when it is `completed`; a fallback abandons the turn. Walks, polls and what cancels a tool are
gone: an aborted tool ends as it begins.

### ConversationService

The awaits of `startSession()` are the program counter `pc` of its callers, those of the exit handler
the state `exit` of the process. Sessions are numbered by their spawn; the map holds one number.
`process` is what the operating system knows. A connection has two ends: `connected` is the CLI's, which
works or not, and `attached` the server's, `sdkSocket`: none, the working one, or one that is dead.
`closing` counts the connections whose `close()` the server has not been called for yet, rejected ones
among them. `Break` and `Exit` end a connection and lose what is on its way (`flying`); `Disconnect`, later
or never, is the event, which detaches the *current* session's socket whosever connection it was: a
late one detaches a socket that works, and messages wait until the CLI connects again. `SendSdkMessage`
accepts a message in any case; written to a dead socket it is lost. Stopping, deleting and its undo, and
the two places that remove the entry of the id *whosever it is by then* are as in the code. Left out:
contents, output callbacks, permission requests, `requestControl()`.

`SessionPort` is the users' side: lives of the session, the one that takes messages, what was accepted,
waits, is on its way and arrived, which wires are cut without the server's notice, what was reported. It
says when a message may be lost: one that waits with its life only, one on its way by a cut, one being
accepted only while a cut is unnoticed. The mapping: a life is a spawn, `open` is the entry of the map, a
life is gone when its process has exited, a wire is cut when the attached socket is dead, and an exit is
reported when the startup throws or the exit handler tells the callbacks.

### Memory

`events`, `temporal`, `inferred` and `index` are the graph and the index in memory, `disk` the three
files (`indexSaved` tells a written index from a missing one). `ticks[t]` is what tick `t` of the
slow path waits for: its backoff, the narrative, the edges. `Process` is the whole of
`FastPath.process()`, which writes to memory and appends to the files at once; `Succeed` includes the
save. `Crash` forgets everything but the directory, and `Restart` is the constructors: the counter
goes on from the number of events loaded, the chain from the latest one, nothing is queued again.

An event is its number, its narrative one of three grades (missing, without entities, with
entities), because those decide what a retry asks for. Keywords and the ranking of the traversal are
left out. Assumed: one CLI per directory, a clock that does not go back (the latest event by
timestamp is the one with the highest number), no kill within a synchronous write. Two facts met while
modelling, both in the model: the test of the retry budget at the start of `tick()` never holds, since
a count that reaches `maxRetries` is deleted where it is counted; and `enqueueAll()` has no caller, so
that events still queued at a kill are never enriched.

`EventLog` is the reader's side of the directory: a log that grows by one linked event at a time, whose
entries only gain, and are finished once. A kill, a restart, a retry and a save that brings nothing new
are stuttering steps of it.

### WebSocketTransport

`state` is the transport's; `socket` is `this.ws` and says, beyond the code, whether a connection that
looks open is dead. Each connection has a wire of its own. Lines on it arrive in order or, once it is
given up or dead, not at all; those of the old connection may arrive after the first ones of the new
one, because the server reads both. `Open` sends the whole buffer again, as Bun's branch does;
`Write(FALSE)` is a message without a `uuid`, which is not kept. A send that fails inside the replay is
handled twice, by `sendLine()` and by the replay, and so are a close event and a ping without a pong;
`Rearmed` is what becomes of the timer then. `twice` is a history of the messages the server handed out
more than once. Left out: the way to the CLI (`ConversationService` has it), the lengths of delays, and
sessions the server no longer knows.

`MessageChannel` is the server's side: messages come for the first time in the order they were written,
without a gap but for what left the window (the buffer), and come again only if they are kept. `lasting`
is a history of the messages with a `uuid`. Connections are not in it: one that fails, opens or swallows
a line is a stuttering step.

### TaskList

A caller is an agent with one call under way; `pc` is the file operation it does next. `form` tells an
absent, a truncated and a whole file apart, because a write truncates first and readers hold no lock;
`mark` is the high water mark. `work[c]` is the list of changes a call still has to make: a change
names the fields it sets, and `Write` replaces just those in what was read under the lock, as
`updateTaskUnsafe()` does. What a change *sets* was mostly read before the lock; `TaskUpdate`,
`BlockTask`, `Unassign` and `References` compute it when the call begins. `Die` ends a call anywhere and
stands also for the breaking of its locks, which are stale some time later.

`listTasks()` is one step, and so are the checks made under a lock. A lock that is broken while its
holder lives is left out. Three histories serve the properties: `meant` is the value last written to
each field on purpose; `twice` the ids given more than once; `raced` is an episode: it begins when a
deletion, which writes its mark without the list's lock (`tasks.ts:403`), overlaps another call that
numbers, and ends (`Settles`) as soon as nobody numbers and every id ever given is again at most the mark
or at most some file.

### CronScheduler

`tasks` is `scheduled_tasks.json`: enabled or not, and the minute stamped in it. Every writer reads all
of it and writes all of it without a lock, so that a stamp can be put back. Servers start, die and
start again; what one remembers, `key` (`lastFiredMinuteKey`) and `running` (`runningTasks`), dies with
it. A call of `executeTask()` has a `pc` for its awaits; `run` is the process it spawned and `calls` the
bookkeeping around it. A tick fires all tasks that are due, each as a call of its own.

Of the log there are the runs it has as running. It is written through a temporary file: `stem` is the
name a writer uses, which two writers share when they come within one millisecond. The second rename then
finds nothing; and the first one moves a file that the second writer may not have written to its end, so
that readers meet a torn log (`Torn`) until it has, or for good if it dies (`damaged`). `Sweep`
(`cleanupStaleRuns()`) writes only if it finds a run that is older than `StaleAfter`.

`tangled` is a history, kept for each run: runs of one task where one was begun while the other had not
come to its spawn; the run whose entry in `runningTasks` the handler of another's failed update took out;
and a run that is begun beside a process of such a run. Minutes are calendar minutes; which tasks are due
in which minute is the constant `Schedule`.

## 3 The runs

| Run | Checks | Distinct states | Time |
|---|---|---|---|
| `mainloop` | percepts, flags, work timer; each percept is presented | 611,729 | 43 s |
| `turn_loop` | prompts, idle, interrupts; implements `PromptService`; each prompt is handled | 231,447 | 36 s |
| `elio_turns` | MainLoop's view is the CLI's; only the newest worldview's result clears `processing` | 1,589 | 1 s |
| `executor` | exclusive tools, errors, one answer each; implements `ToolService`; the turn does not hang | 428,341 | 37 s |
| `conversation` | exits reported once; implements `SessionPort`; dead sessions leave | 1,195,390 | 2 min |
| `conversation_deleted` | *violated:* a deleted session is not started | ~40 | 1 s |
| `memory` | events, saved work; implements `EventLog`; queued events are settled | 286,568 | 47 s |
| `transport` | reconnections; implements `MessageChannel`; what is buffered arrives | 161,768 | 18 s |
| `transport_once` | *violated:* no message reaches the callbacks twice | ~2,100 | 1 s |
| `task_list` | ids given again only during an overlap; fields, claims | 1,388,500 | 40 s |
| `cron` | one firing a minute; whose processes can live beside each other; a process that hangs is killed | 656,988 | 1 min |
| `cron_start` | *violated:* all tasks of a tick start | ~680 | 1 s |

### Bounds, and why they are enough

- `mainloop`: two percepts (one in the buffer while the other is in the ring), one of them longer than 80
  characters, a ring of two, two lost sessions (with what waits
  for them) beside any number of dead connections, and three worldviews that wait while time passes (`MaxWaiting`; more than the ring
  holds). `lost` is counted up to the size of the ring, where all that depends on it is decided. `Period = 3`, `StaleTimeout = 2`,
  `WorkTimeout = 5` keep the order of the code's 30 s, 5 s and 120 s, so that a stale timer expires
  between beats and the work timer does not. No symmetry, since a liveness property is checked.
- `turn_loop`: three prompts (one in a turn, one seen by the drain, one that comes between), two
  messages on the wire (an interrupt before or after a prompt), two agents (a result held for one is
  superseded while the other runs) and a shell (which `run()` waits for, a result does not).
- `elio_turns`: eight worldviews, so that every combination of finished and interrupted turns of a few
  beats occurs, and one percept. No background tasks: a notification makes a turn MainLoop knows nothing of, and its result is taken
  for the answer to a worldview. That is the code's behaviour, not checked as a property.
- `executor`: three tools (one between two others, several walks at once, a failing sibling) in four
  replies in which all six kinds of tools occur and the kinds that differ in what they do to each other
  meet in both orders.
- `conversation`: two callers, two processes, two messages: enough for an overlap of two starts and a
  process older than the current one. Two connections that the server has open at a time: one that is
  over and not yet closed, beside the one that replaced it.
- `memory`: three messages, two overlapping ticks, two tries, one kill: an event in work with each
  tick and one queued, a failure after either answer, and a capture before and after the restart.
- `transport`: a buffer of two and four messages, so that it overflows with a message sent and one not;
  two failures, hence three connections, of which two deliver at once and one fails in its replay.
- `task_list`: three callers (two that race and one that deletes or resets beside them), two tasks with
  a third created, three calls. A reset or a deletion followed by a creation is already two, and the
  mutants show that lost marks and lost locks are found. The callers are alike, and no liveness is
  checked, so that symmetry is sound.
- `cron`: one server that dies and comes back, one task that recurs and one that does not, one due in
  the first minute and both in the second; two runs and one request to run a task now. `StaleAfter = 0`,
  so that a run of the first minute is stale in the second (the code's 10 minutes would need as many). The
  proofs cover several servers. `cron_start` has two tasks due at minute 0, no time that passes and the
  code's own threshold: the cleanup finds nothing and does not write.

`CHECK_DEADLOCK FALSE` is given where the system really may stop: a turn loop that is done, a turn
that has finished, a wire bound that is used up, a memory with nothing to do and no life left, a
transport that is closed, a list on which all calls are made, a scheduler whose minutes are over.

### Fairness

Weak fairness is assumed of what the event loop owes: a timer that has expired runs its callback,
`setInterval` fires again, an await whose condition holds is resumed. Each is an action that stays
enabled until it is taken. Beyond that:

- `TurnLoop`: strong fairness of `EndTurn`. A turn ends because the model stops calling tools or the
  API gives up, however often the turn looks at the queue meanwhile (each look disables `EndTurn`
  until its attachments are there). Background tasks end; a killed agent unwinds.
- `StreamingToolExecutor`: a tool that runs comes to a result and ends; the turn takes the results it is offered.
- `ConversationService`: awaits of the start and of the exit handler come back; nothing makes a
  process exit, a client stop or a socket connect.
- `Memory`: the interval goes on; a request to the model is answered or fails by its own timeout. That
  it *succeeds* is not assumed: a request may fail every time, and `Settled` then rests on the count of
  tries.
- `MainLoop`: results, percepts, losses and connections owe nothing. `PerceptPresented` has a premise
  instead, that no session stays without its CLI (`[]<>(~session \/ socket = "open")`): without it a
  worldview may wait for ever. That there is a session is left to MainLoop.
- `WebSocketTransport`: the reconnection timer fires, a connection that is asked for opens or fails, a
  ping of a dead connection goes unanswered and its timer fires, lines of every connection arrive.
  Failures are bounded; that the transport gives up for good is allowed and excepted in the property.
- `CronScheduler`: the timer of a run fires, and a process that has been killed exits. Nothing makes a
  process end by itself.
- `TaskList`: no liveness is claimed; a call may give up when a lock stays taken.

### The properties that took thought

- `NoPerceptLost`. `buildWorldview()` empties the buffer before `step()` knows whether it can send, and a
  send that succeeds may only have queued the worldview or written it to a dead socket. The ring shows the
  last slices again, in 80 characters; so a percept is forgotten altogether only after `RingSize` lost
  worldviews, but the rest of a long text with the first.
- `WorkTimeoutNeedsLostSession`. Every slice re-arms the work timer and beats come four times as
  often as it expires: without a lost session it never expires, so it cannot give up a turn that hangs.
- `EveryPromptOnce`, `InterruptedTurnTakesNoMore`. Two consumers empty the queue, one of them after an
  await, while an interrupt may come in between.
- `SettlesInOrder`. The one held result is superseded by the next turn's, while prompts lie on the wire,
  in the queue, with the drain and with the turn: none may be settled before one that was sent earlier,
  or twice. This is stronger than the order of the results (`ResultsInOrder`).
- `ViewsAgree`, `StaleResultAbsorbed`. The whole of MainLoop's inference, under `PromptSpec`.
- `ServesTools`, `Exclusive`. They hold although any number of walks interleave, because a walk
  that looks at tool `p` has seen everything before `p` started. `ServesTools` says of every step which
  tool it may begin and when; it includes the order of starts (`StartedInOrder`).
- `AllAnswered`, `Drained`. `getRemainingResults()` waits only while a tool executes and none has
  completed; nothing may be left queued, and no walk may start a tool after the turn has gone on.
- `ReportedOnce`. The startup and the exit handler split the exits between them by one flag.
- `ServesSession`. Handlers look the session up by id after every await; still a message must go to the
  process it was accepted for, after those accepted before it and never to a later process. What waits is
  not lost while its process lives, however many connections come, break and close late; what is written
  is lost by a broken connection only.
- `NothingForgotten`. The next number is the *count* of the events loaded: right only because the
  numbers in the file have no gap.
- `DoneIsSaved`. Each save rewrites the files from memory; an overlapping tick's save must not write
  back an older state.
- `KeepsLog`. The same for what is not finished: an event in work may be written half-enriched by
  another tick's save, and no later save, retry or kill may take that back. It includes the chain
  (`OneChain`).
- `CarriesMessages`. A message that was written to a dying connection, or never sent, comes with the
  replay as long as the buffer still has it, also when the replay itself fails (`GapsOnlyByOverflow`,
  which it includes). A message without a `uuid` comes once or not at all: no replay may repeat it.
- `OneAttempt`. Close events, pings and both handlers of a failing send may ask for a reconnection; each
  replaces the timer of the one before, and a late event of an old connection does nothing.
- `IdsFresh`. The mark, the files and the moment of a death decide together which ids are known: the
  mark is truncated before it is written, and files are deleted after. The overlap that does give an id
  again (section 4) is excepted for as long as it lasts and leaves ids unprotected, not for ever after.
- `NoFieldUndone`, `ClaimsAreExclusive`. A change is computed before the lock and written under it: it
  must set its own fields only, and look again at what it depends on. Both except the files of ids that
  were given twice, and no others: two tasks in one file undo each other. Neither speaks of what a writer
  read before the lock: a list of blockers made from an older one is what its writer meant (section 4).
- `OncePerMinute`. The stamp in the file can be put back by whoever read the file earlier; the key in
  the server's memory must make good for it.
- `OneProcess`, `HungIsKilled`. `runningTasks` and the timers are looked up by the task, not by the run. That
  two runs of a task can both get past the guard is a fact (section 4); these properties bound its
  consequences to the runs concerned, which `tangled` names one by one. A run that begins when they are
  over, or that no other overlapped, is alone and has its timer.

## 4 What disagrees with the documentation

1. `conversation_deleted`: the last look at the deleted ids is before three awaits
   (`conversationService.ts:195`, spawn at 319), against `conversations.test.ts:52`.
2. `transport_once`: the whole buffer is sent again at a reconnection, and
   `WebSocketTransport.ts:204` says "The server deduplicates by UUID." `handleSdkPayload()`
   (`conversationService.ts:756`) looks at no uuid: results and messages already seen reach MainLoop
   and the clients again.
3. `cron_start`: two tasks of one tick that append to the log in one millisecond share a temporary file
   (`cronScheduler.ts:200` names it by `Date.now()` alone). The second rename throws before the spawn,
   and the task is skipped for this minute, against `cronScheduler.ts:413`: "we want all matching tasks
   to start".

Also seen, without a run of their own:

- A background agent stopped by `stop_task` stops counting as running at once (`stopTask.ts:67`) but
  enqueues its notification later, when `run()` may be idle; nothing calls `run()` then, although
  `print.ts:2355` says the loop re-drains. (`TurnLoop`: `StopTask`, `AgentUnwinds`.)
- An interrupt read before the first turn has a controller aborts nothing (`print.ts:2830`): two
  worldviews share a turn, its one result is absorbed as stale and `processing` stays set, against
  `MainLoop.ts:37`. (`ElioTurns` without `Settled`.)
- `MainLoop.ts:78` says that running tools survive the interrupt; an interrupt request aborts without
  the reason `'interrupt'` that would spare them (`print.ts:2831`). (`StreamingToolExecutor`:
  `Interrupt("request")`.)
- `WorldviewBuffer.ts:7` says that a tick stores all percepts in the ring of the last slices; the ring
  holds the first 80 characters of each (line 59). After a worldview that was lost the next ones show no
  more than that. (`MainLoop`: `Gist`, `NoPerceptLost`.)
- `step()` logs "Worldview sent" (`MainLoop.ts:103`) and sets `processing` when the worldview only waits in
  `pendingOutbound` or was written to a socket whose connection is dead (`conversationService.ts:933`): it
  may die with the process, and no result comes. The branch for a failed send (line 96) is reached only
  without a session. (`MainLoop`: `Hand`.)
- `tasks.ts:143` and `:400` say that the mark prevents the reuse of ids. `createTask()` holds the list's lock,
  `deleteTask()` does not: a creation reads the mark, 0, beside files 1 and 2 (272-274); a deletion of task 2
  writes mark 2 and unlinks the file (403-411); the creation's listing then has file 1 only, and task 2 is
  given again. Likewise two deletions may read one mark, and the one of the smaller id write last: the mark
  falls below an id whose file is gone. (`TaskList`: `raced`, which `IdsFresh` excepts.)
- `cronScheduler.ts:433` says "Prevent concurrent executions of the same task". `runningTasks` is looked at in
  line 434 and set after the spawn (527), with two files written in between: two requests to run a task
  now, or a request and a tick, both get past and the task has two processes. The end of either takes out
  the entry, whosever it is, and the other's timer finds nothing to kill. (`CronScheduler`: `Beside`,
  `tangled`, which `OneProcess` and `HungIsKilled` except.)
- `cronScheduler.ts:403` and `:487` have `lastFiredAt` in the file keep another process from firing a task in
  the same minute. Two servers whose ticks both read the file (`TickList`) before either stamps it both fire;
  and the file is read and written again without a lock, so that a run of another task may put the old
  stamp back. So, too, for a server that restarts within the minute. (`CronScheduler`: `StampRead`,
  `StampWrite`, `Die`; `OncePerMinute` speaks of one life of a server.)
- The memory section of the prompt, described in README.md:193-198 as refreshed on demand, is memoized
  (`prompts.ts:535`). Not modelled.
- `blockTask()` and `deleteTask()` write lists of blockers read before the lock (`tasks.ts:458`): of two
  blockers added at once one is lost, and the task can start before it is done, against
  `TaskUpdateTool/prompt.ts:39`. (`TaskList`: `BlockTask`, `References`.)
- Overlapping starts of one session id orphan the first process (`conversationService.ts:319`); the exit
  handler and the failed start remove an entry that may be a later session's (351, 981); a rejected or
  old connection detaches the current session's socket (681). (`ConversationService` does so too.)
- The default memory directory is `.elio/memory` in the working directory, while `MemoryAgent.ts:26`
  names the home directory.

## 5 The proofs

Every theorem holds for all values of the constants that the assumptions allow. Most are `Spec => []P`,
two are action properties (`ExclusiveClaims`, `StaleNeverClears`), and seven say that one specification
implements another. Each module's proofs have one inductive invariant or a few that build on each other;
one lemma or step per action; the last step is propositional temporal logic. A refinement has the initial
state first, then one lemma per action of the detailed specification, which names the abstract action it
is or shows that the mapped variables do not change.

| Module | Theorem | Shows |
|---|---|---|
| `MainLoopProofs` | `TypeCorrect` | types; the ring never exceeds `RingSize` |
| | `FlagsTimed` | `FlagsAreTimed` |
| | `WorkTimeoutNeverFires` | `WorkTimeoutNeedsLostSession` |
| | `PerceptsSurvive` | `NoPerceptLost` |
| | `ElioImplementsMainLoop` | `ElioSpec => Spec`: MainLoop beside the CLI keeps all of the above |
| | `FlagsTellTheTurn`, `StaleNeverClears` | `ViewsAgree`, `StaleResultAbsorbed` under `PromptSpec` |
| | `WorldviewsSettledInOrder` | `ElioSpec => Cli!SettlesInOrder`: the composition implements `PromptService` |
| `TurnLoopProofs` | `TypeCorrect` | types |
| | `EveryPromptInOnePlace` | `EveryPromptOnce` |
| | `NothingLeftBehind` | `IdleIsDrained` |
| | `ResultsKeepOrder` | `ResultsInOrder` (no run checks it: `SettlesInOrder` includes it) |
| | `LatePromptsSpared` | `InterruptedTurnTakesNoMore` |
| | `PromptsSettledInOrder` | `SettlesInOrder`: `TurnLoop` implements `PromptService` |
| `StreamingToolExecutorProofs` | `TypeCorrect` | types |
| | `ExclusiveAccess` | `Exclusive` |
| | `NoOvertaking` | `StartedInOrder` (no run checks it: `ServesTools` includes it) |
| | `OwnErrorAnswers`, `EveryToolAnswered` | `OwnErrorStands`, `AllAnswered` |
| | `MessageSparesBlockTools` | `BlockToolsOutliveMessage` (no run checks it) |
| | `ToolsServed` | `ServesTools`: `StreamingToolExecutor` implements `ToolService` |
| `ConversationServiceProofs` | `TypeCorrect` | types |
| | `OneReport` | `ReportedOnce` |
| | `OrderKept` | `MessagesInOrder` (no run checks it: `ServesSession` includes it) |
| | `PortServed` | `ServesSession`: `ConversationService` implements `SessionPort` |
| `MemoryProofs` | `TypeCorrect` | types; no retry count reaches `maxRetries` |
| | `NumbersKept` | `NothingForgotten` |
| | `ChainKept` | `OneChain` (no run checks it: `KeepsLog` includes it) |
| | `WorkKept` | `DoneIsSaved` |
| | `LogKept` | `KeepsLog`: `Memory` implements `EventLog` |
| | `OneAtATime`, `TriesBounded` | `OneWorker`, `RetriesBounded` (no run checks them) |
| `WebSocketTransportProofs` | `TypeCorrect` | types |
| | `OneReconnection` | `OneAttempt` |
| | `NoGaps` | `GapsOnlyByOverflow` (no run checks it: `CarriesMessages` includes it) |
| | `MessagesCarried` | `CarriesMessages`: `WebSocketTransport` implements `MessageChannel` |
| `TaskListProofs` | `TypeCorrect` | types |
| | `FreshIds` | `IdsFresh` |
| | `FieldsKept`, `ExclusiveClaims` | `NoFieldUndone`, `ClaimsAreExclusive` |
| `CronSchedulerProofs` | `TypeCorrect` | types |
| | `OnceAMinute`, `OneAtATime` | `OncePerMinute`, `OneProcess` |

**Assumptions.** `MainLoop`: `RingSize > 0`, `0 < StaleTimeout < Period < WorkTimeout` (the code's
constants), an unarmed timer is no number. `TurnLoop`: no agent is a shell. `Memory`: `MaxRetries > 0`. `StreamingToolExecutor`: what a
kind of tool is. `WebSocketTransport`: `Capacity > 0`. `TaskList`: no caller is called "nobody".
`CronScheduler`: there is a server and a task. All else is that bounds are natural numbers. TLC
evaluates the assumptions in every run.

**Arguments.**

- *MainLoop.* `NoPerceptLost` is not inductive: a percept in the ring is pushed out by later slices, and one
  that waits is lost with its session. `RingInv` strengthens it: a percept that neither the CLI nor one of
  the first m worldviews that wait has shown is in one of the newest slices (`Young`), as many as there are
  worldviews behind those m and, for m = 0, worldviews lost. So whatever prefix of what waits is
  delivered before a connection breaks, the ring still has the rest, as long as fewer than `RingSize` were
  lost. `TextsAreKept` is the same for whole texts before the first loss. `SafetyRearmed` bounds the work timer from below by the time since
  the last beat.
- *Turn loop.* Five invariants, each resting on those before. `Drained` says what `run()` has left
  behind in each phase: no held result and no task outside a turn, and an empty queue when it is idle,
  because the last look at the queue and the release of the mutex are one stretch. `Placed` puts every
  prompt in one place. `Ordered`: the turns of the results written rise, and the held one's is above
  them and not past the turn in progress. `Spared`: prompts that came after an abort are in the queue
  and not in what the turn has looked at; there are none unless the turn is aborted. `Lined` carries the
  refinement: a prompt that is held was sent before those the turn has, these before those in the queue,
  and these before those on the wire; the mid-turn drain, which takes what it saw before its await, saw
  the older part of the queue. `Begun` gives every result a turn that began.
- *MainLoop and CLI.* `ElioImplementsMainLoop` needs no invariant: each step is one of MainLoop's or
  leaves its variables alone. For the views, `Balanced` is the heart: the results MainLoop waits for (one for
  `processing`, one more for `expectStaleResult`) are as many as the CLI owes (those not yet delivered,
  that of the running turn, that of the worldview under way). `Underway` keeps the worldview under way to
  one, the newest, with the turn in front of it aborted; `NewestAsked` says where the newest worldview
  is; `StaleInTime` shows from `Settled` that a stale result is absorbed before any time passes, so that
  the timer of 5 s never runs down; `SessionUp` that the session comes up once.
  `WorldviewsSettledInOrder` assumes nothing of the CLI's speed. It takes the turn loop's invariant and
  lemmas through an instance of `TurnLoopProofs`; they are stated for a sender (`Sends`) that may put an
  interrupt in front of its prompt in one step, as a slice does.
- *Executor.* `Order` adds to both properties that a walk which looks at tool `p` has seen every tool
  before `p` begin, and that absent tools are a suffix. `Answers` says of every list of results that an
  error of the tool's own stands alone. `Accounted` ties the results given to the tools marked
  `yielded`, gives every tool that ended an answer, and lets a finished turn leave no tool in between. `ToolsServed`
  rests on these and on `Polling` (nobody polls once the turn is over); its heart is `WalkAdmits`: the
  tool at which a walk stops, wherever that walk began, is the one a lock that serves in order admits.
- *ConversationService.* `Reports` ties each starter to the process it watches: it is its own, its
  startup is pending, nobody else watches it. `InOrder` adds that all messages of a process are below the
  number accepted so far, those that arrived below those on their way and these below those that wait, and
  that messages wait only while no socket is attached. The refinement adds `Ended` (only the exit of a
  dead process is handled), `Serving` (the map's entry is a spawned session that was not stopped) and `Wired`
  (a live socket is the server's end of a connection that works, to a process that runs, and nothing is
  on its way anywhere else), and shows of every await that its resumption is one step of the port:
  what removes the map's entry closes the port, whosever entry it was.
- *Memory.* `Numbered` (no gap in the file, a running process knows it and goes on where it ended),
  `Chained`, `Captured` and `Stopped` carry the crash and the restart. `Budget` is the heart of
  `RetriesBounded`: the retry count of an event is the number of its failed runs, plus one while a tick
  works on it. `Enriched` is needed for the types: an event with a narrative that comes back has
  neighbours, so that its retry may go straight to the edges. `Remembered` makes `DoneIsSaved` inductive:
  a running process knows of a finished event exactly what the files say, and no tick works on it, so
  every later save writes it again. `Ahead` extends that to the unfinished: what a running process knows
  of an event is what the file says or more, and all edges known are in the file. `Unasked` keeps a full
  narrative from being asked for, and replaced, again.
- *Transport.* `LinkInv`: which sockets go with which states; a timer runs in `reconnecting` without a
  socket only; every attempt but the first is paid for by a failure. `DataInv`: the buffer is increasing;
  while a connection is up, all that is buffered has arrived or is on its wire; and in front of what is
  on any wire, also an old one, nothing is missing that is buffered and older. `OnceInv` adds for
  `MessagesCarried` that a message without a `uuid` is on one wire, once, and then has not arrived.
- *Task list.* `Fresh` says, outside an overlap, that whoever numbers is alone, that each id ever given is
  below the mark or below a file, and what a caller that numbers has seen of it at each of its steps;
  a death anywhere leaves one of the two. That it holds again when an overlap ends is `SettledIsFresh`.
  `Held` is the lock of who writes a task or creates one. `Faithful` says that what a writer read under
  the lock is still what was meant, `Unwritten` that nobody writes a file under creation, both of every
  file whose id was given once: an overlap in the past excuses nothing.
- *Cron.* `OnceInv`: no run that a tick began is of a later minute than the key of its server, so that a
  task whose key is not this minute has no run of this minute, whatever the file says. `AloneInv` is
  stated for each run: `Overlap`, two runs of a task of which each is on its way to a process or has one
  are both tangled; `Entries`, a process is entered in `runningTasks` unless its run is tangled. A failed
  update that takes out an entry tangles the run that had it, so that `Entries` survives; a run that finds
  no entry has only tangled processes beside it, or runs before their spawn, and is tangled with them.

**Only model-checked:** liveness (`PerceptPresented`, `PromptHandled`, `Drained`,
`DeadSessionLeaves`, `Settled`, `BufferedArrives`, `HungIsKilled`), which needs ENABLED and fairness.
Every other property of a run that holds is proved.

## 6 What is not covered

Components without a module are listed in PROJECT.json with the reason. Within the modelled ones:

- a `tool_use` never given to the executor, and the repair of unanswered blocks in later requests;
- output callbacks and `requestControl()` of ConversationService; a callback of MainLoop that belongs to
  a replaced session;
- MainLoop shut down while `startSession()` is awaited;
- MainLoop against several lives of the CLI (`ElioTurns` has one), and against background tasks;
- an interrupt that reaches the CLI before the turn has a controller, for the agreement of the flags
  (`PromptSpec` assumes it away; `TurnLoop` has it);
- two CLIs in one memory directory, and a kill in the middle of `saveAll()`;
- a team lead's polling of its inbox, slash commands, cron prompts, priorities in the queue;
- the transport of Node and the batching uploaders of the remote transports;
- locks of the task list that are broken while their holder lives, and a member that leaves between a
  claim and the change of status that follows it;
- what users write to the scheduled tasks.

## 7 The plan

Order: the most important behaviour first. Done: `MainLoop`, `TurnLoop`, `ElioTurns`,
`StreamingToolExecutor`, `ConversationService`, `Memory`, `WebSocketTransport`, `TaskList`,
`CronScheduler`, proofs about all of them, and the abstract specifications `PromptService`, `SessionPort`,
`EventLog`, `ToolService` and `MessageChannel`, each implemented by its module. Next:

1. The guarantees end to end: `MainLoop`'s view of a session as a client of `SessionPort`, and the CLI's
   results over a `MessageChannel` that may repeat them. Abstract specifications for the task list and
   the cron scheduler.
2. `RuntimeTransitions`, over `ConversationService`: startup promises, runtime versions, restarts and the
   delayed kill of `ws/handler.ts`, with output callbacks. To show: a restart ends with one session of the
   newest configuration; the delayed kill hits only the turn it was meant for.
3. `Mailbox`: several CLIs that append to and mark one inbox file under a lock.
4. `Memory` with two CLIs and torn saves.
5. `ChatBridge` (`adapters/common`): reconnection and handler queues.

Runs stay few: when a component is added, its safety and liveness properties share one run.
