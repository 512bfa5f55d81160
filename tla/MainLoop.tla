------------------------------- MODULE MainLoop -------------------------------
(***************************************************************************)
(* Elio's time-slice loop: src/server/services/MainLoop.ts, the interval   *)
(* timer that drives it (heartbeatService.ts) and the perception buffer it *)
(* drains (src/elio/WorldviewBuffer.ts).                                   *)
(*                                                                         *)
(* Every heartbeat runs step(): make sure the session 'elio' exists,       *)
(* interrupt the turn in progress, drain the percepts that arrived since   *)
(* the last slice and present a worldview.  The session itself belongs to  *)
(* conversationService; this module keeps only what becomes of MainLoop's  *)
(* calls there (does the session exist, how often is MainLoop's callback   *)
(* registered, does a worldview wait, reach the CLI or get lost) and lets  *)
(* the session vanish, fail or be replaced, and its socket come and go, as *)
(* that service allows.                                                    *)
(*                                                                         *)
(* A worldview shows this slice's percepts in full and those of the slices *)
(* in the ring by their first 80 characters.  It is the set of what it     *)
(* shows: the whole text of a percept, or a long one's gist.               *)
(*                                                                         *)
(* Time is discrete.  A timer is the number of ticks it has left, and time *)
(* does not pass while one has expired and its callback has not run.       *)
(***************************************************************************)
EXTENDS Integers, Sequences, Functions

CONSTANTS
  Percepts,      \* the external events a run can see
  Long,          \* those whose text is longer than 80 characters
  RingSize,      \* MAX_RECENT_SLICES
  Period,        \* INTERVAL_MS of the heartbeat
  StaleTimeout,  \* STALE_RESULT_TIMEOUT_MS
  WorkTimeout,   \* WORK_TIMEOUT_MS
  MaxFaults,     \* bound: how often the environment may lose the session
  MaxWaiting,    \* bound: worldviews that wait for the CLI while time passes
  None           \* a timer that is not armed

ASSUME RingAssumption == RingSize \in Nat \ {0}

\* The code has 5 s < 30 s < 120 s.
ASSUME TimingAssumption ==
  /\ Period \in Nat /\ StaleTimeout \in Nat /\ WorkTimeout \in Nat
  /\ MaxFaults \in Nat
  /\ 0 < StaleTimeout /\ StaleTimeout < Period /\ Period < WorkTimeout

ASSUME NoneAssumption == None \notin Int

ASSUME LongAssumption == Long \subseteq Percepts

VARIABLES
  heartbeat,          \* ticks to the next beat; None once stopped
  starting,           \* the guard against a second bootstrap
  boot,               \* where the step() that awaits startSession() is
  processing,         \* a worldview is out and no result has come back
  expectStaleResult,  \* the next result belongs to an interrupted turn
  staleResultTimer,   \* the timer the variable of that name refers to
  orphanTimers,       \* stale timers whose handle was overwritten
  safetyTimer,
  buffer,             \* percepts pushed and not yet drained
  recentSlices,       \* the ring of the last RingSize slices
  session,            \* conversationService.hasSession('elio')
  callbacks,          \* registrations of onOutput with that session
  queuedCallbacks,    \* registrations waiting for a session to exist
  socket,             \* session.sdkSocket: "none", "open", or "dead" and still set
  outbound,           \* the worldviews in session.pendingOutbound
  arrived,            \* history: percepts pushed so far
  told,               \* history: what the worldviews that reached the CLI showed
  lost,               \* history: worldviews lost so far, counted up to RingSize
  faults              \* history: sessions lost so far

timerVars   == <<staleResultTimer, orphanTimers, safetyTimer>>
turnVars    == <<processing, expectStaleResult>>
bufferVars  == <<buffer, recentSlices, arrived>>
wireVars    == <<socket, outbound, told, lost>>
sessionVars == <<session, callbacks, queuedCallbacks>>
bootVars    == <<starting, boot>>
vars == <<heartbeat, bootVars, turnVars, timerVars, bufferVars, wireVars,
          sessionVars, faults>>

Timer(limit) == 0..limit \union {None}

Text(p) == <<p, "text">>

\* What commitSlice() keeps of a percept: all of a text that is short enough.
Gist(p) == <<p, IF p \in Long THEN "gist" ELSE "text">>

Views == SUBSET (Percepts \X {"gist", "text"})

TypeOK ==
  /\ heartbeat \in Timer(Period)
  /\ starting \in BOOLEAN
  /\ boot \in {"none", "launching", "grace"}
  /\ processing \in BOOLEAN
  /\ expectStaleResult \in BOOLEAN
  /\ staleResultTimer \in Timer(StaleTimeout)
  /\ orphanTimers \subseteq 0..StaleTimeout
  /\ safetyTimer \in Timer(WorkTimeout)
  /\ buffer \subseteq Percepts
  /\ recentSlices \in Seq(SUBSET Percepts)
  /\ Len(recentSlices) <= RingSize
  /\ session \in BOOLEAN
  /\ callbacks \in Nat
  /\ queuedCallbacks \in Nat
  /\ socket \in {"none", "open", "dead"}
  /\ outbound \in Seq(Views)
  /\ arrived \subseteq Percepts
  /\ told \in Views
  /\ lost \in 0..RingSize
  /\ faults \in 0..MaxFaults

\* The server has just called startHeartbeat().
Init ==
  /\ heartbeat = Period
  /\ starting = FALSE
  /\ boot = "none"
  /\ processing = FALSE
  /\ expectStaleResult = FALSE
  /\ staleResultTimer = None
  /\ orphanTimers = {}
  /\ safetyTimer = None
  /\ buffer = {}
  /\ recentSlices = << >>
  /\ session = FALSE
  /\ callbacks = 0
  /\ queuedCallbacks = 0
  /\ socket = "none"
  /\ outbound = << >>
  /\ arrived = {}
  /\ told = {}
  /\ lost = 0
  /\ faults = 0

-----------------------------------------------------------------------------
(* WorldviewBuffer *)

Remembered == UNION {recentSlices[i] : i \in DOMAIN recentSlices}

\* Mutant of Commit: the ring evicts one slice too late.
CommitEvictsLate(ring, slice) ==
  IF Len(ring) > RingSize THEN Append(Tail(ring), slice) ELSE Append(ring, slice)

\* commitSlice(): append, then keep the RingSize newest slices.
Commit(ring, slice) ==
  LET longer == Append(ring, slice)
  IN  IF Len(longer) > RingSize THEN Tail(longer) ELSE longer

\* A client's user message; each percept of the model arrives once.
Push(p) ==
  /\ p \notin arrived
  /\ arrived' = arrived \union {p}
  /\ buffer' = buffer \union {p}
  /\ UNCHANGED <<heartbeat, bootVars, turnVars, timerVars, recentSlices, wireVars,
                 sessionVars, faults>>

-----------------------------------------------------------------------------
(* The slice: what step() does, without awaiting, once there was a session *)

\* The handle of a timer that is still armed is overwritten, not cleared.
Overwritten == IF staleResultTimer = None THEN {} ELSE {staleResultTimer}

\* Mutant of InterruptTurn: the result of the interrupted turn is not expected.
InterruptTurnOnly ==
  IF processing
    THEN /\ staleResultTimer' = StaleTimeout
         /\ orphanTimers' = orphanTimers \union Overwritten
         /\ UNCHANGED expectStaleResult
    ELSE UNCHANGED <<expectStaleResult, staleResultTimer, orphanTimers>>

InterruptTurn ==
  IF processing
    THEN /\ expectStaleResult' = TRUE
         /\ staleResultTimer' = StaleTimeout
         /\ orphanTimers' = orphanTimers \union Overwritten
    ELSE UNCHANGED <<expectStaleResult, staleResultTimer, orphanTimers>>

\* Mutant of BuildWorldview: the slice is not committed to the ring.
BuildWorldviewUncommitted ==
  /\ buffer' = {}
  /\ UNCHANGED <<recentSlices, arrived>>

\* buildWorldview(): the buffer is empty afterwards whether or not the
\* worldview can be sent.
BuildWorldview ==
  /\ buffer' = {}
  /\ recentSlices' = Commit(recentSlices, buffer)
  /\ UNCHANGED arrived

\* formatForWorldview() of the percepts drained, and the summaries of the ring.
Presented == {Text(p) : p \in buffer} \union {Gist(p) : p \in Remembered'}

Loses(n) == lost' = IF lost + n > RingSize THEN RingSize ELSE lost + n

\* sendSdkMessage() with a session: true in any case.  Without a socket the
\* worldview waits; what send() of a socket returns is not looked at.
Hand(view) ==
  \/ /\ socket = "none"
     /\ outbound' = Append(outbound, view)
     /\ UNCHANGED <<told, lost>>
  \/ /\ socket = "open"
     /\ told' = told \union view
     /\ UNCHANGED <<outbound, lost>>
  \/ /\ socket = "dead"
     /\ Loses(1)
     /\ UNCHANGED <<outbound, told>>

\* Mutant of SendWorldview: the timer of the previous slice is left running.
SendWorldviewKeepsTimer ==
  /\ UNCHANGED socket
  /\ IF session
       THEN /\ processing' = TRUE
            /\ safetyTimer' = IF safetyTimer = None THEN WorkTimeout ELSE safetyTimer
            /\ Hand(Presented)
       ELSE /\ processing' = FALSE
            /\ Loses(1)
            /\ UNCHANGED <<safetyTimer, outbound, told>>

SendWorldview ==
  /\ UNCHANGED socket
  /\ IF session
       THEN /\ processing' = TRUE
            /\ safetyTimer' = WorkTimeout
            /\ Hand(Presented)
       ELSE /\ processing' = FALSE
            /\ Loses(1)
            /\ UNCHANGED <<safetyTimer, outbound, told>>

Slice == InterruptTurn /\ BuildWorldview /\ SendWorldview

-----------------------------------------------------------------------------
(* step(), called by every heartbeat *)

Beat == heartbeat = 0 /\ heartbeat' = Period

StepWithSession ==
  /\ Beat
  /\ session
  /\ Slice
  /\ UNCHANGED <<bootVars, sessionVars, faults>>

StepWhileStarting ==
  /\ Beat
  /\ ~session
  /\ starting
  /\ UNCHANGED <<bootVars, turnVars, timerVars, bufferVars, wireVars, sessionVars, faults>>

StepBootstraps ==
  /\ Beat
  /\ ~session
  /\ ~starting
  /\ starting' = TRUE
  /\ boot' = "launching"
  /\ UNCHANGED <<turnVars, timerVars, bufferVars, wireVars, sessionVars, faults>>

\* The awaited startSession() inserts the session in the registry when it
\* spawns the CLI, replaying the callbacks queued for it; it does nothing
\* when another caller was first.
Spawn ==
  /\ boot = "launching"
  /\ boot' = "grace"
  /\ session' = TRUE
  /\ IF session THEN UNCHANGED <<callbacks, queuedCallbacks>>
                ELSE callbacks' = queuedCallbacks /\ queuedCallbacks' = 0
  /\ UNCHANGED <<heartbeat, starting, turnVars, timerVars, bufferVars, wireVars, faults>>

\* startSession() resolved: register onOutput, with the session or, when it
\* has vanished since the spawn, in the queue for the next one; then go on
\* with the slice.
BootstrapReturns ==
  /\ boot = "grace"
  /\ boot' = "none"
  /\ starting' = FALSE
  /\ IF session
       THEN callbacks' = callbacks + 1 /\ UNCHANGED queuedCallbacks
       ELSE queuedCallbacks' = queuedCallbacks + 1 /\ UNCHANGED callbacks
  /\ Slice
  /\ UNCHANGED <<heartbeat, session, faults>>

Lose == faults < MaxFaults /\ faults' = faults + 1

\* The entry leaves the registry, and what waits for the CLI goes with it.
SessionGone ==
  /\ session' = FALSE
  /\ callbacks' = 0
  /\ socket' = "none"
  /\ outbound' = << >>
  /\ Loses(Len(outbound))
  /\ UNCHANGED told

\* Mutant of BootstrapThrows: the guard is released after success only.
BootstrapThrowsWithoutFinally ==
  /\ boot # "none"
  /\ Lose
  /\ boot' = "none"
  /\ \/ boot = "grace" /\ SessionGone
     \/ UNCHANGED <<session, callbacks, wireVars>>
  /\ UNCHANGED <<heartbeat, starting, turnVars, timerVars, bufferVars, queuedCallbacks>>

\* startSession() threw and step() returns: before the spawn; because the CLI
\* exited during the grace period, which removes the session; or because the
\* metadata of the started session could not be written, which does not.
BootstrapThrows ==
  /\ boot # "none"
  /\ Lose
  /\ boot' = "none"
  /\ starting' = FALSE
  /\ \/ boot = "grace" /\ SessionGone
     \/ UNCHANGED <<session, callbacks, wireVars>>
  /\ UNCHANGED <<heartbeat, turnVars, timerVars, bufferVars, queuedCallbacks>>

\* The CLI exited during the grace period over a stale lock: startSession()
\* removes the lock and calls itself.
BootstrapRetries ==
  /\ boot = "grace"
  /\ Lose
  /\ boot' = "launching"
  /\ SessionGone
  /\ UNCHANGED <<heartbeat, starting, turnVars, timerVars, bufferVars, queuedCallbacks>>

-----------------------------------------------------------------------------
(* onOutput() and the timers *)

\* A result is dispatched to every registration of onOutput.  The first one
\* consumes the stale flag, if it is set; any further one is a genuine result.
Genuine == callbacks > IF expectStaleResult THEN 1 ELSE 0

\* Mutant of HandleResult: a stale result disarms the new turn's timer too.
HandleResultDisarms ==
  IF callbacks = 0
    THEN UNCHANGED <<turnVars, timerVars>>
    ELSE /\ expectStaleResult' = FALSE
         /\ staleResultTimer' = IF expectStaleResult THEN None ELSE staleResultTimer
         /\ processing' = (processing /\ ~Genuine)
         /\ safetyTimer' = None
         /\ UNCHANGED orphanTimers

HandleResult ==
  IF callbacks = 0
    THEN UNCHANGED <<turnVars, timerVars>>
    ELSE /\ expectStaleResult' = FALSE
         /\ staleResultTimer' = IF expectStaleResult THEN None ELSE staleResultTimer
         /\ processing' = (processing /\ ~Genuine)
         /\ safetyTimer' = IF Genuine THEN None ELSE safetyTimer
         /\ UNCHANGED orphanTimers

OnOutput ==
  /\ session
  /\ HandleResult
  /\ UNCHANGED <<heartbeat, bootVars, bufferVars, wireVars, sessionVars, faults>>

StaleTimeoutFires ==
  /\ staleResultTimer = 0
  /\ staleResultTimer' = None
  /\ expectStaleResult' = FALSE
  /\ UNCHANGED <<heartbeat, bootVars, processing, orphanTimers, safetyTimer,
                 bufferVars, wireVars, sessionVars, faults>>

\* An overwritten timer still runs: it clears the flag of a later interrupt
\* and forgets the handle of that interrupt's own timer.
OrphanTimeoutFires ==
  /\ 0 \in orphanTimers
  /\ IF expectStaleResult
       THEN /\ expectStaleResult' = FALSE
            /\ staleResultTimer' = None
            /\ orphanTimers' = (orphanTimers \ {0}) \union Overwritten
       ELSE /\ orphanTimers' = orphanTimers \ {0}
            /\ UNCHANGED <<expectStaleResult, staleResultTimer>>
  /\ UNCHANGED <<heartbeat, bootVars, processing, safetyTimer, bufferVars, wireVars,
                 sessionVars, faults>>

WorkTimeoutFires ==
  /\ safetyTimer = 0
  /\ safetyTimer' = None
  /\ processing' = FALSE
  /\ UNCHANGED <<heartbeat, bootVars, expectStaleResult, staleResultTimer,
                 orphanTimers, bufferVars, wireVars, sessionVars, faults>>

Expired == 0 \in orphanTimers \union {heartbeat, staleResultTimer, safetyTimer}

Elapse(timer) == IF timer = None THEN None ELSE timer - 1

Tick ==
  /\ ~Expired
  /\ Len(outbound) < MaxWaiting
  /\ heartbeat' = Elapse(heartbeat)
  /\ staleResultTimer' = Elapse(staleResultTimer)
  /\ safetyTimer' = Elapse(safetyTimer)
  /\ orphanTimers' = {t - 1 : t \in orphanTimers}
  /\ UNCHANGED <<bootVars, turnVars, bufferVars, wireVars, sessionVars, faults>>

-----------------------------------------------------------------------------
(* What happens to the session behind MainLoop's back *)

\* The CLI process exited: an error result goes to the callbacks, then the
\* session leaves the registry.
SessionExits ==
  /\ Lose
  /\ session
  /\ HandleResult
  /\ SessionGone
  /\ UNCHANGED <<heartbeat, bootVars, bufferVars, queuedCallbacks>>

\* stopSession() from a client's /clear, stop or restart: no result.
SessionStopped ==
  /\ Lose
  /\ session
  /\ SessionGone
  /\ queuedCallbacks' = 0
  /\ UNCHANGED <<heartbeat, bootVars, turnVars, timerVars, bufferVars>>

\* A client's restart or prewarm starts the session; MainLoop is not told.
StartedElsewhere ==
  /\ ~session
  /\ session' = TRUE
  /\ callbacks' = queuedCallbacks
  /\ queuedCallbacks' = 0
  /\ UNCHANGED <<heartbeat, bootVars, turnVars, timerVars, bufferVars, wireVars, faults>>

\* The CLI connects, for the first time or again: attachSdkConnection() sets the
\* socket and writes what waits to it.
Connect ==
  /\ session
  /\ socket # "open"
  /\ socket' = "open"
  /\ told' = told \union UNION Range(outbound)
  /\ outbound' = << >>
  /\ UNCHANGED <<heartbeat, bootVars, turnVars, timerVars, bufferVars, lost,
                 sessionVars, faults>>

\* The same over a connection that breaks after the first of them.
ConnectInVain ==
  /\ session
  /\ socket # "open"
  /\ socket' = "dead"
  /\ \E n \in 0..Len(outbound) - 1 :
       /\ told' = told \union UNION Range(SubSeq(outbound, 1, n))
       /\ Loses(Len(outbound) - n)
  /\ outbound' = << >>
  /\ UNCHANGED <<heartbeat, bootVars, turnVars, timerVars, bufferVars, sessionVars, faults>>

\* A connection breaks; the server is told later or never.
ConnectionBreaks ==
  /\ socket = "open"
  /\ socket' = "dead"
  /\ UNCHANGED <<heartbeat, bootVars, turnVars, timerVars, bufferVars, outbound, told,
                 lost, sessionVars, faults>>

\* detachSdkConnection(), called when a connection closes: this one, or one that
\* it has replaced.
ConnectionCloses ==
  /\ socket # "none"
  /\ socket' = "none"
  /\ UNCHANGED <<heartbeat, bootVars, turnVars, timerVars, bufferVars, outbound, told,
                 lost, sessionVars, faults>>

\* stopHeartbeat(), with MainLoop.shutdown(): a step() that awaits
\* startSession() is not cancelled, and expectStaleResult is not reset.
StopHeartbeat ==
  /\ heartbeat # None
  /\ heartbeat' = None
  /\ safetyTimer' = None
  /\ staleResultTimer' = None
  /\ processing' = FALSE
  /\ starting' = FALSE
  /\ IF session THEN SessionGone /\ queuedCallbacks' = 0
                ELSE UNCHANGED <<sessionVars, wireVars>>
  /\ UNCHANGED <<boot, expectStaleResult, orphanTimers, bufferVars, faults>>

-----------------------------------------------------------------------------

Step == StepWithSession \/ StepWhileStarting \/ StepBootstraps
Bootstrap == Spawn \/ BootstrapReturns \/ BootstrapThrows \/ BootstrapRetries
Timers == StaleTimeoutFires \/ OrphanTimeoutFires \/ WorkTimeoutFires
Environment == SessionExits \/ SessionStopped \/ StartedElsewhere
Socket == Connect \/ ConnectInVain \/ ConnectionBreaks \/ ConnectionCloses

Next ==
  \/ \E p \in Percepts : Push(p)
  \/ Step
  \/ Bootstrap
  \/ OnOutput
  \/ Timers
  \/ Tick
  \/ Environment
  \/ Socket
  \/ StopHeartbeat

Spec == Init /\ [][Next]_vars

\* Timers run and setInterval keeps firing; an awaited startSession() settles
\* (its grace period is a timer, and every await before it is a file read).
\* Results, percepts, lost sessions and shutdown owe us nothing.
Fairness ==
  /\ WF_vars(Tick)
  /\ WF_vars(Step)
  /\ WF_vars(Timers)
  /\ WF_vars(Spawn)
  /\ WF_vars(BootstrapReturns)

FairSpec == Spec /\ Fairness

-----------------------------------------------------------------------------
(* Properties *)

\* buildWorldview() empties the buffer before step() knows whether the
\* worldview can be sent, and sendSdkMessage() does not know whether it arrives:
\* it may wait for a CLI that never connects, or go to a dead socket.  What
\* saves a percept then is the ring, which shows it again, in 80 characters, in
\* the RingSize - 1 worldviews after.  So it is forgotten altogether only after
\* RingSize worldviews were lost, but the rest of a long text with the first.
Waiting == UNION Range(outbound)
Shows(view, p) == Text(p) \in view \/ Gist(p) \in view

NoPerceptLost ==
  \A p \in arrived \ buffer :
    /\ lost < RingSize => p \in Remembered \/ Shows(Waiting \union told, p)
    /\ lost = 0 => Text(p) \in Waiting \union told

\* Neither flag outlives its timer while the heartbeat runs: a turn without a
\* result is given up, and a result is swallowed only within StaleTimeout of
\* an interrupt.  step(), onOutput() and three timers all write these fields.
FlagsAreTimed ==
  heartbeat # None =>
    /\ processing => safetyTimer # None
    /\ expectStaleResult => staleResultTimer # None

\* Every slice re-arms the safety timer, and the heartbeat is faster than it:
\* as long as no session was lost it cannot expire, so a turn that hangs is
\* never given up by WORK_TIMEOUT_MS.
WorkTimeoutNeedsLostSession ==
  faults = 0 /\ heartbeat # None => safetyTimer # 0

\* If no session stays without its CLI, which connects and connects again, a
\* percept reaches Elio, if only by its gist, unless the loop is shut down or
\* RingSize worldviews were lost, whatever else happens to the session and its
\* socket in between.  That there is a session is MainLoop's own doing.
PerceptPresented ==
  []<>(~session \/ socket = "open") =>
    \A p \in Percepts :
      p \in buffer ~> Shows(told, p) \/ heartbeat = None \/ lost = RingSize
=============================================================================
