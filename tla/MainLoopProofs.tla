---------------------------- MODULE MainLoopProofs ----------------------------
(***************************************************************************)
(* What MainLoop promises for every set of percepts, every ring size and   *)
(* every choice of the timeouts the assumptions allow, by itself and       *)
(* beside the CLI (ElioTurns).                                             *)
(*                                                                         *)
(* The composition rests on one count, Balanced: the results MainLoop      *)
(* still waits for, one for `processing` and one more for                  *)
(* `expectStaleResult`, are the results the CLI still owes it.  Last, what *)
(* is proved of the turn loop is carried over to the composition.          *)
(***************************************************************************)
EXTENDS ElioTurns, TLAPS

\* The ring stays a sequence of slices and never grows beyond RingSize.
LEMMA CommitType ==
  ASSUME NEW ring \in Seq(SUBSET Percepts), Len(ring) <= RingSize,
         NEW slice \in SUBSET Percepts
  PROVE  /\ Commit(ring, slice) \in Seq(SUBSET Percepts)
         /\ Len(Commit(ring, slice)) <= RingSize
BY RingAssumption DEF Commit

\* A percept shown by the ring is a percept.
LEMMA RingContents ==
  ASSUME NEW ring \in Seq(SUBSET Percepts)
  PROVE  UNION {ring[i] : i \in DOMAIN ring} \subseteq Percepts
OBVIOUS

\* What a percept is shown by belongs to a worldview.
LEMMA ItemType ==
  ASSUME NEW p \in Percepts
  PROVE  /\ Text(p) \in Percepts \X {"gist", "text"}
         /\ Gist(p) \in Percepts \X {"gist", "text"}
BY DEF Text, Gist

\* The count of lost worldviews stays in range.
LEMMA LosesType ==
  ASSUME NEW n \in Nat, lost \in 0..RingSize, Loses(n)
  PROVE  lost' \in 0..RingSize /\ lost' >= lost
BY RingAssumption DEF Loses

\* All of several worldviews, or of the first of them, is a worldview.
LEMMA UnionType ==
  ASSUME NEW views \in Seq(Views)
  PROVE  UNION Range(views) \in Views
BY DEF Range, Views

LEMMA PrefixType ==
  ASSUME NEW views \in Seq(Views), NEW n \in 0..Len(views)
  PROVE  /\ SubSeq(views, 1, n) \in Seq(Views)
         /\ Len(SubSeq(views, 1, n)) = n
         /\ \A i \in 1..n : SubSeq(views, 1, n)[i] = views[i]
OBVIOUS

\* What waits and what was told keep their types when a session ends, and when
\* its socket comes and goes.
LEMMA GoneType ==
  ASSUME TypeOK, SessionGone
  PROVE  /\ session' \in BOOLEAN /\ callbacks' \in Nat
         /\ socket' \in {"none", "open", "dead"} /\ outbound' \in Seq(Views)
         /\ told' \in Views /\ lost' \in 0..RingSize
<1>1. lost' \in 0..RingSize
  BY LosesType DEF TypeOK, SessionGone
<1>2. outbound' \in Seq(Views)
  <2>1. << >> \in Seq(Views)
    OBVIOUS
  <2> QED BY <2>1 DEF SessionGone
<1>3. told' \in Views
  BY DEF TypeOK, SessionGone
<1> QED BY <1>1, <1>2, <1>3 DEF SessionGone

LEMMA SocketType ==
  ASSUME TypeOK, Socket
  PROVE  /\ socket' \in {"none", "open", "dead"} /\ outbound' \in Seq(Views)
         /\ told' \in Views /\ lost' \in 0..RingSize
<1>1. CASE Connect
  BY <1>1, UnionType DEF TypeOK, Connect, Views
<1>2. CASE ConnectInVain
  <2>1. PICK n \in 0..Len(outbound) - 1 :
          /\ told' = told \union UNION Range(SubSeq(outbound, 1, n))
          /\ Loses(Len(outbound) - n)
    BY <1>2 DEF ConnectInVain
  <2>2. Len(outbound) \in Nat /\ Len(outbound) - n \in Nat /\ n \in 0..Len(outbound)
    BY DEF TypeOK
  <2>3. UNION Range(SubSeq(outbound, 1, n)) \in Views
    BY <2>2, PrefixType, UnionType DEF TypeOK
  <2>4. told' \in Views
    BY <2>1, <2>3 DEF TypeOK, Views
  <2>5. lost' \in 0..RingSize
    BY <2>1, <2>2, LosesType DEF TypeOK
  <2> QED BY <1>2, <2>4, <2>5 DEF ConnectInVain
<1>3. CASE ConnectionBreaks \/ ConnectionCloses
  BY <1>3 DEF TypeOK, ConnectionBreaks, ConnectionCloses
<1> QED BY <1>1, <1>2, <1>3 DEF Socket

\* A slice keeps the types, from either of the actions that take one.
LEMMA SliceType ==
  ASSUME TypeOK, Slice
  PROVE  /\ processing' \in BOOLEAN
         /\ expectStaleResult' \in BOOLEAN
         /\ staleResultTimer' \in Timer(StaleTimeout)
         /\ orphanTimers' \subseteq 0..StaleTimeout
         /\ safetyTimer' \in Timer(WorkTimeout)
         /\ buffer' \subseteq Percepts
         /\ recentSlices' \in Seq(SUBSET Percepts)
         /\ Len(recentSlices') <= RingSize
         /\ arrived' \subseteq Percepts
         /\ socket' \in {"none", "open", "dead"}
         /\ outbound' \in Seq(Views)
         /\ told' \in Views
         /\ lost' \in 0..RingSize
<1>1. /\ recentSlices' \in Seq(SUBSET Percepts)
      /\ Len(recentSlices') <= RingSize
  BY CommitType DEF TypeOK, Slice, BuildWorldview
<1>2. Presented \in Views
  <2>1. Remembered' \subseteq Percepts /\ buffer \subseteq Percepts
    BY <1>1, RingContents DEF Remembered, TypeOK
  <2> QED BY <2>1, ItemType DEF Presented, Views
<1>3. socket' \in {"none", "open", "dead"} /\ outbound' \in Seq(Views)
      /\ told' \in Views /\ lost' \in 0..RingSize
  <2>1. CASE session
    <3>1. socket' = socket /\ Hand(Presented)
      BY <2>1 DEF Slice, SendWorldview
    <3>2. CASE socket = "dead"
      BY <3>1, <3>2, LosesType DEF TypeOK, Hand
    <3>3. CASE socket = "open"
      BY <1>2, <3>1, <3>3 DEF TypeOK, Hand, Views
    <3>4. CASE socket = "none"
      BY <1>2, <3>1, <3>4 DEF TypeOK, Hand
    <3> QED BY <3>2, <3>3, <3>4 DEF TypeOK
  <2>2. CASE ~session
    BY <2>2, LosesType DEF TypeOK, Slice, SendWorldview
  <2> QED BY <2>1, <2>2
<1>4. staleResultTimer' \in Timer(StaleTimeout)
  BY TimingAssumption DEF TypeOK, Slice, InterruptTurn, Timer
<1>5. orphanTimers' \subseteq 0..StaleTimeout
  BY DEF TypeOK, Slice, InterruptTurn, Overwritten, Timer
<1>6. safetyTimer' \in Timer(WorkTimeout)
  BY TimingAssumption DEF TypeOK, Slice, SendWorldview, Timer
<1>8. processing' \in BOOLEAN /\ expectStaleResult' \in BOOLEAN
  BY DEF TypeOK, Slice, SendWorldview, InterruptTurn
<1>7. buffer' \subseteq Percepts /\ arrived' \subseteq Percepts
  BY DEF TypeOK, Slice, BuildWorldview
<1> QED BY <1>1, <1>3, <1>4, <1>5, <1>6, <1>7, <1>8

\* Dispatching a result keeps the types.
LEMMA ResultType ==
  ASSUME TypeOK, HandleResult
  PROVE  /\ processing' \in BOOLEAN
         /\ expectStaleResult' \in BOOLEAN
         /\ staleResultTimer' \in Timer(StaleTimeout)
         /\ orphanTimers' \subseteq 0..StaleTimeout
         /\ safetyTimer' \in Timer(WorkTimeout)
BY DEF TypeOK, HandleResult, turnVars, timerVars, Timer

\* A timer that has not expired stays in range when time passes.
LEMMA ElapseType ==
  ASSUME NEW limit \in Nat, NEW timer \in Timer(limit), timer # 0
  PROVE  /\ Elapse(timer) \in Timer(limit)
         /\ Elapse(timer) = None <=> timer = None
BY NoneAssumption DEF Elapse, Timer

\* Every variable keeps its type: the ring of WorldviewBuffer.ts is bounded
\* and no timer of MainLoop.ts runs past its limit.
THEOREM TypeCorrect == Spec => []TypeOK
<1>0. None \in Timer(StaleTimeout) /\ None \in Timer(Period) /\ None \in Timer(WorkTimeout)
  BY DEF Timer
<1>1. Init => TypeOK
  <2>1. Period \in Timer(Period) /\ 0 \in 0..MaxFaults /\ 0 \in Nat
    BY TimingAssumption DEF Timer
  <2>2. << >> \in Seq(SUBSET Percepts) /\ Len(<< >>) <= RingSize
    BY RingAssumption
  <2>3. << >> \in Seq(Views) /\ {} \in Views /\ 0 \in 0..RingSize
    BY RingAssumption DEF Views
  <2> QED BY <1>0, <2>1, <2>2, <2>3 DEF Init, TypeOK
<1>2. TypeOK /\ [Next]_vars => TypeOK'
  <2> SUFFICES ASSUME TypeOK, [Next]_vars PROVE TypeOK'
    OBVIOUS
  <2> USE DEF bootVars, turnVars, timerVars, bufferVars, wireVars, sessionVars
  <2>0. Beat => heartbeat' \in Timer(Period)
    BY TimingAssumption DEF Beat, Timer
  <2>1. ASSUME NEW p \in Percepts, Push(p) PROVE TypeOK'
    BY <2>1 DEF TypeOK, Push
  <2>2. CASE StepWithSession
    BY <2>0, <2>2, SliceType DEF TypeOK, StepWithSession
  <2>3. CASE StepWhileStarting \/ StepBootstraps
    BY <2>0, <2>3 DEF TypeOK, StepWhileStarting, StepBootstraps
  <2>4. CASE Spawn
    BY <2>4 DEF TypeOK, Spawn
  <2>5. CASE BootstrapReturns
    <3>1. callbacks' \in Nat /\ queuedCallbacks' \in Nat
      BY <2>5 DEF TypeOK, BootstrapReturns
    <3> QED BY <2>5, <3>1, SliceType DEF TypeOK, BootstrapReturns
  <2>6. CASE BootstrapThrows \/ BootstrapRetries
    <3>1. faults' \in 0..MaxFaults
      BY <2>6, TimingAssumption DEF TypeOK, BootstrapThrows, BootstrapRetries, Lose
    <3>2. queuedCallbacks' \in Nat
      BY <2>6 DEF TypeOK, BootstrapThrows, BootstrapRetries
    <3>3. SessionGone \/ UNCHANGED <<session, callbacks, wireVars>>
      BY <2>6 DEF BootstrapThrows, BootstrapRetries
    <3>4. /\ session' \in BOOLEAN /\ callbacks' \in Nat
          /\ socket' \in {"none", "open", "dead"} /\ outbound' \in Seq(Views)
          /\ told' \in Views /\ lost' \in 0..RingSize
      BY <3>3, GoneType DEF TypeOK
    <3> QED BY <2>6, <3>1, <3>2, <3>4 DEF TypeOK, BootstrapThrows, BootstrapRetries
  <2>7. CASE OnOutput
    BY <2>7, ResultType DEF TypeOK, OnOutput
  <2>8. CASE Timers
    <3>1. staleResultTimer' \in Timer(StaleTimeout) /\ safetyTimer' \in Timer(WorkTimeout)
      BY <2>8 DEF TypeOK, Timers, StaleTimeoutFires, OrphanTimeoutFires,
                  WorkTimeoutFires, Timer
    <3>2. orphanTimers' \subseteq 0..StaleTimeout
      BY <2>8 DEF TypeOK, Timers, StaleTimeoutFires, OrphanTimeoutFires,
                  WorkTimeoutFires, Timer, Overwritten
    <3> QED BY <2>8, <3>1, <3>2 DEF TypeOK, Timers, StaleTimeoutFires,
                                    OrphanTimeoutFires, WorkTimeoutFires
  <2>9. CASE Tick
    <3>1. /\ heartbeat' \in Timer(Period)
          /\ staleResultTimer' \in Timer(StaleTimeout)
          /\ safetyTimer' \in Timer(WorkTimeout)
      BY <2>9, TimingAssumption, ElapseType DEF TypeOK, Tick, Expired
    <3>2. orphanTimers' \subseteq 0..StaleTimeout
      BY <2>9, TimingAssumption DEF TypeOK, Tick, Expired
    <3> QED BY <2>9, <3>1, <3>2 DEF TypeOK, Tick
  <2>10. CASE SessionExits
    <3>1. faults' \in 0..MaxFaults
      BY <2>10, TimingAssumption DEF TypeOK, SessionExits, Lose
    <3> QED BY <2>10, <3>1, ResultType, GoneType DEF TypeOK, SessionExits
  <2>11. CASE SessionStopped
    <3>1. faults' \in 0..MaxFaults
      BY <2>11, TimingAssumption DEF TypeOK, SessionStopped, Lose
    <3> QED BY <2>11, <3>1, GoneType DEF TypeOK, SessionStopped
  <2>12. CASE StartedElsewhere
    BY <2>12 DEF TypeOK, StartedElsewhere
  <2>13. CASE StopHeartbeat
    <3>1. /\ session' \in BOOLEAN /\ callbacks' \in Nat /\ queuedCallbacks' \in Nat
          /\ socket' \in {"none", "open", "dead"} /\ outbound' \in Seq(Views)
          /\ told' \in Views /\ lost' \in 0..RingSize
      BY <2>13, GoneType DEF TypeOK, StopHeartbeat
    <3> QED BY <1>0, <2>13, <3>1 DEF TypeOK, StopHeartbeat
  <2>14. CASE UNCHANGED vars
    BY <2>14 DEF TypeOK, vars
  <2>15. CASE Socket
    <3>1. UNCHANGED <<heartbeat, bootVars, turnVars, timerVars, bufferVars, sessionVars, faults>>
      BY <2>15 DEF Socket, Connect, ConnectInVain, ConnectionBreaks, ConnectionCloses
    <3> QED BY <2>15, <3>1, SocketType DEF TypeOK
  <2> QED
    BY <2>1, <2>2, <2>3, <2>4, <2>5, <2>6, <2>7, <2>8, <2>9, <2>10, <2>11,
       <2>12, <2>13, <2>14, <2>15 DEF Next, Step, Bootstrap, Environment
<1> QED BY <1>1, <1>2, PTL DEF Spec

-----------------------------------------------------------------------------
\* No flag outlives its timer: with the types it is inductive as it stands.
THEOREM FlagsTimed == Spec => []FlagsAreTimed
<1>1. Init => FlagsAreTimed
  BY DEF Init, FlagsAreTimed
<1>2. TypeOK /\ FlagsAreTimed /\ [Next]_vars => FlagsAreTimed'
  <2> SUFFICES ASSUME TypeOK, FlagsAreTimed, [Next]_vars, heartbeat' # None
               PROVE  /\ processing' => safetyTimer' # None
                      /\ expectStaleResult' => staleResultTimer' # None
    BY DEF FlagsAreTimed
  <2> USE DEF FlagsAreTimed, turnVars, timerVars
  <2>1. CASE UNCHANGED <<heartbeat, turnVars, timerVars>>
    BY <2>1
  <2>2. ASSUME heartbeat # None, Slice
        PROVE  /\ processing' => safetyTimer' # None
               /\ expectStaleResult' => staleResultTimer' # None
    <3>1. WorkTimeout # None /\ StaleTimeout # None
      BY NoneAssumption, TimingAssumption
    <3>2. processing' => safetyTimer' # None
      BY <2>2, <3>1 DEF Slice, SendWorldview
    <3>3. expectStaleResult' => staleResultTimer' # None
      BY <2>2, <3>1 DEF Slice, InterruptTurn
    <3> QED BY <3>2, <3>3
  <2>3. heartbeat = 0 => heartbeat # None
    BY NoneAssumption
  <2>4. CASE StepWithSession
    BY <2>2, <2>3, <2>4 DEF StepWithSession, Beat
  <2>5. CASE StepWhileStarting \/ StepBootstraps
    BY <2>3, <2>5 DEF StepWhileStarting, StepBootstraps, Beat
  <2>6. CASE BootstrapReturns
    BY <2>2, <2>6 DEF BootstrapReturns
  <2>7. ASSUME HandleResult, UNCHANGED heartbeat
        PROVE  /\ processing' => safetyTimer' # None
               /\ expectStaleResult' => staleResultTimer' # None
    BY <2>7 DEF HandleResult
  <2>8. CASE OnOutput \/ SessionExits
    BY <2>7, <2>8 DEF OnOutput, SessionExits
  <2>9. CASE Timers
    BY <2>9 DEF Timers, StaleTimeoutFires, OrphanTimeoutFires, WorkTimeoutFires
  <2>10. CASE Tick
    BY <2>10, ElapseType, TimingAssumption, NoneAssumption DEF Tick, Elapse, TypeOK, Expired
  <2>11. CASE StopHeartbeat
    BY <2>11 DEF StopHeartbeat
  <2>12. CASE Spawn \/ BootstrapThrows \/ BootstrapRetries
    BY <2>1, <2>12 DEF Spawn, BootstrapThrows, BootstrapRetries
  <2>13. CASE SessionStopped \/ StartedElsewhere
    BY <2>1, <2>13 DEF SessionStopped, StartedElsewhere
  <2>14. CASE \E p \in Percepts : Push(p)
    BY <2>1, <2>14 DEF Push
  <2>15. CASE UNCHANGED vars
    BY <2>1, <2>15 DEF vars
  <2>16. CASE Socket
    BY <2>1, <2>16 DEF Socket, Connect, ConnectInVain, ConnectionBreaks, ConnectionCloses
  <2> QED
    BY <2>4, <2>5, <2>6, <2>8, <2>9, <2>10, <2>11, <2>12, <2>13, <2>14, <2>15, <2>16
    DEF Next, Step, Bootstrap, Environment
<1> QED BY <1>1, <1>2, TypeCorrect, PTL DEF Spec

-----------------------------------------------------------------------------
\* As long as no session was lost, an armed safety timer was armed by a slice
\* at most Period ticks ago, and the session that slice talked to is there.
SafetyRearmed ==
  (faults = 0 /\ heartbeat # None /\ safetyTimer # None) =>
    session /\ safetyTimer >= WorkTimeout - Period + heartbeat

\* The step of SafetyRearmed: a slice re-arms the timer in full, a beat finds
\* the session and takes a slice, and everything else lets both run down.
LEMMA SafetyRearmedStep ==
  TypeOK /\ SafetyRearmed /\ [Next]_vars => SafetyRearmed'
<1> SUFFICES ASSUME TypeOK, SafetyRearmed, [Next]_vars,
                    faults' = 0, heartbeat' # None, safetyTimer' # None
             PROVE  session' /\ safetyTimer' >= WorkTimeout - Period + heartbeat'
  BY DEF SafetyRearmed
<1> USE DEF SafetyRearmed, sessionVars, timerVars
<1>0. /\ Period \in Nat /\ WorkTimeout \in Nat
      /\ faults \in Nat
      /\ heartbeat # None => heartbeat \in 0..Period
      /\ safetyTimer # None => safetyTimer \in 0..WorkTimeout
  BY TimingAssumption DEF TypeOK, Timer
<1>1. CASE UNCHANGED <<faults, heartbeat, session, safetyTimer>>
  BY <1>1
<1>2. CASE StepWithSession
  <2>1. session' /\ heartbeat' = Period
    BY <1>2 DEF StepWithSession, Beat
  <2>2. safetyTimer' = WorkTimeout
    BY <1>2 DEF StepWithSession, Slice, SendWorldview
  <2> QED BY <1>0, <2>1, <2>2
<1>3. CASE StepWhileStarting \/ StepBootstraps
  BY <1>3, NoneAssumption DEF StepWhileStarting, StepBootstraps, Beat
<1>4. CASE Spawn
  <2>1. UNCHANGED <<faults, heartbeat, safetyTimer>> /\ session'
    BY <1>4 DEF Spawn
  <2> QED BY <2>1
<1>5. CASE BootstrapReturns
  <2>1. UNCHANGED <<faults, heartbeat, session>>
    BY <1>5 DEF BootstrapReturns
  <2>2. CASE session
    <3>1. safetyTimer' = WorkTimeout
      BY <1>5, <2>2 DEF BootstrapReturns, Slice, SendWorldview
    <3> QED BY <1>0, <2>1, <2>2, <3>1
  <2>3. CASE ~session
    <3>1. safetyTimer' = safetyTimer
      BY <1>5, <2>3 DEF BootstrapReturns, Slice, SendWorldview
    <3> QED BY <2>1, <3>1
  <2> QED BY <2>2, <2>3
<1>6. CASE BootstrapThrows \/ BootstrapRetries \/ SessionExits \/ SessionStopped
  <2>1. faults' = faults + 1
    BY <1>6 DEF BootstrapThrows, BootstrapRetries, SessionExits, SessionStopped, Lose
  <2> QED BY <1>0, <2>1
<1>7. CASE OnOutput
  <2>1. UNCHANGED <<faults, heartbeat, session>>
    BY <1>7 DEF OnOutput
  <2>2. safetyTimer' = safetyTimer
    BY <1>7 DEF OnOutput, HandleResult
  <2> QED BY <2>1, <2>2
<1>8. CASE Timers
  <2>1. UNCHANGED <<faults, heartbeat, session>>
    BY <1>8 DEF Timers, StaleTimeoutFires, OrphanTimeoutFires, WorkTimeoutFires
  <2>2. safetyTimer' = safetyTimer
    BY <1>8 DEF Timers, StaleTimeoutFires, OrphanTimeoutFires, WorkTimeoutFires
  <2> QED BY <2>1, <2>2
<1>9. CASE Tick
  <2>1. UNCHANGED <<faults, session>>
    BY <1>9 DEF Tick
  <2>2. /\ heartbeat # None /\ heartbeat' = heartbeat - 1
        /\ safetyTimer # None /\ safetyTimer' = safetyTimer - 1
    BY <1>9 DEF Tick, Elapse
  <2> QED BY <1>0, <2>1, <2>2
<1>10. CASE StartedElsewhere
  <2>1. UNCHANGED <<faults, heartbeat, safetyTimer>> /\ session'
    BY <1>10 DEF StartedElsewhere
  <2> QED BY <2>1
<1>11. CASE StopHeartbeat
  BY <1>11 DEF StopHeartbeat
<1>12. CASE \E p \in Percepts : Push(p)
  BY <1>1, <1>12 DEF Push
<1>13. CASE UNCHANGED vars
  BY <1>1, <1>13 DEF vars
<1>14. CASE Socket
  BY <1>1, <1>14 DEF Socket, Connect, ConnectInVain, ConnectionBreaks, ConnectionCloses
<1> QED
  BY <1>2, <1>3, <1>4, <1>5, <1>6, <1>7, <1>8, <1>9, <1>10, <1>11, <1>12, <1>13, <1>14
  DEF Next, Step, Bootstrap, Environment

\* A hung turn is never given up by WORK_TIMEOUT_MS while its session lives:
\* with INTERVAL_MS < WORK_TIMEOUT_MS every beat re-arms the timer in time.
THEOREM WorkTimeoutNeverFires == Spec => []WorkTimeoutNeedsLostSession
<1>1. Init => SafetyRearmed
  BY DEF Init, SafetyRearmed
<1>2. TypeOK /\ SafetyRearmed => WorkTimeoutNeedsLostSession
  BY TimingAssumption, NoneAssumption
  DEF SafetyRearmed, WorkTimeoutNeedsLostSession, TypeOK, Timer
<1> QED BY <1>1, <1>2, SafetyRearmedStep, TypeCorrect, PTL DEF Spec

-----------------------------------------------------------------------------
\* The newest slice is the last of the ring.
LEMMA CommitNewest ==
  ASSUME NEW ring \in Seq(SUBSET Percepts), Len(ring) <= RingSize,
         NEW slice \in SUBSET Percepts
  PROVE  LET next == Commit(ring, slice)
         IN  Len(next) \in 1..Len(next) /\ next[Len(next)] = slice
BY RingAssumption DEF Commit

\* A slice that is not the oldest of a full ring survives the next commit, one
\* slice older.
LEMMA CommitKeeps ==
  ASSUME NEW ring \in Seq(SUBSET Percepts), Len(ring) <= RingSize,
         NEW slice \in SUBSET Percepts,
         NEW i \in 1..Len(ring), Len(ring) - i + 1 < RingSize
  PROVE  LET next == Commit(ring, slice)
         IN  \E j \in 1..Len(next) : /\ next[j] = ring[i]
                                     /\ Len(next) - j + 1 = Len(ring) - i + 2
<1> DEFINE longer == Append(ring, slice)
<1>1. Len(longer) = Len(ring) + 1 /\ longer[i] = ring[i]
  OBVIOUS
<1>2. CASE Len(longer) > RingSize
  <2>1. i - 1 \in 1..(Len(longer) - 1)
    BY <1>1, <1>2, RingAssumption
  <2>2. Len(Tail(longer)) = Len(longer) - 1 /\ Tail(longer)[i - 1] = longer[i]
    BY <1>1, <2>1
  <2>3. Commit(ring, slice) = Tail(longer)
    BY <1>2 DEF Commit
  <2> DEFINE next == Commit(ring, slice)
  <2>4. i - 1 \in 1..Len(next) /\ next[i - 1] = ring[i]
    BY <1>1, <2>1, <2>2, <2>3
  <2>5. Len(next) - (i - 1) + 1 = Len(ring) - i + 2
    BY <1>1, <2>2, <2>3
  <2> QED BY <2>4, <2>5
<1>3. CASE ~(Len(longer) > RingSize)
  BY <1>1, <1>3 DEF Commit
<1> QED BY <1>2, <1>3

\* A percept of the last n slices.
Young(p, n) ==
  \E i \in 1..Len(recentSlices) :
    p \in recentSlices[i] /\ Len(recentSlices) - i + 1 <= n

LEMMA YoungMonotone ==
  ASSUME NEW p, NEW k \in Int, NEW n \in Int, k <= n, TypeOK, Young(p, k)
  PROVE  Young(p, n)
<1>1. PICK i \in 1..Len(recentSlices) :
        p \in recentSlices[i] /\ Len(recentSlices) - i + 1 <= k
  BY DEF Young
<1>2. Len(recentSlices) - i + 1 \in Int
  BY DEF TypeOK
<1>3. Len(recentSlices) - i + 1 <= n
  BY <1>1, <1>2
<1> QED BY <1>1, <1>3 DEF Young

\* The percepts shown neither to the CLI nor by the first m worldviews that wait,
\* and how many worldviews could have shown them: the ones behind those m, and
\* if m is 0 the ones that were lost.  (What waits are the newest worldviews.)
Missed(m) ==
  {p \in arrived \ buffer : ~Shows(told, p) /\ \A l \in 1..m : ~Shows(outbound[l], p)}

Behind(m) == Len(outbound) - m + IF m = 0 THEN lost ELSE 0

MissedAreYoung ==
  lost < RingSize =>
    \A m \in 0..Len(outbound) :
      Behind(m) < RingSize => \A p \in Missed(m) : Young(p, Behind(m))

TextsAreKept ==
  lost = 0 => \A p \in arrived \ buffer : Text(p) \in Waiting \union told

WaitsForSocket == (session /\ socket = "none") \/ outbound = << >>

RingInv == MissedAreYoung /\ TextsAreKept /\ WaitsForSocket

LEMMA ShowsUnion ==
  ASSUME NEW p, NEW a, NEW b
  PROVE  Shows(a \union b, p) <=> Shows(a, p) \/ Shows(b, p)
BY DEF Shows

LEMMA ShowsAll ==
  ASSUME NEW p, NEW views \in Seq(Views)
  PROVE  Shows(UNION Range(views), p) <=> \E l \in 1..Len(views) : Shows(views[l], p)
BY DEF Shows, Range

\* After a slice its percepts are in the ring, and those of the last n slices
\* are of the last n + 1 now, if the ring is that long.
LEMMA Aging ==
  ASSUME TypeOK, Slice, NEW p, NEW n \in Nat, n < RingSize,
         p \in buffer \/ Young(p, n)
  PROVE  Young(p, n + 1)' /\ p \in Remembered'
<1>0. /\ recentSlices \in Seq(SUBSET Percepts) /\ Len(recentSlices) <= RingSize
      /\ buffer \in SUBSET Percepts
  BY DEF TypeOK
<1>1. recentSlices' = Commit(recentSlices, buffer)
  BY DEF Slice, BuildWorldview
<1>2. \E j \in 1..Len(recentSlices') :
        p \in recentSlices'[j] /\ Len(recentSlices') - j + 1 <= n + 1
  <2>1. CASE p \in buffer
    <3> DEFINE j == Len(recentSlices')
    <3>1. j \in 1..Len(recentSlices') /\ p \in recentSlices'[j]
      BY <1>0, <1>1, <2>1, CommitNewest
    <3>2. j - j + 1 <= n + 1
      BY <3>1
    <3> QED BY <3>1, <3>2
  <2>2. CASE Young(p, n)
    <3>1. PICK i \in 1..Len(recentSlices) :
            p \in recentSlices[i] /\ Len(recentSlices) - i + 1 <= n
      BY <2>2 DEF Young
    <3>2. Len(recentSlices) \in Nat /\ RingSize \in Nat
      BY <1>0, RingAssumption
    <3>3. Len(recentSlices) - i + 1 < RingSize
      BY <3>1, <3>2
    <3>4. PICK j \in 1..Len(recentSlices') :
            /\ recentSlices'[j] = recentSlices[i]
            /\ Len(recentSlices') - j + 1 = Len(recentSlices) - i + 2
      BY <1>0, <1>1, <3>3, CommitKeeps
    <3> QED BY <3>1, <3>2, <3>4
  <2> QED BY <2>1, <2>2
<1>3. recentSlices' \in Seq(SUBSET Percepts)
  BY <1>0, <1>1, CommitType
<1> QED BY <1>2, <1>3 DEF Young, Remembered

\* The worldview of a slice shows every percept that only lost worldviews could
\* have shown before, and so is the first not to miss it.
LEMMA SliceShows ==
  ASSUME TypeOK, RingInv, Slice, lost < RingSize,
         NEW p \in arrived, p \in buffer \/ p \in Missed(Len(outbound))
  PROVE  Shows(Presented, p)
<1> DEFINE n == Behind(Len(outbound))
<1>1. n \in Nat /\ n < RingSize /\ Len(outbound) \in 0..Len(outbound)
  BY RingAssumption DEF TypeOK, Behind
<1>2. p \in buffer \/ Young(p, n)
  BY <1>1 DEF RingInv, MissedAreYoung
<1>3. p \in Remembered'
  BY <1>1, <1>2, Aging
<1> QED BY <1>3 DEF Shows, Presented

\* A slice keeps the invariant, whatever becomes of its worldview.
LEMMA SliceKeepsRing ==
  ASSUME TypeOK, RingInv, Slice, session' = session
  PROVE  RingInv'
<1>0. /\ outbound \in Seq(Views) /\ Len(outbound) \in Nat
      /\ lost \in Nat /\ RingSize \in Nat /\ RingSize > 0
      /\ arrived' = arrived /\ buffer' = {} /\ socket' = socket
  BY RingAssumption DEF TypeOK, Slice, BuildWorldview, SendWorldview
<1>1. CASE session /\ socket = "none"
  <2>1. outbound' = Append(outbound, Presented) /\ UNCHANGED <<told, lost>>
    BY <1>1 DEF Slice, SendWorldview, Hand
  <2>2. /\ Len(outbound') = Len(outbound) + 1
        /\ \A l \in 1..Len(outbound) : outbound'[l] = outbound[l]
        /\ outbound'[Len(outbound) + 1] = Presented
    BY <1>0, <2>1
  <2>3. MissedAreYoung'
    <3> SUFFICES ASSUME lost < RingSize, NEW m \in 0..Len(outbound) + 1,
                        Behind(m)' < RingSize, NEW p \in Missed(m)'
                 PROVE  Young(p, Behind(m))'
      BY <2>1, <2>2 DEF MissedAreYoung
    <3>1. p \in arrived /\ ~Shows(told, p) /\ \A l \in 1..m : ~Shows(outbound'[l], p)
      BY <1>0, <2>1 DEF Missed
    <3>2. CASE m <= Len(outbound)
      <4>1. m \in 0..Len(outbound) /\ \A l \in 1..m : ~Shows(outbound[l], p)
        <5>1. \A l \in 1..m : l \in 1..Len(outbound)
          BY <1>0, <3>2
        <5> QED BY <2>2, <3>1, <3>2, <5>1
      <4>2. Behind(m)' = Behind(m) + 1 /\ Behind(m) \in Nat
        BY <1>0, <2>1, <2>2, <4>1 DEF Behind
      <4>3. p \in buffer \/ p \in Missed(m)
        BY <3>1, <4>1 DEF Missed
      <4>4. p \in buffer \/ Young(p, Behind(m))
        BY <1>0, <4>1, <4>2, <4>3 DEF RingInv, MissedAreYoung
      <4>5. PICK k \in Nat : k = Behind(m)
        BY <4>2
      <4>6. p \in buffer \/ Young(p, k)
        BY <4>4, <4>5
      <4>7. Young(p, k + 1)'
        <5>1. k < RingSize
          BY <1>0, <4>2, <4>5
        <5> QED BY <4>6, <5>1, Aging
      <4>8. Behind(m)' = k + 1
        BY <4>2, <4>5
      <4> QED BY <4>7, <4>8
    <3>3. CASE m = Len(outbound) + 1
      <4>1. ~Shows(Presented, p)
        BY <1>0, <2>2, <3>1, <3>3
      <4>2. \A l \in 1..Len(outbound) : ~Shows(outbound[l], p)
        BY <1>0, <2>2, <3>1, <3>3
      <4>3. p \in buffer \/ p \in Missed(Len(outbound))
        BY <3>1, <4>2 DEF Missed
      <4> QED BY <3>1, <4>1, <4>3, SliceShows
    <3> QED BY <1>0, <3>2, <3>3
  <2>4. TextsAreKept'
    <3>1. Waiting' = Waiting \union Presented
      BY <1>0, <2>1, <2>2 DEF Waiting, Range
    <3> QED BY <1>0, <2>1, <3>1 DEF RingInv, TextsAreKept, Presented
  <2> QED BY <1>0, <1>1, <2>3, <2>4 DEF RingInv, WaitsForSocket
<1>2. CASE outbound = << >> /\ session /\ socket = "open"
  <2>1. told' = told \union Presented /\ UNCHANGED <<outbound, lost>>
    BY <1>2 DEF Slice, SendWorldview, Hand
  <2>2. MissedAreYoung'
    <3> SUFFICES ASSUME lost < RingSize, NEW m \in 0..0, NEW p \in Missed(m)'
                 PROVE  FALSE
      BY <1>2, <2>1 DEF MissedAreYoung
    <3>1. p \in arrived /\ ~Shows(told, p) /\ ~Shows(Presented, p)
      BY <1>0, <2>1, ShowsUnion DEF Missed
    <3>2. p \in buffer \/ p \in Missed(Len(outbound))
      BY <1>2, <3>1 DEF Missed
    <3> QED BY <3>1, <3>2, SliceShows
  <2>3. TextsAreKept'
    BY <1>0, <2>1 DEF RingInv, TextsAreKept, Presented, Waiting
  <2> QED BY <1>0, <1>2, <2>1, <2>2, <2>3 DEF RingInv, WaitsForSocket
<1>3. CASE outbound = << >> /\ (~session \/ socket = "dead")
  <2>1. Loses(1) /\ UNCHANGED <<outbound, told>>
    BY <1>3 DEF Slice, SendWorldview, Hand
  <2>2. lost' < RingSize => lost' = lost + 1
    BY <1>0, <2>1 DEF Loses
  <2>3. lost' > 0
    BY <1>0, <2>1 DEF Loses
  <2>4. MissedAreYoung'
    <3> SUFFICES ASSUME lost' < RingSize, NEW m \in 0..0, NEW p \in Missed(m)'
                 PROVE  Young(p, Behind(m))'
      BY <1>3, <2>1 DEF MissedAreYoung
    <3>1. Behind(m)' = lost + 1 /\ Behind(0) = lost /\ lost < RingSize
      BY <1>0, <1>3, <2>1, <2>2 DEF Behind
    <3>2. p \in buffer \/ p \in Missed(0)
      BY <1>0, <2>1 DEF Missed
    <3>3. p \in buffer \/ Young(p, lost)
      BY <1>3, <3>1, <3>2 DEF RingInv, MissedAreYoung
    <3>4. PICK k \in Nat : k = lost
      BY <1>0
    <3>5. Young(p, k + 1)'
      BY <3>1, <3>3, <3>4, Aging
    <3> QED BY <3>1, <3>4, <3>5
  <2> QED BY <1>0, <1>3, <2>1, <2>3, <2>4 DEF RingInv, TextsAreKept, WaitsForSocket
<1> QED BY <1>1, <1>2, <1>3 DEF RingInv, WaitsForSocket, TypeOK

\* A session that ends takes what waits for it along.
LEMMA GoneKeepsRing ==
  ASSUME TypeOK, RingInv, SessionGone, UNCHANGED bufferVars
  PROVE  RingInv'
<1>0. /\ outbound' = << >> /\ told' = told /\ Loses(Len(outbound))
      /\ Len(outbound) \in Nat /\ lost \in Nat /\ RingSize \in Nat
      /\ UNCHANGED <<buffer, recentSlices, arrived>>
  BY RingAssumption DEF SessionGone, TypeOK, bufferVars
<1>1. lost' < RingSize => lost' = lost + Len(outbound)
  BY <1>0 DEF Loses
<1>2. MissedAreYoung'
  <2> SUFFICES ASSUME lost' < RingSize, NEW m \in 0..0, NEW p \in Missed(m)'
               PROVE  Young(p, Behind(m))'
    BY <1>0 DEF MissedAreYoung
  <2>1. p \in Missed(0)
    BY <1>0 DEF Missed
  <2>2. Behind(m)' = Behind(0) /\ Behind(0) < RingSize /\ lost < RingSize
    BY <1>0, <1>1 DEF Behind
  <2>3. Young(p, Behind(0))
    BY <1>0, <2>1, <2>2 DEF RingInv, MissedAreYoung
  <2> QED BY <1>0, <2>2, <2>3 DEF Young
<1>3. TextsAreKept'
  <2> SUFFICES ASSUME lost' = 0, NEW p \in arrived \ buffer PROVE Text(p) \in told
    BY <1>0 DEF TextsAreKept
  <2>1. lost = 0 /\ outbound = << >>
    BY <1>0, <1>1, RingAssumption DEF TypeOK
  <2> QED BY <2>1 DEF RingInv, TextsAreKept, Waiting, Range
<1> QED BY <1>0, <1>2, <1>3 DEF RingInv, WaitsForSocket

\* When the CLI connects it gets what waits, or the first of it.
LEMMA SocketKeepsRing ==
  ASSUME TypeOK, RingInv, Socket
  PROVE  RingInv'
<1>0. /\ outbound \in Seq(Views) /\ Len(outbound) \in Nat
      /\ lost \in Nat /\ RingSize \in Nat
      /\ UNCHANGED <<buffer, recentSlices, arrived, session>>
  BY RingAssumption DEF TypeOK, Socket, Connect, ConnectInVain, ConnectionBreaks,
                        ConnectionCloses, bufferVars, sessionVars
\* The first n get through, and the rest is lost.
<1>1. ASSUME NEW n \in 0..Len(outbound), outbound' = << >>,
             \A p : Shows(told', p) <=> Shows(told, p) \/ \E l \in 1..n : Shows(outbound[l], p),
             lost' < RingSize => lost' = lost + (Len(outbound) - n)
      PROVE  MissedAreYoung'
  <2> SUFFICES ASSUME lost' < RingSize, NEW m \in 0..0, NEW p \in Missed(m)'
               PROVE  Young(p, Behind(m))'
    BY <1>1 DEF MissedAreYoung
  <2>1. p \in Missed(n)
    BY <1>0, <1>1 DEF Missed
  <2>2. /\ Behind(m)' = lost' /\ Behind(n) <= lost' /\ Behind(n) < RingSize
        /\ lost < RingSize /\ Behind(n) \in Int /\ lost' \in Int
    BY <1>0, <1>1 DEF Behind
  <2>3. Young(p, Behind(n))
    BY <1>1, <2>1, <2>2 DEF RingInv, MissedAreYoung
  <2>4. PICK k \in Int : k = lost'
    BY <2>2
  <2>5. PICK j \in Int : j = Behind(n)
    BY <2>2
  <2>6. Young(p, k)
    <3>1. Young(p, j) /\ j <= k
      BY <2>2, <2>3, <2>4, <2>5
    <3> QED BY <3>1, YoungMonotone
  <2> QED BY <1>0, <2>2, <2>4, <2>6 DEF Young
<1>2. CASE Connect
  <2>1. /\ outbound' = << >> /\ lost' = lost /\ told' = told \union UNION Range(outbound)
    BY <1>2 DEF Connect
  <2>2. \A p : Shows(told', p) <=> Shows(told, p) \/ \E l \in 1..Len(outbound) : Shows(outbound[l], p)
    BY <1>0, <2>1, ShowsUnion, ShowsAll
  <2>3. MissedAreYoung'
    <3>1. PICK n \in 0..Len(outbound) : n = Len(outbound)
      BY <1>0
    <3>2. lost' = lost + (Len(outbound) - n)
      BY <1>0, <2>1, <3>1
    <3>3. \A p : Shows(told', p) <=> Shows(told, p) \/ \E l \in 1..n : Shows(outbound[l], p)
      BY <2>2, <3>1
    <3> QED BY <1>1, <2>1, <3>2, <3>3
  <2>4. TextsAreKept'
    BY <1>0, <2>1 DEF RingInv, TextsAreKept, Waiting
  <2> QED BY <2>1, <2>3, <2>4 DEF RingInv, WaitsForSocket
<1>3. CASE ConnectInVain
  <2>1. PICK n \in 0..Len(outbound) - 1 :
          /\ told' = told \union UNION Range(SubSeq(outbound, 1, n))
          /\ Loses(Len(outbound) - n)
    BY <1>3 DEF ConnectInVain
  <2>2. /\ outbound' = << >> /\ n \in 0..Len(outbound) /\ Len(outbound) - n > 0
    BY <1>0, <1>3, <2>1 DEF ConnectInVain
  <2>3. /\ lost' < RingSize => lost' = lost + (Len(outbound) - n)
        /\ lost' # 0
    BY <1>0, <2>1, <2>2, RingAssumption DEF Loses
  <2>4. \A p : Shows(told', p) <=> Shows(told, p) \/ \E l \in 1..n : Shows(outbound[l], p)
    <3> DEFINE first == SubSeq(outbound, 1, n)
    <3>1. first \in Seq(Views) /\ Len(first) = n /\ \A l \in 1..n : first[l] = outbound[l]
      BY <1>0, <2>2, PrefixType
    <3> QED BY <2>1, <3>1, ShowsUnion, ShowsAll
  <2>5. MissedAreYoung'
    BY <1>1, <2>2, <2>3, <2>4
  <2> QED BY <2>2, <2>3, <2>5 DEF RingInv, TextsAreKept, WaitsForSocket
<1>4. CASE ConnectionBreaks \/ ConnectionCloses
  <2>1. UNCHANGED <<outbound, told, lost>>
    BY <1>4 DEF ConnectionBreaks, ConnectionCloses
  <2>2. \A m, p : /\ p \in Missed(m)' => p \in Missed(m)
                  /\ Behind(m)' = Behind(m)
                  /\ Young(p, Behind(m)) => Young(p, Behind(m))'
    BY <1>0, <2>1 DEF Missed, Behind, Young
  <2>3. MissedAreYoung'
    BY <1>0, <2>1, <2>2 DEF RingInv, MissedAreYoung
  <2>4. TextsAreKept'
    BY <1>0, <2>1 DEF RingInv, TextsAreKept, Waiting
  <2>5. WaitsForSocket'
    BY <1>0, <1>4, <2>1 DEF RingInv, WaitsForSocket, ConnectionBreaks, ConnectionCloses
  <2> QED BY <2>3, <2>4, <2>5 DEF RingInv
<1> QED BY <1>2, <1>3, <1>4 DEF Socket

\* The step of the ring invariant.
LEMMA RingInvStep == TypeOK /\ RingInv /\ [Next]_vars => RingInv'
<1> SUFFICES ASSUME TypeOK, RingInv, [Next]_vars PROVE RingInv'
  OBVIOUS
<1> USE DEF bootVars, bufferVars, wireVars, sessionVars
<1>1. ASSUME UNCHANGED <<bufferVars, wireVars>>, session => session'
      PROVE  RingInv'
  <2>1. MissedAreYoung'
    BY <1>1 DEF RingInv, MissedAreYoung, Missed, Behind, Young
  <2>2. TextsAreKept' /\ WaitsForSocket'
    BY <1>1 DEF RingInv, TextsAreKept, Waiting, WaitsForSocket
  <2> QED BY <2>1, <2>2 DEF RingInv
<1>2. CASE StepWithSession \/ BootstrapReturns
  BY <1>2, SliceKeepsRing DEF StepWithSession, BootstrapReturns
<1>3. CASE StepWhileStarting \/ StepBootstraps \/ Spawn
  BY <1>1, <1>3 DEF StepWhileStarting, StepBootstraps, Spawn
<1>4. CASE BootstrapThrows \/ BootstrapRetries
  BY <1>1, <1>4, GoneKeepsRing DEF BootstrapThrows, BootstrapRetries
<1>5. CASE SessionExits \/ SessionStopped
  BY <1>5, GoneKeepsRing DEF SessionExits, SessionStopped
<1>6. CASE StopHeartbeat
  BY <1>1, <1>6, GoneKeepsRing DEF StopHeartbeat
<1>7. CASE OnOutput \/ Tick \/ StartedElsewhere
  BY <1>1, <1>7 DEF OnOutput, Tick, StartedElsewhere
<1>8. CASE Timers
  BY <1>1, <1>8 DEF Timers, StaleTimeoutFires, OrphanTimeoutFires, WorkTimeoutFires
<1>9. CASE Socket
  BY <1>9, SocketKeepsRing
<1>10. ASSUME NEW q \in Percepts, Push(q) PROVE RingInv'
  <2>1. /\ UNCHANGED <<recentSlices, wireVars, session>>
        /\ arrived' = arrived \union {q} /\ buffer' = buffer \union {q}
    BY <1>10 DEF Push
  <2>2. MissedAreYoung'
    BY <2>1 DEF RingInv, MissedAreYoung, Missed, Behind, Young
  <2>3. TextsAreKept' /\ WaitsForSocket'
    BY <2>1 DEF RingInv, TextsAreKept, Waiting, WaitsForSocket
  <2> QED BY <2>2, <2>3 DEF RingInv
<1>11. CASE UNCHANGED vars
  BY <1>1, <1>11 DEF vars
<1> QED
  BY <1>2, <1>3, <1>4, <1>5, <1>6, <1>7, <1>8, <1>9, <1>10, <1>11
  DEF Next, Step, Bootstrap, Environment

\* A percept that has left the buffer is forgotten only after RingSize worldviews
\* were lost, in a queue that died with its session, on a dead socket or for want
\* of a session; but what a long text says beyond its gist with the first.
THEOREM PerceptsSurvive == Spec => []NoPerceptLost
<1>1. Init => RingInv
  BY RingAssumption DEF Init, RingInv, MissedAreYoung, Missed, TextsAreKept, WaitsForSocket
<1>2. TypeOK /\ RingInv => NoPerceptLost
  <2> SUFFICES ASSUME TypeOK, RingInv, NEW p \in arrived \ buffer, lost < RingSize,
                      p \notin Remembered, ~Shows(Waiting \union told, p)
               PROVE  FALSE
    BY DEF NoPerceptLost, RingInv, TextsAreKept
  <2> DEFINE m == Len(outbound)
  <2>1. ~Shows(told, p) /\ \A l \in 1..m : ~Shows(outbound[l], p)
    BY ShowsUnion, ShowsAll DEF Waiting, TypeOK
  <2>2. m \in 0..m /\ Behind(m) < RingSize
    BY RingAssumption DEF Behind, TypeOK
  <2>3. Young(p, Behind(m))
    BY <2>1, <2>2 DEF RingInv, MissedAreYoung, Missed
  <2> QED BY <2>3 DEF Young, Remembered, TypeOK
<1> QED BY <1>1, <1>2, RingInvStep, TypeCorrect, PTL DEF Spec
-----------------------------------------------------------------------------
(* With the CLI (ElioTurns) *)

\* The session comes up once and has one registration of onOutput; until it is
\* up nothing happened, and then a worldview was sent.
SessionUp ==
  /\ faults = 0 /\ heartbeat # None
  /\ starting <=> boot # "none"
  /\ boot # "none" => heartbeat = Period /\ (session <=> boot = "grace")
  /\ ~session => queuedCallbacks = 0
  /\ session /\ boot = "none" => callbacks = 1 /\ sent > 0
  /\ session /\ boot # "none" => callbacks = 0 /\ queuedCallbacks = 0
  /\ ~session \/ boot # "none" =>
       sent = 0 /\ wire = << >> /\ queued = {} /\ output = << >> /\ phase = "idle"

Results == [turn : Nat, prompts : SUBSET Nat]

\* The CLI's side: at most the newest worldview is under way to a turn, behind
\* an interrupt or not; a running turn it finds has been interrupted, so that
\* the mid-turn drain never takes it.
Underway ==
  /\ sent \in Nat /\ turn \in Nat /\ taken \subseteq Nat /\ aborted \in BOOLEAN
  /\ output \in Seq(Results)
  /\ notices = 0 /\ held = << >> /\ ~inputClosed
  /\ phase \in {"idle", "entry", "draining", "turn", "flush"}
  /\ wire \in {<< >>, <<sent>>, <<Cli!Interrupt, sent>>}
  /\ queued \in {{}, {sent}}
  /\ wire # << >> => queued = {} /\ sent > 0
  /\ queued # {} => sent > 0
  /\ phase = "turn" /\ (wire = <<sent>> \/ queued # {}) => aborted

ToBeTaken == wire # << >> \/ queued # {}

\* The newest worldview is where it can be: under way, in the turn, or in the
\* newest result.
NewestAsked ==
  sent > 0 =>
    \/ ToBeTaken
    \/ phase = "turn" /\ sent \in taken
    \/ phase # "turn" /\ output # << >> /\ sent \in output[Len(output)].prompts

\* Results the CLI will still deliver, and results MainLoop still waits for.
Owed == (Len(output) - delivered) + (IF phase = "turn" THEN 1 ELSE 0)
                                  + (IF ToBeTaken THEN 1 ELSE 0)
Awaited == (IF processing THEN 1 ELSE 0) + (IF expectStaleResult THEN 1 ELSE 0)

Balanced ==
  /\ delivered \in Nat /\ delivered <= Len(output)
  /\ Owed = Awaited
  /\ expectStaleResult => processing

\* A stale result comes before any time passes, so its timer never runs down.
StaleInTime ==
  /\ heartbeat # Period => ~ToBeTaken /\ ~expectStaleResult
  /\ orphanTimers = {}
  /\ staleResultTimer = IF expectStaleResult THEN StaleTimeout ELSE None

ElioInv == SessionUp /\ Underway /\ NewestAsked /\ Balanced /\ StaleInTime

\* The composition takes no step MainLoop by itself could not take, and so
\* keeps all that is proved of MainLoop.  (A step of the CLI is none of
\* MainLoop's.)
THEOREM ElioImplementsMainLoop == ElioSpec => Spec
<1>1. ElioInit => Init
  BY DEF ElioInit
<1>2. [ElioNext]_elioVars => [Next]_vars
  <2> SUFFICES ASSUME [ElioNext]_elioVars PROVE [Next]_vars
    OBVIOUS
  <2>1. CASE PresentSlice
    BY <2>1 DEF PresentSlice, Next, Step, Bootstrap
  <2>2. CASE LoopOnly
    BY <2>2 DEF LoopOnly, Next, Step, Bootstrap, Socket
  <2>3. CASE TimePasses
    BY <2>3 DEF TimePasses, Next
  <2>4. CASE Deliver
    BY <2>4 DEF Deliver, Next
  <2>5. CASE CliStep
    BY <2>5 DEF CliStep
  <2>6. CASE UNCHANGED elioVars
    BY <2>6 DEF elioVars
  <2> QED BY <2>1, <2>2, <2>3, <2>4, <2>5, <2>6 DEF ElioNext
<1> QED BY <1>1, <1>2, PTL DEF ElioSpec, Spec

\* A prompt CLI is a CLI.
LEMMA PromptIsElio == PromptSpec => ElioSpec
<1>1. [PromptNext]_elioVars => [ElioNext]_elioVars
  BY DEF PromptNext, ElioNext
<1> QED BY <1>1, PTL DEF PromptSpec, ElioSpec

\* What MainLoop keeps by itself.
LoopInv == TypeOK /\ WorkTimeoutNeedsLostSession

LEMMA LoopKept == PromptSpec => []LoopInv
BY PromptIsElio, ElioImplementsMainLoop, TypeCorrect, WorkTimeoutNeverFires, PTL DEF LoopInv

\* The CLI's steps when there is at most one prompt about and no task.
LEMMA CliMoves ==
  ASSUME ElioInv, CliStep
  PROVE  /\ Cli!ReadPrompt \/ Cli!ReadInterrupt \/ Cli!EnterRun \/ Cli!StartTurn
               \/ Cli!EndTurn \/ Cli!EmitHeld \/ Cli!LeaveRun
         /\ ~(Cli!EndTurn /\ held' # << >>)
<1>1. Cli!Running({}) = {}
  BY DEF Cli!Running
<1>2. Cli!Tasks = {}
  BY DEF Cli!Tasks
<1>3. ~Cli!OpenGate
  BY DEF ElioInv, Underway, Cli!OpenGate, Cli!QueueEmpty
<1>4. \A sleepRan \in BOOLEAN : ~Cli!Consume(sleepRan)
  BY DEF ElioInv, Underway, Cli!Consume
<1>5. ~Cli!Wait /\ ~Cli!Wake
  BY <1>1, <1>2 DEF ElioInv, Underway, Cli!Wait, Cli!Wake
<1>6. Cli!EndTurn => held' = << >>
  BY <1>1 DEF Cli!EndTurn
<1> QED BY <1>3, <1>4, <1>5, <1>6 DEF CliStep, Cli!Reader, Cli!Run, Cli!Turn

LEMMA ElioInvInit == ElioInit => ElioInv
<1> SUFFICES ASSUME ElioInit PROVE ElioInv
  OBVIOUS
<1>1. SessionUp
  BY NoneAssumption, TimingAssumption DEF ElioInit, Init, Cli!Init, SessionUp
<1>2. Underway
  <2>1. wire = << >> /\ queued = {} /\ output = << >>
    BY DEF ElioInit, Cli!Init
  <2>2. output \in Seq(Results)
    BY <2>1
  <2> QED BY <2>1, <2>2 DEF ElioInit, Cli!Init, Underway
<1>3. NewestAsked
  BY DEF ElioInit, Cli!Init, NewestAsked
<1>4. Balanced
  BY DEF ElioInit, Init, Cli!Init, Balanced, Owed, Awaited, ToBeTaken
<1>5. StaleInTime
  BY DEF ElioInit, Init, Cli!Init, StaleInTime, ToBeTaken
<1> QED BY <1>1, <1>2, <1>3, <1>4, <1>5 DEF ElioInv

\* When a slice is taken nothing is under way and no stale result is awaited.
LEMMA PresentKeeps ==
  ASSUME ElioInv, LoopInv, PresentSlice
  PROVE  ElioInv'
<1> USE DEF bootVars, turnVars, timerVars, bufferVars, sessionVars
<1>0. WriteSlice
  BY DEF PresentSlice
<1>1. /\ session /\ Slice
      /\ UNCHANGED <<session, queuedCallbacks, faults>>
      /\ heartbeat' = Period
      /\ boot' = "none" /\ starting' = FALSE /\ callbacks' = 1
      /\ ~ToBeTaken /\ ~expectStaleResult
  <2>1. CASE StepWithSession
    <3>1. heartbeat = 0 /\ Period # 0
      BY <2>1, TimingAssumption DEF StepWithSession, Beat
    <3> QED BY <2>1, <3>1 DEF StepWithSession, Beat, ElioInv, SessionUp, StaleInTime
  <2>2. CASE BootstrapReturns /\ session
    <3>1. ~ToBeTaken /\ sent = 0 /\ output = << >> /\ phase = "idle"
      BY <2>2 DEF BootstrapReturns, ElioInv, SessionUp, ToBeTaken
    <3>2. ~expectStaleResult
      BY <3>1 DEF ElioInv, Balanced, Owed, Awaited
    <3> QED BY <2>2, <3>1, <3>2 DEF BootstrapReturns, ElioInv, SessionUp
  <2> QED BY <2>1, <2>2 DEF PresentSlice
<1>2. wire = << >> /\ queued = {}
  BY <1>1 DEF ToBeTaken
<1>3. /\ sent' = sent + 1 /\ sent \in Nat
      /\ wire' = Append(Interrupts, sent + 1)
      /\ UNCHANGED <<inputClosed, queued, notices, phase, turn, taken, aborted, seen,
                     task, held, output, dropped, late, delivered>>
  BY <1>0, <1>2 DEF WriteSlice, Interrupts, ElioInv, Underway
<1>4. processing' = TRUE /\ expectStaleResult' = processing
  BY <1>1 DEF Slice, InterruptTurn, SendWorldview, LoopInv, TypeOK
<1>5. wire' = IF processing THEN <<Cli!Interrupt, sent'>> ELSE <<sent'>>
  BY <1>3 DEF Interrupts
<1>6. SessionUp'
  BY <1>1, <1>3, TimingAssumption, NoneAssumption DEF SessionUp, ElioInv
<1>7. phase = "turn" => processing
  BY <1>1 DEF ElioInv, Balanced, Owed, Awaited
<1>8. Underway'
  <2>1. /\ wire' \in {<< >>, <<sent'>>, <<Cli!Interrupt, sent'>>}
        /\ phase' = "turn" => wire' # <<sent'>>
    <3>1. CASE processing
      <4>1. wire' = <<Cli!Interrupt, sent'>>
        BY <1>5, <3>1
      <4>2. Len(wire') = 2 /\ Len(<<sent'>>) = 1
        BY <4>1
      <4> QED BY <4>1, <4>2
    <3>2. CASE ~processing
      BY <1>3, <1>5, <1>7, <3>2
    <3> QED BY <3>1, <3>2
  <2> QED BY <1>2, <1>3, <2>1 DEF Underway, ElioInv
<1>9. ToBeTaken'
  BY <1>5 DEF ToBeTaken
<1>10. NewestAsked'
  BY <1>9 DEF NewestAsked
<1>11. Balanced'
  BY <1>1, <1>3, <1>4, <1>9 DEF Balanced, Owed, Awaited, ElioInv, LoopInv, TypeOK
<1>12. StaleInTime'
  <2>1. staleResultTimer = None /\ orphanTimers = {}
    BY <1>1 DEF ElioInv, StaleInTime
  <2> QED BY <1>1, <1>4, <2>1 DEF StaleInTime, Slice, InterruptTurn, Overwritten, LoopInv, TypeOK
<1> QED BY <1>6, <1>8, <1>10, <1>11, <1>12 DEF ElioInv

\* No timer but the heartbeat runs out, so MainLoop's other steps move only the
\* percepts and the bootstrap.
LEMMA LoopOnlyKeeps ==
  ASSUME ElioInv, LoopInv, LoopOnly
  PROVE  ElioInv'
<1> USE DEF bootVars, turnVars, timerVars, bufferVars, sessionVars, cliVars
<1>0. UNCHANGED <<cliVars, delivered>>
  BY DEF LoopOnly
<1>1. ~Timers
  <2>1. staleResultTimer # 0 /\ 0 \notin orphanTimers
    BY TimingAssumption, NoneAssumption DEF ElioInv, StaleInTime
  <2>2. safetyTimer # 0
    BY DEF LoopInv, WorkTimeoutNeedsLostSession, ElioInv, SessionUp
  <2> QED BY <2>1, <2>2 DEF Timers, StaleTimeoutFires, OrphanTimeoutFires, WorkTimeoutFires
<1>2. ~StepWhileStarting
  BY TimingAssumption DEF StepWhileStarting, Beat, ElioInv, SessionUp
<1>3. /\ UNCHANGED <<turnVars, timerVars, faults>>
      /\ SessionUp'
      /\ heartbeat' = Period \/ heartbeat' = heartbeat
  <2>1. CASE \E p \in Percepts : Push(p)
    BY <1>0, <2>1 DEF Push, ElioInv, SessionUp
  <2>2. CASE StepBootstraps
    BY <1>0, <2>2, TimingAssumption, NoneAssumption DEF StepBootstraps, Beat, ElioInv, SessionUp
  <2>3. CASE Spawn
    BY <1>0, <2>3 DEF Spawn, ElioInv, SessionUp
  <2>4. CASE Connect
    BY <1>0, <2>4 DEF Connect, ElioInv, SessionUp
  <2> QED BY <1>1, <1>2, <2>1, <2>2, <2>3, <2>4 DEF LoopOnly
<1>4. Underway'
  BY <1>0 DEF ElioInv, Underway
<1>5. NewestAsked'
  BY <1>0 DEF ElioInv, NewestAsked, ToBeTaken
<1>6. Balanced'
  BY <1>0, <1>3 DEF ElioInv, Balanced, Owed, Awaited, ToBeTaken
<1>7. StaleInTime'
  BY <1>0, <1>3 DEF ElioInv, StaleInTime, ToBeTaken
<1> QED BY <1>3, <1>4, <1>5, <1>6, <1>7 DEF ElioInv

\* The clock moves only when the CLI has settled: no stale result is due then.
LEMMA TimeKeeps ==
  ASSUME ElioInv, LoopInv, Settled, TimePasses
  PROVE  ElioInv'
<1> USE DEF bootVars, turnVars, timerVars, bufferVars, sessionVars, cliVars
<1>0. UNCHANGED <<cliVars, delivered>> /\ Tick /\ boot = "none"
  BY DEF TimePasses
<1>1. ~ToBeTaken /\ ~expectStaleResult
  BY DEF Settled, ToBeTaken, ElioInv, Balanced, Owed, Awaited
<1>2. heartbeat' = heartbeat - 1 /\ heartbeat' # None
  <2>1. heartbeat \in Int /\ heartbeat # None
    BY TimingAssumption DEF LoopInv, TypeOK, Timer, ElioInv, SessionUp
  <2> QED BY <1>0, <2>1, NoneAssumption DEF Tick, Elapse
<1>3. UNCHANGED <<starting, boot, turnVars, bufferVars, sessionVars, faults>>
  BY <1>0 DEF Tick
<1>4. SessionUp'
  BY <1>0, <1>2, <1>3 DEF ElioInv, SessionUp
<1>5. Underway'
  BY <1>0 DEF ElioInv, Underway
<1>6. NewestAsked'
  BY <1>0 DEF ElioInv, NewestAsked, ToBeTaken
<1>7. Balanced'
  BY <1>0, <1>3 DEF ElioInv, Balanced, Owed, Awaited, ToBeTaken
<1>8. StaleInTime'
  <2>1. staleResultTimer = None /\ orphanTimers = {}
    BY <1>1 DEF ElioInv, StaleInTime
  <2>2. staleResultTimer' = None /\ orphanTimers' = {}
    BY <1>0, <2>1 DEF Tick, Elapse
  <2> QED BY <1>0, <1>1, <1>3, <2>2 DEF StaleInTime, ToBeTaken
<1> QED BY <1>4, <1>5, <1>6, <1>7, <1>8 DEF ElioInv

LEMMA Counted ==
  ASSUME ElioInv
  PROVE  Len(output) \in Nat /\ delivered \in Nat /\ delivered <= Len(output)
BY DEF ElioInv, Underway, Balanced

\* A result settles one thing MainLoop waits for: the stale one first.
LEMMA ResultSettles ==
  ASSUME ElioInv, LoopInv, Deliver
  PROVE  /\ Awaited' = Awaited - 1
         /\ expectStaleResult' = FALSE
         /\ processing' = (processing /\ expectStaleResult)
         /\ staleResultTimer' = None
         /\ UNCHANGED <<heartbeat, bootVars, orphanTimers, sessionVars, faults>>
<1> USE DEF bootVars, turnVars, timerVars, bufferVars, sessionVars
<1>1. callbacks = 1
  BY DEF Deliver, OnOutput, ElioInv, SessionUp, Balanced, Underway
<1>2. Genuine <=> ~expectStaleResult
  BY <1>1 DEF Genuine
<1>3. HandleResult /\ UNCHANGED <<heartbeat, bootVars, sessionVars, faults>>
  BY DEF Deliver, OnOutput
<1>4. /\ expectStaleResult' = FALSE
      /\ processing' = (processing /\ expectStaleResult)
      /\ staleResultTimer' = None
      /\ UNCHANGED orphanTimers
  BY <1>1, <1>2, <1>3 DEF HandleResult, ElioInv, StaleInTime, LoopInv, TypeOK
<1>5. processing
  <2>1. Owed > 0
    BY Counted DEF Deliver, Owed
  <2> QED BY <2>1 DEF ElioInv, Balanced, Awaited
<1>6. Awaited' = Awaited - 1
  BY <1>4, <1>5 DEF Awaited, LoopInv, TypeOK
<1> QED BY <1>3, <1>4, <1>6

LEMMA DeliverKeeps ==
  ASSUME ElioInv, LoopInv, Deliver
  PROVE  ElioInv'
<1> USE DEF bootVars, turnVars, timerVars, bufferVars, sessionVars, cliVars
<1>0. UNCHANGED cliVars /\ delivered' = delivered + 1 /\ delivered < Len(output)
  BY DEF Deliver
<1>1. SessionUp'
  BY <1>0, ResultSettles DEF ElioInv, SessionUp, Deliver, OnOutput
<1>2. Underway'
  BY <1>0 DEF ElioInv, Underway
<1>3. NewestAsked'
  BY <1>0 DEF ElioInv, NewestAsked, ToBeTaken
<1>4. Balanced'
  <2>1. Owed' = Owed - 1
    BY <1>0, Counted DEF Owed, ToBeTaken
  <2>2. Owed = Awaited
    BY DEF ElioInv, Balanced
  <2>3. Owed' = Awaited'
    BY <2>1, <2>2, ResultSettles
  <2>4. expectStaleResult' = FALSE
    BY ResultSettles
  <2>5. delivered' \in Nat /\ delivered' <= Len(output')
    BY <1>0, Counted
  <2> QED BY <2>3, <2>4, <2>5 DEF Balanced
<1>5. StaleInTime'
  BY <1>0, ResultSettles DEF ElioInv, StaleInTime, ToBeTaken
<1> QED BY <1>1, <1>2, <1>3, <1>4, <1>5 DEF ElioInv

\* What a step of the CLI leaves as it is: whatever it does, it passes on.
Keeps ==
  /\ UNCHANGED sent /\ Underway' /\ NewestAsked'
  /\ Owed' = Owed /\ Len(output) <= Len(output')
  /\ ToBeTaken' => ToBeTaken

\* The reader and run() pass a worldview on; what they owe stays the same.
LEMMA CliPasses ==
  ASSUME ElioInv, CliStep
  PROVE  Keeps
<1>0. UNCHANGED delivered
  BY DEF CliStep
<1>2. CASE Cli!ReadPrompt
  <2>1. /\ wire = <<sent>> /\ wire' = << >> /\ queued = {} /\ queued' = {sent}
        /\ phase' = IF phase = "idle" THEN "entry" ELSE phase
        /\ UNCHANGED <<sent, inputClosed, turn, taken, aborted, seen, notices,
                       task, held, output, dropped>>
    BY <1>2 DEF Cli!ReadPrompt, Cli!CallRun, ElioInv, Underway, Cli!Interrupt,
           Cli!inputVars, Cli!queueVars, Cli!turnVars, Cli!resultVars
  <2>2. ToBeTaken /\ ToBeTaken'
    BY <2>1 DEF ToBeTaken
  <2>3. Underway'
    BY <2>1 DEF ElioInv, Underway
  <2> QED BY <1>0, <2>1, <2>2, <2>3, Counted DEF Keeps, NewestAsked, Owed, ElioInv
<1>3. CASE Cli!ReadInterrupt
  <2>1. /\ wire = <<Cli!Interrupt, sent>> /\ wire' = <<sent>> /\ queued = {}
        /\ aborted' = (aborted \/ phase = "turn")
        /\ UNCHANGED <<sent, inputClosed, queued, notices, phase, turn, taken, seen,
                       late, task, held, output, dropped>>
    <3>1. wire # << >> /\ Head(wire) = 0 /\ wire' = Tail(wire)
      BY <1>3 DEF Cli!ReadInterrupt, Cli!Interrupt
    <3>2. wire # <<sent>>
      BY <3>1 DEF ElioInv, Underway
    <3>3. wire = <<Cli!Interrupt, sent>> /\ queued = {}
      BY <3>1, <3>2 DEF ElioInv, Underway
    <3>4. wire' = <<sent>>
      BY <3>1, <3>3
    <3>5. phase # "gate"
      BY DEF ElioInv, Underway
    <3> QED BY <1>3, <3>3, <3>4, <3>5 DEF Cli!ReadInterrupt, Cli!InTurn, Cli!queueVars, Cli!resultVars
  <2>2. ToBeTaken /\ ToBeTaken'
    BY <2>1 DEF ToBeTaken
  <2>3. Underway'
    BY <2>1 DEF ElioInv, Underway
  <2> QED BY <1>0, <2>1, <2>2, <2>3, Counted DEF Keeps, NewestAsked, Owed, ElioInv
<1>4. CASE Cli!EnterRun
  BY <1>0, <1>4, Counted DEF Keeps, Cli!EnterRun, ElioInv, Underway, NewestAsked, Owed, ToBeTaken,
           Cli!inputVars, Cli!queueVars, Cli!turnVars, Cli!resultVars
<1>5. CASE Cli!StartTurn
  <2>1. /\ wire = << >> /\ queued = {sent} /\ queued' = {} /\ taken' = {sent}
        /\ phase = "draining" /\ phase' = "turn" /\ turn' = turn + 1
        /\ aborted' = FALSE
        /\ UNCHANGED <<wire, sent, inputClosed, notices, held, output>>
    BY <1>5 DEF Cli!StartTurn, Cli!QueueEmpty, ElioInv, Underway,
           Cli!inputVars, Cli!queueVars, Cli!turnVars, Cli!resultVars
  <2>2. ToBeTaken /\ ~ToBeTaken'
    BY <2>1 DEF ToBeTaken
  <2>3. Underway'
    <3>1. sent \in Nat /\ turn' \in Nat /\ taken' \subseteq Nat /\ ~inputClosed
      BY <2>1 DEF ElioInv, Underway
    <3>2. output' \in Seq(Results) /\ notices' = 0 /\ held' = << >>
      BY <2>1 DEF ElioInv, Underway
    <3> QED BY <2>1, <3>1, <3>2 DEF Underway
  <2> QED BY <1>0, <2>1, <2>2, <2>3, Counted DEF Keeps, NewestAsked, Owed, ElioInv
<1>6. CASE Cli!EndTurn
  <2>1. /\ phase = "turn" /\ phase' = "draining"
        /\ held' = << >> /\ aborted' = FALSE /\ taken' = {}
        /\ output' = Append(output, [turn |-> turn, prompts |-> taken])
        /\ UNCHANGED <<wire, sent, inputClosed, queued, notices, turn>>
    <3>1. held' = << >>
      BY <1>6, CliMoves
    <3>2. held' # <<Cli!ThisResult>>
      BY <3>1
    <3> QED BY <1>6, <3>1, <3>2 DEF Cli!EndTurn, Cli!ThisResult, Cli!inputVars, Cli!queueVars
  <2>2. UNCHANGED ToBeTaken
    BY <2>1 DEF ToBeTaken
  <2>3. [turn |-> turn, prompts |-> taken] \in Results
    BY DEF ElioInv, Underway, Results
  <2>4. /\ output' \in Seq(Results)
        /\ Len(output') = Len(output) + 1 /\ Len(output) \in Nat
        /\ output'[Len(output')] = [turn |-> turn, prompts |-> taken]
    BY <2>1, <2>3 DEF ElioInv, Underway
  <2>5. Underway'
    BY <2>1, <2>4 DEF ElioInv, Underway
  <2>6. NewestAsked'
    BY <2>1, <2>2, <2>4 DEF ElioInv, NewestAsked
  <2>7. Owed' = Owed
    BY <1>0, <2>1, <2>2, <2>4, Counted DEF Owed
  <2> QED BY <2>1, <2>2, <2>4, <2>5, <2>6, <2>7 DEF Keeps
<1>7. CASE Cli!EmitHeld
  <2>1. /\ output' = output /\ held' = << >> /\ phase = "draining" /\ phase' = "flush"
        /\ UNCHANGED <<wire, sent, inputClosed, queued, notices, turn, taken, aborted>>
    BY <1>7 DEF Cli!EmitHeld, ElioInv, Underway,
           Cli!inputVars, Cli!queueVars, Cli!turnVars, Cli!resultVars
  <2> QED BY <1>0, <2>1, Counted DEF Keeps, ElioInv, Underway, NewestAsked, Owed, ToBeTaken
<1>8. CASE Cli!LeaveRun
  BY <1>0, <1>8, Counted DEF Keeps, Cli!LeaveRun, Cli!QueueEmpty, ElioInv, Underway, NewestAsked, Owed,
              ToBeTaken,
           Cli!inputVars, Cli!queueVars, Cli!turnVars, Cli!resultVars
<1> QED BY <1>2, <1>3, <1>4, <1>5, <1>6, <1>7, <1>8, CliMoves

LEMMA CliKeeps ==
  ASSUME ElioInv, CliStep
  PROVE  ElioInv'
<1>0. UNCHANGED <<vars, delivered>>
  BY DEF CliStep
<1>1. UNCHANGED <<heartbeat, starting, boot, processing, expectStaleResult,
                 staleResultTimer, orphanTimers, session, callbacks, queuedCallbacks,
                 faults>>
  BY <1>0 DEF vars, bootVars, turnVars, timerVars, bufferVars, sessionVars
<1>9. Keeps
  BY CliPasses
<1>10. session /\ boot = "none"
  <2>1. ~(wire = << >> /\ phase = "idle")
    BY CliMoves DEF Cli!ReadPrompt, Cli!ReadInterrupt, Cli!EnterRun, Cli!StartTurn,
                    Cli!EndTurn, Cli!EmitHeld, Cli!LeaveRun
  <2> QED BY <2>1 DEF ElioInv, SessionUp
<1>11. SessionUp'
  BY <1>1, <1>9, <1>10 DEF Keeps, ElioInv, SessionUp
<1>12. Balanced'
  BY <1>0, <1>1, <1>9, Counted DEF Keeps, ElioInv, Balanced, Awaited
<1>13. StaleInTime'
  BY <1>1, <1>9 DEF Keeps, ElioInv, StaleInTime
<1> QED BY <1>9, <1>11, <1>12, <1>13 DEF Keeps, ElioInv

LEMMA ElioInvStep ==
  ASSUME ElioInv, LoopInv, [PromptNext]_elioVars
  PROVE  ElioInv'
<1>1. CASE UNCHANGED elioVars
  BY <1>1 DEF elioVars, vars, cliVars, bootVars, turnVars, timerVars, bufferVars,
              sessionVars, ElioInv, SessionUp, Underway, NewestAsked, Balanced, Owed,
              Awaited, ToBeTaken, StaleInTime
<1> QED BY <1>1, PresentKeeps, LoopOnlyKeeps, TimeKeeps, DeliverKeeps, CliKeeps DEF PromptNext

LEMMA ElioInvKept == PromptSpec => []ElioInv
BY ElioInvInit, ElioInvStep, LoopKept, PTL DEF PromptSpec

\* With a CLI that reacts within a tick, `processing` says exactly that the CLI
\* is in a turn whenever nothing is under way between them: MainLoop.ts counts
\* results without names and never loses count.
THEOREM FlagsTellTheTurn == PromptSpec => []ViewsAgree
<1>1. ElioInv /\ LoopInv => ViewsAgree
  BY DEF ViewsAgree, Settled, ElioInv, Balanced, Owed, Awaited, ToBeTaken, Underway,
         LoopInv, TypeOK
<1> QED BY <1>1, ElioInvKept, LoopKept, PTL

\* `processing` is cleared by no other result than that of the newest worldview:
\* the result of an interrupted turn is the one MainLoop.ts absorbs.
THEOREM StaleNeverClears == PromptSpec => StaleResultAbsorbed
<1> DEFINE Clears == processing /\ ~processing' /\ delivered' = delivered + 1
<1>1. ASSUME ElioInv, LoopInv, [PromptNext]_elioVars, Clears
      PROVE  sent \in output[delivered'].prompts
  <2>1. delivered' # delivered
    BY <1>1 DEF ElioInv, Balanced
  <2>2. Deliver
    BY <1>1, <2>1 DEF PromptNext, PresentSlice, WriteSlice, LoopOnly, TimePasses, CliStep,
                      elioVars
  <2>3. ~expectStaleResult
    BY <1>1, <2>2, ResultSettles
  <2>4. Owed = 1 /\ delivered < Len(output) /\ delivered \in Nat /\ Len(output) \in Nat
    BY <1>1, <2>2, <2>3 DEF ElioInv, Balanced, Awaited, Deliver, Underway
  <2>5. delivered' = Len(output) /\ phase # "turn" /\ ~ToBeTaken
    <3>1. delivered' = delivered + 1
      BY <1>1
    <3>2. CASE ToBeTaken
      BY <2>4, <3>2 DEF Owed
    <3>3. CASE ~ToBeTaken
      BY <2>4, <3>1, <3>3 DEF Owed
    <3> QED BY <3>2, <3>3
  <2>6. sent > 0
    BY <1>1, <2>2, <2>4 DEF ElioInv, SessionUp, Deliver, OnOutput
  <2> QED BY <1>1, <2>5, <2>6 DEF ElioInv, NewestAsked
<1> QED BY <1>1, ElioInvKept, LoopKept, PTL DEF PromptSpec, StaleResultAbsorbed, Clears
-----------------------------------------------------------------------------
(* From end to end *)

\* All that is proved of the turn loop, for a CLI without background tasks.
Alone == INSTANCE TurnLoopProofs WITH Agents <- {}, Shells <- {}

\* A slice sends a worldview.  (This is no step of TurnLoop's own sender, which
\* writes the interrupt first and then the prompt.)
LEMMA SliceSends == Alone!LoopInv /\ WriteSlice => Alone!Sends
<1> SUFFICES ASSUME Alone!LoopInv, WriteSlice PROVE Alone!Sends
  OBVIOUS
<1>1. wire \in Seq(Alone!Prompts \union {Alone!Interrupt})
  BY DEF Alone!LoopInv, Alone!Typed, Alone!InputType
<1>2. wire' = Append(wire, sent') \/ wire' = Append(Append(wire, Alone!Interrupt), sent')
  <2>1. /\ wire \o Append(<< >>, sent + 1) = Append(wire, sent + 1)
        /\ wire \o Append(<<Cli!Interrupt>>, sent + 1) = Append(Append(wire, Cli!Interrupt), sent + 1)
    BY <1>1
  <2> QED
    BY <2>1 DEF WriteSlice, Interrupts, Cli!Interrupt, Alone!Interrupt
<1> QED
  BY <1>2 DEF WriteSlice, Alone!Sends, Alone!queueVars, Alone!turnVars, Alone!resultVars

\* The CLI's steps are steps of the turn loop.
LEMMA CliSteps == CliStep => Alone!Next
<1> SUFFICES ASSUME Cli!Reader \/ Cli!Run PROVE Alone!Next
  BY DEF CliStep
<1> USE DEF Cli!inputVars, Cli!queueVars, Cli!turnVars, Cli!resultVars, Cli!InTurn, Cli!QueueEmpty,
            Cli!Running, Cli!Tasks, Cli!ThisResult, Cli!PromptsOf, Cli!Nothing, Cli!Interrupt, Cli!CallRun,
            Alone!inputVars, Alone!queueVars, Alone!turnVars, Alone!resultVars, Alone!InTurn, Alone!QueueEmpty,
            Alone!Running, Alone!Tasks, Alone!ThisResult, Alone!PromptsOf, Alone!Nothing, Alone!Interrupt, Alone!CallRun
<1>1. Cli!Reader => Alone!Reader
  BY DEF Cli!Reader, Cli!ReadPrompt, Cli!ReadInterrupt, Alone!Reader, Alone!ReadPrompt, Alone!ReadInterrupt
<1>2. Cli!Turn => Alone!Turn
  BY DEF Cli!Turn, Cli!StartTurn, Cli!OpenGate, Cli!Consume, Cli!EndTurn,
         Alone!Turn, Alone!StartTurn, Alone!OpenGate, Alone!Consume, Alone!EndTurn
<1>3. Cli!Run => Alone!Run
  BY <1>2 DEF Cli!Run, Cli!EnterRun, Cli!Wait, Cli!Wake, Cli!EmitHeld, Cli!LeaveRun,
              Alone!Run, Alone!EnterRun, Alone!Wait, Alone!Wake, Alone!EmitHeld, Alone!LeaveRun
<1> QED
  BY <1>1, <1>3 DEF Alone!Next

LEMMA OthersIdle ==
  ASSUME LoopOnly \/ TimePasses \/ Deliver \/ UNCHANGED elioVars
  PROVE  UNCHANGED Alone!vars
  BY DEF LoopOnly, TimePasses, Deliver, elioVars, cliVars,
         Alone!vars, Alone!inputVars, Alone!queueVars, Alone!turnVars, Alone!resultVars

LEMMA AloneKept == Alone!LoopInv /\ [ElioNext]_elioVars => Alone!LoopInv'
<1> SUFFICES ASSUME Alone!LoopInv, [ElioNext]_elioVars PROVE Alone!LoopInv'
  OBVIOUS
<1>1. CASE PresentSlice
  BY <1>1, CliAssumption, SliceSends, Alone!LoopInvSends DEF PresentSlice
<1>2. CASE CliStep \/ UNCHANGED Alone!vars
  BY <1>2, CliAssumption, CliSteps, Alone!LoopInvNext
<1> QED
  BY <1>1, <1>2, OthersIdle DEF ElioNext

LEMMA AloneServes ==
  Alone!LoopInv /\ [ElioNext]_elioVars => [Alone!Service!Next]_(Alone!Service!serviceVars)
<1> SUFFICES ASSUME Alone!LoopInv, [ElioNext]_elioVars
             PROVE  [Alone!Service!Next]_(Alone!Service!serviceVars)
  OBVIOUS
<1>1. CASE PresentSlice
  BY <1>1, CliAssumption, SliceSends, Alone!SendsServes DEF PresentSlice
<1>2. CASE CliStep \/ UNCHANGED Alone!vars
  BY <1>2, CliAssumption, CliSteps, Alone!SettledNext
<1> QED
  BY <1>1, <1>2, OthersIdle DEF ElioNext

\* From end to end: the worldviews MainLoop presents are settled in the order it
\* presented them and once each, by results in the order of the turns, however
\* slow the CLI is and whatever MainLoop believes of its turns.
THEOREM WorldviewsSettledInOrder == ElioSpec => Cli!SettlesInOrder
<1>1. ElioInit => Alone!Init
  BY DEF ElioInit, Cli!Init, Alone!Init, Cli!Nothing, Alone!Nothing, Cli!Tasks, Alone!Tasks
<1>2. Alone!Init => Alone!LoopInv
  BY CliAssumption, Alone!LoopInvInit
<1>3. Alone!Init => Alone!Service!Init
  BY CliAssumption, Alone!SettledInit
<1>4. Alone!Service!Init => Cli!Service!Init
  BY DEF Alone!Service!Init, Cli!Service!Init, Alone!PromptsOf, Cli!PromptsOf
<1>5. [Alone!Service!Next]_(Alone!Service!serviceVars) => [Cli!Service!Next]_(Cli!Service!serviceVars)
  BY DEF Alone!Service!Next, Alone!Service!Send, Alone!Service!BeginTurn, Alone!Service!Supersede,
         Alone!Service!Answer, Alone!Service!InLine, Alone!Service!Open, Alone!Service!serviceVars, Alone!PromptsOf,
         Cli!Service!Next, Cli!Service!Send, Cli!Service!BeginTurn, Cli!Service!Supersede,
         Cli!Service!Answer, Cli!Service!InLine, Cli!Service!Open, Cli!Service!serviceVars, Cli!PromptsOf
<1> QED
  BY <1>1, <1>2, <1>3, <1>4, <1>5, AloneKept, AloneServes, PTL DEF ElioSpec, Cli!SettlesInOrder, Cli!Service!Spec
=============================================================================
