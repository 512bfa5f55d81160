---------------------------- MODULE TurnLoopProofs ----------------------------
(***************************************************************************)
(* Type correctness and the safety invariants of the turn loop, for any    *)
(* number of prompts and messages on the wire and any set of tasks.        *)
(*                                                                         *)
(* The invariants come one after the other, each resting on those before:  *)
(* the types (Typed), what run() has left behind in each of its phases     *)
(* (Drained), where each prompt is (Placed), the order of the results      *)
(* (Ordered) and what an interrupted turn may still take (Spared).  Lined   *)
(* adds in which order the prompts lie on the wire, in the queue and with  *)
(* the turns, and with it the loop implements PromptService.               *)
(***************************************************************************)
EXTENDS TurnLoop, TLAPS, SequenceTheorems

LEMMA NoResults == PromptsOf(<< >>) = {}
  BY DEF PromptsOf

LEMMA OneMore ==
  ASSUME NEW s \in Seq(Result), NEW r \in Result
  PROVE  /\ Append(s, r) \in Seq(Result)
         /\ Len(Append(s, r)) = Len(s) + 1
         /\ DOMAIN Append(s, r) = 1..(Len(s) + 1)
         /\ DOMAIN s = 1..Len(s)
         /\ \A i \in DOMAIN s : i \in DOMAIN Append(s, r) /\ Append(s, r)[i] = s[i]
         /\ Append(s, r)[Len(s) + 1] = r
  OBVIOUS

LEMMA PromptsOfOneMore ==
  ASSUME NEW s \in Seq(Result), NEW r \in Result
  PROVE  PromptsOf(Append(s, r)) = PromptsOf(s) \union r.prompts
<1> DEFINE a == Append(s, r)
<1>1. /\ DOMAIN a = 1..(Len(s) + 1)
      /\ DOMAIN s = 1..Len(s)
      /\ Len(s) \in Nat
      /\ \A i \in DOMAIN s : i \in DOMAIN a /\ a[i] = s[i]
      /\ a[Len(s) + 1] = r
  BY OneMore
<1>2. \A i \in DOMAIN a : i \in DOMAIN s \/ i = Len(s) + 1
  BY <1>1
<1>3. Len(s) + 1 \in DOMAIN a
  BY <1>1
<1> HIDE DEF a
<1>4. ASSUME NEW p \in PromptsOf(a) PROVE p \in PromptsOf(s) \union r.prompts
  <2>1. PICK i \in DOMAIN a : p \in a[i].prompts
    BY DEF PromptsOf
  <2> QED
    BY <2>1, <1>1, <1>2 DEF PromptsOf
<1>5. ASSUME NEW p \in PromptsOf(s) PROVE p \in PromptsOf(a)
  <2>1. PICK i \in DOMAIN s : p \in s[i].prompts
    BY DEF PromptsOf
  <2> QED
    BY <2>1, <1>1 DEF PromptsOf
<1>6. ASSUME NEW p \in r.prompts PROVE p \in PromptsOf(a)
  BY <1>6, <1>1, <1>3 DEF PromptsOf
<1>7. PromptsOf(a) = PromptsOf(s) \union r.prompts
  BY <1>4, <1>5, <1>6
<1> QED
  BY <1>7 DEF a

LEMMA Joined ==
  ASSUME NEW s \in Seq(Result), NEW t \in Seq(Result)
  PROVE  /\ s \o t \in Seq(Result)
         /\ Len(s \o t) = Len(s) + Len(t)
         /\ \A i \in 1 .. Len(s) + Len(t) :
              (s \o t)[i] = IF i <= Len(s) THEN s[i] ELSE t[i - Len(s)]
  BY ConcatProperties

LEMMA SameResults ==
  ASSUME NEW s \in Seq(Result), NEW t \in Seq(Result), Len(s) = Len(t),
         \A i \in 1..Len(s) : s[i] = t[i]
  PROVE  s = t
  OBVIOUS

\* What is held is nothing, or one result.
LEMMA NoneOrOne ==
  ASSUME NEW h \in Seq(Result), Len(h) <= 1
  PROVE  \/ h = << >> /\ \A s \in Seq(Result) : s \o h = s
         \/ /\ Len(h) = 1 /\ h[1] \in Result /\ PromptsOf(h) = h[1].prompts
            /\ \A s \in Seq(Result) : s \o h = Append(s, h[1])
<1>1. CASE Len(h) = 0
  BY <1>1
<1>2. CASE Len(h) = 1
  <2>1. h[1] \in Result /\ DOMAIN h = {1}
    BY <1>2
  <2>2. PromptsOf(h) = h[1].prompts
    BY <2>1 DEF PromptsOf
  <2>3. ASSUME NEW s \in Seq(Result) PROVE s \o h = Append(s, h[1])
    <3> DEFINE a == Append(s, h[1])
    <3>1. /\ a \in Seq(Result) /\ s \o h \in Seq(Result)
          /\ Len(a) = Len(s) + 1 /\ Len(s \o h) = Len(s) + 1
      <4>1. Len(s) \in Nat
        OBVIOUS
      <4>2. s \o h \in Seq(Result) /\ Len(s \o h) = Len(s) + 1
        BY <1>2, Joined
      <4>3. a \in Seq(Result) /\ Len(a) = Len(s) + 1
        BY <2>1, OneMore
      <4> QED
        BY <4>2, <4>3
    <3>2. \A i \in 1..(Len(s) + 1) : a[i] = (s \o h)[i]
      <4> SUFFICES ASSUME NEW i \in 1..(Len(s) + 1) PROVE a[i] = (s \o h)[i]
        OBVIOUS
      <4>0. Len(s) \in Nat /\ i \in Nat
        OBVIOUS
      <4>1. (s \o h)[i] = IF i <= Len(s) THEN s[i] ELSE h[i - Len(s)]
        BY <1>2, Joined
      <4>2. CASE i <= Len(s)
        <5>1. i \in DOMAIN s
          BY <4>0, <4>2
        <5> QED
          BY <4>1, <4>2, <5>1, <2>1, OneMore
      <4>3. CASE ~(i <= Len(s))
        <5>1. i = Len(s) + 1 /\ i - Len(s) = 1
          BY <4>0, <4>3
        <5> QED
          BY <4>1, <4>3, <5>1, <2>1, OneMore
      <4> QED
        BY <4>2, <4>3
    <3> HIDE DEF a
    <3>3. a = s \o h
      BY <3>1, <3>2, SameResults
    <3> QED
      BY <3>3 DEF a
  <2>4. \A s \in Seq(Result) : s \o h = Append(s, h[1])
    BY <2>3
  <2> QED
    BY <1>2, <2>1, <2>2, <2>4, Zenon
<1>3. Len(h) = 0 \/ Len(h) = 1
  <2>1. Len(h) \in Nat
    OBVIOUS
  <2>2. \A n \in Nat : n <= 1 => n = 0 \/ n = 1
    OBVIOUS
  <2> QED
    BY <2>1, <2>2, Zenon
<1> QED
  BY <1>1, <1>2, <1>3

-----------------------------------------------------------------------------
(* Types *)

LEMMA WireTaken ==
  ASSUME NEW w \in Seq(Prompts \union {Interrupt}), w # << >>
  PROVE  /\ Tail(w) \in Seq(Prompts \union {Interrupt})
         /\ Head(w) = w[1] /\ 1 \in DOMAIN w
         /\ w[1] \in Prompts \union {Interrupt}
         /\ \A i \in DOMAIN Tail(w) : i \in Nat /\ i + 1 \in DOMAIN w /\ i + 1 # 1 /\ Tail(w)[i] = w[i + 1]
         /\ \A i \in DOMAIN w : i = 1 \/ (i \in Nat /\ i - 1 \in DOMAIN Tail(w) /\ Tail(w)[i - 1] = w[i])
  OBVIOUS

LEMMA WireFilled ==
  ASSUME NEW w \in Seq(Prompts \union {Interrupt}), NEW m \in Prompts \union {Interrupt}
  PROVE  /\ Append(w, m) \in Seq(Prompts \union {Interrupt})
         /\ DOMAIN Append(w, m) = 1..(Len(w) + 1) /\ DOMAIN w = 1..Len(w) /\ Len(w) \in Nat
         /\ \A i \in DOMAIN w : Append(w, m)[i] = w[i]
         /\ Append(w, m)[Len(w) + 1] = m
  OBVIOUS

InputType ==
  /\ wire \in Seq(Prompts \union {Interrupt})
  /\ sent \in 0..MaxPrompts

QueueType ==
  /\ queued \subseteq Prompts
  /\ notices \in Nat
  /\ seen.prompts \subseteq queued
  /\ seen.notices \in Nat
  /\ seen.notices <= notices
  /\ seen = [prompts |-> seen.prompts, notices |-> seen.notices]
  /\ phase # "gate" => seen = Nothing

TurnType ==
  /\ phase \in {"idle", "entry", "draining", "turn", "gate", "waiting", "flush", "done"}
  /\ turn \in Nat
  /\ taken \subseteq Prompts
  /\ dropped \subseteq Prompts
  /\ late \subseteq Prompts

ResultType ==
  /\ held \in Seq(Result)
  /\ Len(held) <= 1
  /\ output \in Seq(Result)

TaskType == task \in [Tasks -> {"none", "running", "killed", "over"}]

Flags == inputClosed \in BOOLEAN /\ aborted \in BOOLEAN

Typed == InputType /\ QueueType /\ TurnType /\ ResultType /\ TaskType

LEMMA TypedInit == Init => Typed
<1> SUFFICES ASSUME Init PROVE Typed
  OBVIOUS
<1>1. InputType
  BY PromptsAssumption DEF Init, InputType
<1>2. QueueType
  BY DEF Init, QueueType, Nothing
<1>3. TurnType
  BY DEF Init, TurnType
<1>4. ResultType
  <2>1. held = << >> /\ output = << >>
    BY DEF Init
  <2>2. << >> \in Seq(Result) /\ Len(<< >>) <= 1
    OBVIOUS
  <2> QED
    BY <2>1, <2>2 DEF ResultType
<1>5. TaskType
  BY DEF Init, TaskType
<1> QED
  BY <1>1, <1>2, <1>3, <1>4, <1>5 DEF Typed

\* What a step does to the queue and to what is seen of it, whatever else.
LEMMA InputNext == InputType /\ [Next]_vars => InputType'
<1> SUFFICES ASSUME InputType, [Next]_vars PROVE InputType'
  OBVIOUS
<1> USE DEF InputType
<1>1. CASE SendPrompt
  <2>1. sent + 1 \in Prompts /\ sent + 1 \in 0..MaxPrompts
    BY <1>1, PromptsAssumption DEF SendPrompt, Prompts
  <2>2. Append(wire, sent + 1) \in Seq(Prompts \union {Interrupt})
    BY <2>1, WireFilled
  <2> QED
    BY <1>1, <2>1, <2>2 DEF SendPrompt
<1>2. CASE SendInterrupt
  <2>1. Append(wire, Interrupt) \in Seq(Prompts \union {Interrupt})
    BY WireFilled
  <2> QED
    BY <1>2, <2>1 DEF SendInterrupt
<1>3. CASE Reader
  BY <1>3, WireTaken DEF Reader, ReadPrompt, ReadInterrupt
<1>4. CASE CloseInput
  BY <1>4 DEF CloseInput
<1>5. CASE Run
  BY <1>5 DEF Run, Turn, EnterRun, StartTurn, OpenGate, Consume, EndTurn, Wait, Wake, EmitHeld,
              LeaveRun, inputVars
<1>6. CASE RunThrows \/ Background
  BY <1>6 DEF RunThrows, Background, StartTask, TaskEnds, StopTask, AgentUnwinds, inputVars
<1>7. CASE UNCHANGED vars
  BY <1>7 DEF vars, inputVars
<1> QED
  BY <1>1, <1>2, <1>3, <1>4, <1>5, <1>6, <1>7 DEF Next

LEMMA QueueNext == InputType /\ QueueType /\ [Next]_vars => QueueType'
<1> SUFFICES ASSUME InputType, QueueType, [Next]_vars PROVE QueueType'
  OBVIOUS
<1> USE DEF QueueType
<1>1. CASE ReadPrompt
  <2>1. Head(wire) \in Prompts
    BY <1>1, WireTaken DEF InputType, ReadPrompt
  <2> QED
    BY <1>1, <2>1 DEF ReadPrompt, CallRun
<1>2. CASE SendPrompt \/ SendInterrupt \/ ReadInterrupt \/ CloseInput
  BY <1>2 DEF SendPrompt, SendInterrupt, ReadInterrupt, CloseInput, queueVars, turnVars
<1>3. CASE StartTurn
  <2>1. notices' \in Nat /\ seen = Nothing
    BY <1>3 DEF StartTurn, QueueEmpty
  <2> QED
    BY <1>3, <2>1 DEF StartTurn, Nothing
<1>4. CASE OpenGate
  BY <1>4 DEF OpenGate, queueVars
<1>5. ASSUME NEW sleepRan \in BOOLEAN, Consume(sleepRan) PROVE QueueType'
  BY <1>5 DEF Consume, Nothing
<1>6. CASE EnterRun \/ EndTurn \/ Wait \/ Wake \/ EmitHeld \/ LeaveRun \/ RunThrows
  BY <1>6 DEF EnterRun, EndTurn, Wait, Wake, EmitHeld, LeaveRun, RunThrows, queueVars, turnVars
<1>7. CASE Background
  BY <1>7 DEF Background, StartTask, TaskEnds, StopTask, AgentUnwinds, queueVars, turnVars
<1>8. CASE UNCHANGED vars
  BY <1>8 DEF vars, queueVars, turnVars
<1> QED
  BY <1>1, <1>2, <1>3, <1>4, <1>5, <1>6, <1>7, <1>8 DEF Next, Reader, Run, Turn

LEMMA TurnNext == Typed /\ [Next]_vars => TurnType'
<1> SUFFICES ASSUME Typed, [Next]_vars PROVE TurnType'
  OBVIOUS
<1> USE DEF TurnType
<1>0. InputType /\ QueueType /\ TurnType /\ ResultType
  BY DEF Typed
<1>1. CASE ReadPrompt
  <2>1. Head(wire) \in Prompts
    BY <1>0, <1>1, WireTaken DEF InputType, ReadPrompt
  <2> QED
    BY <1>0, <1>1, <2>1 DEF ReadPrompt, CallRun, resultVars
<1>2. CASE SendPrompt \/ SendInterrupt \/ ReadInterrupt \/ CloseInput
  BY <1>0, <1>2 DEF SendPrompt, SendInterrupt, ReadInterrupt, CloseInput, turnVars, resultVars
<1>3. CASE StartTurn \/ OpenGate
  BY <1>0, <1>3 DEF StartTurn, OpenGate, QueueType, resultVars
<1>4. ASSUME NEW sleepRan \in BOOLEAN, Consume(sleepRan) PROVE TurnType'
  BY <1>0, <1>4 DEF Consume, QueueType, resultVars
<1>5. PromptsOf(held) \subseteq Prompts
  <2> SUFFICES ASSUME NEW i \in DOMAIN held PROVE held[i].prompts \subseteq Prompts
    BY DEF PromptsOf
  <2>1. held[i] \in Result
    BY <1>0 DEF ResultType
  <2> QED
    BY <2>1 DEF Result
<1>6. CASE EndTurn \/ RunThrows
  BY <1>0, <1>5, <1>6 DEF EndTurn, RunThrows
<1>7. CASE EnterRun \/ Wait \/ Wake \/ EmitHeld \/ LeaveRun
  BY <1>0, <1>7 DEF EnterRun, Wait, Wake, EmitHeld, LeaveRun, turnVars, resultVars
<1>8. CASE Background
  BY <1>0, <1>8 DEF Background, StartTask, TaskEnds, StopTask, AgentUnwinds, turnVars, resultVars
<1>9. CASE UNCHANGED vars
  BY <1>0, <1>9 DEF vars, turnVars, resultVars
<1> QED
  BY <1>1, <1>2, <1>3, <1>4, <1>6, <1>7, <1>8, <1>9 DEF Next, Reader, Run, Turn

\* The result of the current turn is one.
LEMMA ThisIsOne == Typed => ThisResult \in Result
  BY DEF Typed, TurnType, ThisResult, Result

LEMMA ResultNext == Typed /\ [Next]_vars => ResultType'
<1> SUFFICES ASSUME Typed, [Next]_vars PROVE ResultType'
  OBVIOUS
<1> USE DEF ResultType
<1>0. ResultType
  BY DEF Typed
<1>1. << >> \in Seq(Result) /\ Len(<< >>) <= 1
  OBVIOUS
<1>2. <<ThisResult>> \in Seq(Result) /\ Len(<<ThisResult>>) <= 1
  BY ThisIsOne
<1>3. Append(output, ThisResult) \in Seq(Result)
  BY <1>0, ThisIsOne, OneMore
<1>4. CASE EndTurn
  BY <1>0, <1>1, <1>2, <1>3, <1>4 DEF EndTurn
<1>5. CASE RunThrows
  BY <1>0, <1>1, <1>3, <1>5 DEF RunThrows
<1>6. CASE EmitHeld
  BY <1>0, <1>1, <1>6, Joined DEF EmitHeld
<1>7. CASE UNCHANGED resultVars
  BY <1>0, <1>7 DEF resultVars
<1> QED
  BY <1>4, <1>5, <1>6, <1>7 DEF Next, Reader, Run, Turn, Background, SendPrompt, SendInterrupt,
     ReadPrompt, ReadInterrupt, CloseInput, EnterRun, StartTurn, OpenGate, Consume, Wait, Wake,
     LeaveRun, StartTask, TaskEnds, StopTask, AgentUnwinds, vars

LEMMA TaskNext == TaskType /\ [Next]_vars => TaskType'
<1> SUFFICES ASSUME TaskType, [Next]_vars PROVE TaskType'
  OBVIOUS
<1> USE DEF TaskType
<1>1. CASE Background
  BY <1>1 DEF Background, StartTask, TaskEnds, StopTask, AgentUnwinds
<1>2. CASE UNCHANGED task
  BY <1>2
<1> QED
  BY <1>1, <1>2 DEF Next, Reader, Run, Turn, SendPrompt, SendInterrupt, ReadPrompt, ReadInterrupt,
     CloseInput, EnterRun, StartTurn, OpenGate, Consume, EndTurn, Wait, Wake, EmitHeld, LeaveRun,
     RunThrows, vars

LEMMA TypedNext == Typed /\ [Next]_vars => Typed'
  BY InputNext, QueueNext, TurnNext, ResultNext, TaskNext DEF Typed

LEMMA FlagsInit == Init => Flags
  BY DEF Init, Flags

LEMMA FlagsNext == Flags /\ [Next]_vars => Flags'
<1> SUFFICES ASSUME Flags, [Next]_vars PROVE Flags'
  OBVIOUS
<1> USE DEF Flags
<1>1. CASE SendPrompt \/ SendInterrupt \/ CloseInput
  BY <1>1 DEF SendPrompt, SendInterrupt, CloseInput, turnVars
<1>2. CASE Reader
  BY <1>2 DEF Reader, ReadPrompt, ReadInterrupt
<1>3. CASE Run
  BY <1>3 DEF Run, Turn, EnterRun, StartTurn, OpenGate, Consume, EndTurn, Wait, Wake, EmitHeld,
              LeaveRun, inputVars, turnVars
<1>4. CASE RunThrows
  BY <1>4 DEF RunThrows, inputVars
<1>5. CASE Background
  BY <1>5 DEF Background, StartTask, TaskEnds, StopTask, AgentUnwinds, inputVars, turnVars
<1>6. CASE UNCHANGED vars
  BY <1>6 DEF vars, inputVars, turnVars
<1> QED
  BY <1>1, <1>2, <1>3, <1>4, <1>5, <1>6 DEF Next

\* Every variable keeps its type; in particular the result held is at most one.
THEOREM TypeCorrect == Spec => []TypeOK
<1>1. Typed /\ Flags => TypeOK
  <2> SUFFICES ASSUME Typed, Flags PROVE TypeOK
    OBVIOUS
  <2>1. seen \in [prompts : SUBSET Prompts, notices : Nat]
    BY DEF Typed, QueueType
  <2> QED
    BY <2>1 DEF Typed, InputType, QueueType, TurnType, ResultType, TaskType, Flags, TypeOK
<1> QED
  BY TypedInit, TypedNext, FlagsInit, FlagsNext, <1>1, PTL DEF Spec

-----------------------------------------------------------------------------
(* What run() leaves behind *)

Drained ==
  /\ phase \in {"idle", "entry", "flush"} => held = << >> /\ Running(Tasks) = {}
  /\ phase = "idle" => queued = {}

LEMMA DrainedInit == Init => Drained
  BY DEF Init, Drained, Running

LEMMA DrainedNext == Drained /\ Typed /\ [Next]_vars => Drained'
<1> SUFFICES ASSUME Drained, Typed, [Next]_vars PROVE Drained'
  OBVIOUS
<1> USE DEF Drained
<1>0. Agents \subseteq Tasks /\ phase \in {"idle", "entry", "draining", "turn", "gate", "waiting", "flush", "done"}
  BY DEF Tasks, Typed, TurnType
<1>1. CASE SendPrompt \/ SendInterrupt \/ CloseInput \/ ReadInterrupt
  BY <1>1 DEF SendPrompt, SendInterrupt, CloseInput, ReadInterrupt, queueVars, resultVars, Running
<1>2. CASE ReadPrompt
  BY <1>0, <1>2 DEF ReadPrompt, CallRun, resultVars, Running
<1>3. CASE EnterRun \/ Turn \/ Wait \/ Wake
  BY <1>0, <1>3 DEF EnterRun, Turn, StartTurn, OpenGate, Consume, EndTurn, Wait, Wake, resultVars, Running
<1>4. CASE EmitHeld
  BY <1>4 DEF EmitHeld, Running
<1>5. CASE LeaveRun
  BY <1>5 DEF LeaveRun, QueueEmpty, queueVars, resultVars, Running
<1>6. CASE RunThrows
  BY <1>6 DEF RunThrows, Running
<1>7. ASSUME NEW t \in Tasks, StartTask(t) \/ TaskEnds(t) \/ StopTask(t) \/ AgentUnwinds(t)
      PROVE  Drained'
  <2>1. phase' = phase /\ queued' = queued /\ held' = held
    BY <1>7 DEF StartTask, TaskEnds, StopTask, AgentUnwinds, queueVars, resultVars
  <2>2. ~StartTask(t) => Running(Tasks)' \subseteq Running(Tasks)
    BY <1>7 DEF TaskEnds, StopTask, AgentUnwinds, Running, Typed, TaskType
  <2>3. StartTask(t) => phase = "turn"
    BY DEF StartTask
  <2> QED
    BY <2>1, <2>2, <2>3
<1>8. CASE UNCHANGED vars
  BY <1>8 DEF vars, queueVars, resultVars, Running
<1> QED
  BY <1>1, <1>2, <1>3, <1>4, <1>5, <1>6, <1>7, <1>8 DEF Next, Reader, Run, Background

\* run() never goes idle over a prompt, a held result or a running task.
THEOREM NothingLeftBehind == Spec => []IdleIsDrained
<1>1. Drained => IdleIsDrained
  BY DEF Drained, IdleIsDrained
<1> QED
  BY TypedInit, TypedNext, DrainedInit, DrainedNext, <1>1, PTL DEF Spec

-----------------------------------------------------------------------------
(* Where the prompts are *)

\* No two of these sets share a prompt ...
Apart(w, q, t, h, o, d) ==
  /\ w \intersect q = {} /\ w \intersect t = {} /\ w \intersect h = {}
  /\ w \intersect o = {} /\ w \intersect d = {}
  /\ q \intersect t = {} /\ q \intersect h = {} /\ q \intersect o = {} /\ q \intersect d = {}
  /\ t \intersect h = {} /\ t \intersect o = {} /\ t \intersect d = {}
  /\ h \intersect o = {} /\ h \intersect d = {}
  /\ o \intersect d = {}

\* ... and together they are the prompts sent.
Cover(w, q, t, h, o, d, s) == w \union q \union t \union h \union o \union d = 1..s

WireOnce == \A i, j \in DOMAIN wire : wire[i] = wire[j] /\ wire[i] # Interrupt => i = j

ApartIn(s) == \A i, j \in DOMAIN s : i # j => s[i].prompts \intersect s[j].prompts = {}

Placed ==
  /\ WireOnce
  /\ Apart(OnWire, queued, taken, PromptsOf(held), PromptsOf(output), dropped)
  /\ Cover(OnWire, queued, taken, PromptsOf(held), PromptsOf(output), dropped, sent)
  /\ ApartIn(output)
  /\ ~InTurn => taken = {}

LEMMA InterruptIsNone == Interrupt \notin Prompts
  BY DEF Interrupt, Prompts

LEMMA OneMoreApart ==
  ASSUME NEW s \in Seq(Result), NEW r \in Result, ApartIn(s), PromptsOf(s) \intersect r.prompts = {}
  PROVE  ApartIn(Append(s, r))
<1> DEFINE a == Append(s, r)
<1>1. /\ DOMAIN a = 1..(Len(s) + 1)
      /\ DOMAIN s = 1..Len(s)
      /\ Len(s) \in Nat
      /\ \A i \in DOMAIN s : a[i] = s[i]
      /\ a[Len(s) + 1] = r
  BY OneMore
<1>2. \A i \in DOMAIN a : i \in DOMAIN s \/ i = Len(s) + 1
  BY <1>1
<1> HIDE DEF a
<1>3. \A i \in DOMAIN s : s[i].prompts \intersect r.prompts = {}
  BY DEF PromptsOf
<1>4. ASSUME NEW i \in DOMAIN a, NEW j \in DOMAIN a, i # j
      PROVE  a[i].prompts \intersect a[j].prompts = {}
  <2>1. CASE i \in DOMAIN s /\ j \in DOMAIN s
    BY <2>1, <1>1, <1>4 DEF ApartIn
  <2>2. CASE i \in DOMAIN s /\ j = Len(s) + 1
    BY <2>2, <1>1, <1>3
  <2>3. CASE i = Len(s) + 1 /\ j \in DOMAIN s
    BY <2>3, <1>1, <1>3
  <2> QED
    BY <2>1, <2>2, <2>3, <1>2, <1>4
<1>5. ApartIn(a)
  BY <1>4 DEF ApartIn
<1> QED
  BY <1>5 DEF a

LEMMA PlacedInit == Init => Placed
<1> SUFFICES ASSUME Init PROVE Placed
  OBVIOUS
<1>1. /\ wire = << >> /\ sent = 0 /\ queued = {} /\ taken = {} /\ held = << >> /\ output = << >>
      /\ dropped = {}
  BY DEF Init
<1>2. OnWire = {} /\ PromptsOf(held) = {} /\ PromptsOf(output) = {}
  BY <1>1, NoResults DEF OnWire
<1>3. WireOnce /\ ApartIn(output)
  BY <1>1 DEF WireOnce, ApartIn
<1> QED
  BY <1>1, <1>2, <1>3 DEF Placed, Apart, Cover

\* A step that moves no prompt.
LEMMA PlacedQuiet ==
  ASSUME Placed, UNCHANGED <<queued, taken, held, output, dropped, sent>>,
         WireOnce', OnWire' = OnWire, InTurn' <=> InTurn
  PROVE  Placed'
<1>1. PromptsOf(held)' = PromptsOf(held) /\ PromptsOf(output)' = PromptsOf(output)
  OBVIOUS
<1>2. ApartIn(output)'
  BY DEF Placed
<1> QED
  BY <1>1, <1>2 DEF Placed

\* An interrupt on the wire, behind all that is there.
LEMMA InterruptSent ==
  ASSUME Typed, WireOnce, SendInterrupt
  PROVE  WireOnce' /\ OnWire' = OnWire
<1>1. /\ DOMAIN wire' = 1..(Len(wire) + 1)
      /\ DOMAIN wire = 1..Len(wire)
      /\ Len(wire) \in Nat
      /\ \A i \in DOMAIN wire : wire'[i] = wire[i]
      /\ wire'[Len(wire) + 1] = Interrupt
  BY WireFilled DEF SendInterrupt, Typed, InputType
<1>2. /\ \A i \in DOMAIN wire' : i \in DOMAIN wire \/ wire'[i] = Interrupt
      /\ \A i \in DOMAIN wire : i \in DOMAIN wire'
  BY <1>1
<1>3. WireOnce'
  BY <1>1, <1>2 DEF WireOnce
<1>4. \A p \in Prompts : p \in OnWire' <=> p \in OnWire
  BY <1>1, <1>2, InterruptIsNone DEF OnWire
<1> QED
  BY <1>3, <1>4 DEF OnWire

\* Reading the next message.
LEMMA WireTake ==
  ASSUME Typed, WireOnce, wire # << >>, wire' = Tail(wire)
  PROVE  /\ WireOnce'
         /\ Head(wire) # Interrupt => Head(wire) \in OnWire /\ OnWire' = OnWire \ {Head(wire)}
         /\ Head(wire) = Interrupt => OnWire' = OnWire
<1>0. wire \in Seq(Prompts \union {Interrupt})
  BY DEF Typed, InputType
<1>1. /\ Head(wire) = wire[1] /\ 1 \in DOMAIN wire
      /\ wire[1] \in Prompts \union {Interrupt}
      /\ \A i \in DOMAIN wire' : i \in Nat /\ i + 1 \in DOMAIN wire /\ i + 1 # 1 /\ wire'[i] = wire[i + 1]
      /\ \A i \in DOMAIN wire : i = 1 \/ (i \in Nat /\ i - 1 \in DOMAIN wire' /\ wire'[i - 1] = wire[i])
  BY <1>0, WireTaken
<1>2. WireOnce'
  <2> SUFFICES ASSUME NEW i \in DOMAIN wire', NEW j \in DOMAIN wire', wire'[i] = wire'[j], wire'[i] # Interrupt
               PROVE  i = j
    BY DEF WireOnce
  <2>1. i + 1 = j + 1
    BY <1>1 DEF WireOnce
  <2>2. i \in Nat /\ j \in Nat
    BY <1>1
  <2> QED
    BY <2>1, <2>2
<1>3. \A p \in Prompts : p \in OnWire' => p \in OnWire
  BY <1>1 DEF OnWire
<1>4. \A p \in Prompts : p \in OnWire => p \in OnWire' \/ p = wire[1]
  BY <1>1 DEF OnWire
<1>5. wire[1] # Interrupt => wire[1] \in OnWire
  BY <1>1 DEF OnWire
<1>6. wire[1] # Interrupt => wire[1] \notin OnWire'
  <2> SUFFICES ASSUME wire[1] # Interrupt, NEW i \in DOMAIN wire', wire'[i] = wire[1] PROVE FALSE
    BY DEF OnWire
  <2>1. i + 1 \in DOMAIN wire /\ i + 1 # 1 /\ wire[i + 1] = wire[1]
    BY <1>1
  <2> QED
    BY <2>1, <1>1 DEF WireOnce
<1>7. OnWire \subseteq Prompts /\ OnWire' \subseteq Prompts
  BY DEF OnWire
<1>8. wire[1] = Interrupt => wire[1] \notin Prompts
  BY InterruptIsNone
<1> QED
  BY <1>1, <1>2, <1>3, <1>4, <1>5, <1>6, <1>7, <1>8

\* A new prompt on the wire, with an interrupt in front of it or not: SendPrompt,
\* or what a sender does that writes both in one step.
Sends ==
  /\ sent < MaxPrompts
  /\ sent' = sent + 1
  /\ wire' = Append(wire, sent') \/ wire' = Append(Append(wire, Interrupt), sent')
  /\ UNCHANGED <<inputClosed, queueVars, phase, turnVars, task, resultVars>>

LEMMA SendPromptSends == SendPrompt => Sends
  BY DEF SendPrompt, Sends

\* What was on the wire stays where it is, and the prompt comes behind it.
LEMMA SendsBehind ==
  ASSUME Typed, Sends
  PROVE  /\ wire' \in Seq(Prompts \union {Interrupt})
         /\ \A i \in DOMAIN wire : i \in DOMAIN wire' /\ wire'[i] = wire[i]
         /\ \E k \in DOMAIN wire' \ DOMAIN wire :
              /\ wire'[k] = sent + 1
              /\ \A i \in DOMAIN wire : i < k
              /\ \A i \in DOMAIN wire' : i \in DOMAIN wire \/ i = k \/ wire'[i] = Interrupt
              /\ \A i \in DOMAIN wire' : i <= k
<1>1. wire \in Seq(Prompts \union {Interrupt}) /\ sent + 1 \in Prompts
  BY PromptsAssumption DEF Typed, InputType, Sends, Prompts
<1> DEFINE between == Append(wire, Interrupt)
<1>2. CASE wire' = Append(wire, sent + 1)
  <2>1. /\ wire' \in Seq(Prompts \union {Interrupt})
        /\ DOMAIN wire' = 1..(Len(wire) + 1) /\ DOMAIN wire = 1..Len(wire) /\ Len(wire) \in Nat
        /\ \A i \in DOMAIN wire : wire'[i] = wire[i]
        /\ wire'[Len(wire) + 1] = sent + 1
    BY <1>1, <1>2, WireFilled
  <2>2. /\ Len(wire) + 1 \in DOMAIN wire' \ DOMAIN wire
        /\ \A i \in DOMAIN wire : i < Len(wire) + 1 /\ i \in DOMAIN wire'
        /\ \A i \in DOMAIN wire' : i \in DOMAIN wire \/ i = Len(wire) + 1
        /\ \A i \in DOMAIN wire' : i <= Len(wire) + 1
    BY <2>1
  <2> QED
    BY <2>1, <2>2
<1>3. CASE wire' = Append(between, sent + 1)
  <2>1. /\ between \in Seq(Prompts \union {Interrupt})
        /\ DOMAIN between = 1..(Len(wire) + 1) /\ DOMAIN wire = 1..Len(wire) /\ Len(wire) \in Nat
        /\ \A i \in DOMAIN wire : between[i] = wire[i]
        /\ between[Len(wire) + 1] = Interrupt
    BY <1>1, WireFilled
  <2>2. Len(between) = Len(wire) + 1
    BY <1>1
  <2> HIDE DEF between
  <2>3. /\ wire' \in Seq(Prompts \union {Interrupt})
        /\ DOMAIN wire' = 1..(Len(between) + 1)
        /\ \A i \in DOMAIN between : wire'[i] = between[i]
        /\ wire'[Len(between) + 1] = sent + 1
    BY <1>1, <1>3, <2>1, WireFilled
  <2>4. /\ Len(wire) + 2 \in DOMAIN wire' \ DOMAIN wire
        /\ \A i \in DOMAIN wire : i < Len(wire) + 2 /\ i \in DOMAIN wire' /\ i \in DOMAIN between
        /\ \A i \in DOMAIN wire' : i \in DOMAIN wire \/ i = Len(wire) + 2 \/ i = Len(wire) + 1
        /\ \A i \in DOMAIN wire' : i <= Len(wire) + 2
        /\ Len(wire) + 1 \in DOMAIN between
    BY <2>1, <2>2, <2>3
  <2>5. wire'[Len(wire) + 2] = sent + 1 /\ wire'[Len(wire) + 1] = Interrupt
    BY <2>1, <2>2, <2>3, <2>4
  <2>6. \A i \in DOMAIN wire : wire'[i] = wire[i]
    BY <2>1, <2>3, <2>4
  <2> QED
    BY <2>3, <2>4, <2>5, <2>6
<1> QED
  BY <1>2, <1>3 DEF Sends

LEMMA SendsOnWire ==
  ASSUME Typed, WireOnce, Sends, sent + 1 \notin OnWire
  PROVE  WireOnce' /\ OnWire' = OnWire \union {sent + 1}
<1>0. wire \in Seq(Prompts \union {Interrupt}) /\ sent + 1 \in Prompts
  BY PromptsAssumption DEF Typed, InputType, Sends, Prompts
<1>1. \A i \in DOMAIN wire : i \in DOMAIN wire' /\ wire'[i] = wire[i]
  BY SendsBehind
<1>2. PICK k \in DOMAIN wire' \ DOMAIN wire :
        /\ wire'[k] = sent + 1
        /\ \A i \in DOMAIN wire' : i \in DOMAIN wire \/ i = k \/ wire'[i] = Interrupt
  BY SendsBehind
<1>3. \A i \in DOMAIN wire : wire[i] # sent + 1
  BY <1>0 DEF OnWire
<1>4. WireOnce'
  BY <1>1, <1>2, <1>3 DEF WireOnce
<1>5. \A p \in Prompts : p \in OnWire' <=> (p \in OnWire \/ p = sent + 1)
  BY <1>1, <1>2, InterruptIsNone DEF OnWire
<1>6. OnWire \subseteq Prompts /\ OnWire' \subseteq Prompts
  BY DEF OnWire
<1> QED
  BY <1>0, <1>4, <1>5, <1>6

LEMMA PlacedSend == Typed /\ Placed /\ Sends => Placed'
<1> SUFFICES ASSUME Typed, Placed, Sends PROVE Placed'
  OBVIOUS
<1>1. sent \in Nat /\ sent + 1 \in Prompts /\ 1..(sent + 1) = (1..sent) \union {sent + 1} /\ sent + 1 \notin 1..sent
  BY PromptsAssumption DEF Sends, Prompts, Typed, InputType
<1>2. sent + 1 \notin OnWire
  BY <1>1 DEF Placed, Cover
<1>3. WireOnce' /\ OnWire' = OnWire \union {sent + 1}
  BY <1>2, SendsOnWire DEF Placed
<1>4. UNCHANGED <<queued, taken, held, output, dropped, phase>> /\ sent' = sent + 1
  BY DEF Sends, queueVars, turnVars, resultVars
<1>5. PromptsOf(held)' = PromptsOf(held) /\ PromptsOf(output)' = PromptsOf(output) /\ ApartIn(output)'
      /\ (InTurn' <=> InTurn)
  BY <1>4 DEF Placed, InTurn
<1>6. Cover(OnWire, queued, taken, PromptsOf(held), PromptsOf(output), dropped, sent)'
  BY <1>1, <1>3, <1>4, <1>5 DEF Placed, Cover
<1>7. Apart(OnWire, queued, taken, PromptsOf(held), PromptsOf(output), dropped)'
  BY <1>1, <1>3, <1>4, <1>5 DEF Placed, Apart, Cover
<1> QED
  BY <1>3, <1>4, <1>5, <1>6, <1>7 DEF Placed

LEMMA PlacedRead == Typed /\ Placed /\ ReadPrompt => Placed'
<1> SUFFICES ASSUME Typed, Placed, ReadPrompt PROVE Placed'
  OBVIOUS
<1>1. /\ WireOnce' /\ Head(wire) \in OnWire /\ OnWire' = OnWire \ {Head(wire)}
      /\ queued' = queued \union {Head(wire)}
  BY WireTake DEF ReadPrompt, Placed
<1>2. UNCHANGED <<taken, held, output, dropped, sent>> /\ (InTurn' <=> InTurn)
  BY DEF ReadPrompt, CallRun, InTurn, resultVars
<1>3. PromptsOf(held)' = PromptsOf(held) /\ PromptsOf(output)' = PromptsOf(output) /\ ApartIn(output)'
  BY <1>2 DEF Placed
<1>4. Cover(OnWire, queued, taken, PromptsOf(held), PromptsOf(output), dropped, sent)'
  BY <1>1, <1>2, <1>3 DEF Placed, Cover
<1>5. Apart(OnWire, queued, taken, PromptsOf(held), PromptsOf(output), dropped)'
  BY <1>1, <1>2, <1>3 DEF Placed, Apart
<1> QED
  BY <1>1, <1>2, <1>3, <1>4, <1>5 DEF Placed

\* Prompts move from the queue to the turn.
LEMMA PlacedTake ==
  ASSUME Placed, UNCHANGED <<wire, held, output, dropped, sent>>, NEW p \in SUBSET queued,
         taken' = taken \union p, queued' = queued \ p, InTurn'
  PROVE  Placed'
<1>1. /\ PromptsOf(held)' = PromptsOf(held) /\ PromptsOf(output)' = PromptsOf(output) /\ ApartIn(output)'
      /\ OnWire' = OnWire /\ WireOnce'
  BY DEF Placed, OnWire, WireOnce
<1>2. Cover(OnWire, queued, taken, PromptsOf(held), PromptsOf(output), dropped, sent)'
  BY <1>1 DEF Placed, Cover
<1>3. Apart(OnWire, queued, taken, PromptsOf(held), PromptsOf(output), dropped)'
  BY <1>1 DEF Placed, Apart
<1> QED
  BY <1>1, <1>2, <1>3 DEF Placed

\* A turn ends: what it took is held or emitted, what was held before is gone.
LEMMA PlacedEnd ==
  ASSUME Typed, Placed, UNCHANGED <<wire, queued, sent>>, taken' = {}, ~InTurn',
         dropped' = dropped \union PromptsOf(held),
         \/ held' = <<ThisResult>> /\ output' = output
         \/ held' = << >> /\ output' = Append(output, ThisResult)
  PROVE  Placed'
<1>0. ThisResult \in Result /\ ThisResult.prompts = taken /\ output \in Seq(Result) /\ << >> \in Seq(Result)
  BY ThisIsOne DEF Typed, ResultType, ThisResult
<1>1. OnWire' = OnWire /\ WireOnce'
  BY DEF Placed, OnWire, WireOnce
<1>2. CASE held' = <<ThisResult>> /\ output' = output
  <2>1. PromptsOf(held)' = taken
    BY <1>0, <1>2 DEF PromptsOf
  <2>2. PromptsOf(output)' = PromptsOf(output) /\ ApartIn(output)'
    BY <1>2 DEF Placed
  <2>3. Cover(OnWire, queued, taken, PromptsOf(held), PromptsOf(output), dropped, sent)'
    BY <1>1, <2>1, <2>2 DEF Placed, Cover
  <2>4. Apart(OnWire, queued, taken, PromptsOf(held), PromptsOf(output), dropped)'
    BY <1>1, <2>1, <2>2 DEF Placed, Apart
  <2> QED
    BY <1>1, <2>2, <2>3, <2>4 DEF Placed
<1>3. CASE held' = << >> /\ output' = Append(output, ThisResult)
  <2>1. PromptsOf(held)' = {}
    BY <1>3, NoResults
  <2>2. PromptsOf(output)' = PromptsOf(output) \union taken
    BY <1>0, <1>3, PromptsOfOneMore
  <2>3. PromptsOf(output) \intersect ThisResult.prompts = {}
    BY <1>0 DEF Placed, Apart
  <2>4. ApartIn(output)'
    BY <1>0, <1>3, <2>3, OneMoreApart DEF Placed
  <2>5. Cover(OnWire, queued, taken, PromptsOf(held), PromptsOf(output), dropped, sent)'
    BY <1>1, <2>1, <2>2 DEF Placed, Cover
  <2>6. Apart(OnWire, queued, taken, PromptsOf(held), PromptsOf(output), dropped)'
    BY <1>1, <2>1, <2>2 DEF Placed, Apart
  <2> QED
    BY <1>1, <2>4, <2>5, <2>6 DEF Placed
<1> QED
  BY <1>2, <1>3

LEMMA PlacedEmit == Typed /\ Placed /\ EmitHeld => Placed'
<1> SUFFICES ASSUME Typed, Placed, EmitHeld PROVE Placed'
  OBVIOUS
<1>0. held \in Seq(Result) /\ Len(held) <= 1 /\ output \in Seq(Result)
  BY DEF Typed, ResultType
<1>1. UNCHANGED <<wire, queued, taken, dropped, sent>> /\ held' = << >> /\ output' = output \o held
      /\ ~InTurn /\ ~InTurn'
  BY DEF EmitHeld, InTurn, inputVars, queueVars, turnVars
<1>2. OnWire' = OnWire /\ WireOnce'
  BY <1>1 DEF Placed, OnWire, WireOnce
<1>3. PromptsOf(held)' = {}
  BY <1>1, NoResults
<1>4. PromptsOf(output)' = PromptsOf(output) \union PromptsOf(held) /\ ApartIn(output)'
  <2>1. CASE held = << >> /\ \A s \in Seq(Result) : s \o held = s
    <3>1. output' = output
      BY <2>1, <1>0, <1>1
    <3>2. PromptsOf(held) = {}
      BY <2>1, NoResults
    <3> QED
      BY <3>1, <3>2 DEF Placed
  <2>2. CASE /\ Len(held) = 1 /\ held[1] \in Result /\ PromptsOf(held) = held[1].prompts
             /\ \A s \in Seq(Result) : s \o held = Append(s, held[1])
    <3>1. output' = Append(output, held[1])
      BY <2>2, <1>0, <1>1
    <3>2. PromptsOf(output) \intersect held[1].prompts = {}
      BY <2>2 DEF Placed, Apart
    <3>3. PromptsOf(Append(output, held[1])) = PromptsOf(output) \union held[1].prompts
      BY <2>2, <1>0, PromptsOfOneMore
    <3>4. ApartIn(Append(output, held[1]))
      BY <2>2, <1>0, <3>2, OneMoreApart DEF Placed
    <3> QED
      BY <2>2, <3>1, <3>3, <3>4
  <2> QED
    BY <1>0, <2>1, <2>2, NoneOrOne
<1>5. Cover(OnWire, queued, taken, PromptsOf(held), PromptsOf(output), dropped, sent)'
  BY <1>1, <1>2, <1>3, <1>4 DEF Placed, Cover
<1>6. Apart(OnWire, queued, taken, PromptsOf(held), PromptsOf(output), dropped)'
  BY <1>1, <1>2, <1>3, <1>4 DEF Placed, Apart
<1> QED
  BY <1>1, <1>2, <1>4, <1>5, <1>6 DEF Placed

LEMMA PlacedNext == Typed /\ Placed /\ [Next]_vars => Placed'
<1> SUFFICES ASSUME Typed, Placed, [Next]_vars PROVE Placed'
  OBVIOUS
<1>0. WireOnce /\ (wire' = wire => OnWire' = OnWire /\ WireOnce')
  BY DEF Placed, OnWire, WireOnce
<1>1. CASE SendPrompt
  BY <1>1, SendPromptSends, PlacedSend
<1>2. CASE SendInterrupt
  <2>1. WireOnce' /\ OnWire' = OnWire
    BY <1>0, <1>2, InterruptSent
  <2> QED
    BY <1>2, <2>1, PlacedQuiet DEF SendInterrupt, queueVars, turnVars, resultVars, InTurn
<1>3. CASE ReadPrompt
  BY <1>3, PlacedRead
<1>4. CASE ReadInterrupt
  <2>1. WireOnce' /\ OnWire' = OnWire
    BY <1>0, <1>4, WireTake DEF ReadInterrupt
  <2> QED
    BY <1>4, <2>1, PlacedQuiet DEF ReadInterrupt, queueVars, resultVars, InTurn
<1>5. CASE CloseInput \/ EnterRun \/ Wait \/ Wake \/ LeaveRun
  BY <1>0, <1>5, PlacedQuiet
     DEF CloseInput, EnterRun, Wait, Wake, LeaveRun, inputVars, queueVars, turnVars, resultVars, InTurn
<1>6. CASE StartTurn
  <2>1. taken = {}
    BY <1>6 DEF StartTurn, Placed, InTurn
  <2> QED
    BY <1>6, <2>1, PlacedTake DEF StartTurn, inputVars, resultVars, InTurn
<1>7. CASE OpenGate
  BY <1>0, <1>7, PlacedQuiet DEF OpenGate, inputVars, queueVars, resultVars, InTurn
<1>8. ASSUME NEW sleepRan \in BOOLEAN, Consume(sleepRan) PROVE Placed'
  <2>1. seen.prompts \subseteq queued
    BY DEF Typed, QueueType
  <2> QED
    BY <1>8, <2>1, PlacedTake DEF Consume, inputVars, resultVars, InTurn
<1>9. CASE EndTurn
  BY <1>9, PlacedEnd DEF EndTurn, inputVars, queueVars, InTurn
<1>10. CASE RunThrows
  BY <1>10, PlacedEnd DEF RunThrows, inputVars, queueVars, InTurn
<1>11. CASE EmitHeld
  BY <1>11, PlacedEmit
<1>12. CASE Background
  BY <1>0, <1>12, PlacedQuiet
     DEF Background, StartTask, TaskEnds, StopTask, AgentUnwinds, inputVars, queueVars, turnVars, resultVars, InTurn
<1>13. CASE UNCHANGED vars
  BY <1>0, <1>13, PlacedQuiet DEF vars, inputVars, queueVars, turnVars, resultVars, InTurn
<1> QED
  BY <1>1, <1>2, <1>3, <1>4, <1>5, <1>6, <1>7, <1>8, <1>9, <1>10, <1>11, <1>12, <1>13
     DEF Next, Reader, Run, Turn

\* Each prompt is in exactly one place, for any number of prompts.
THEOREM EveryPromptInOnePlace == Spec => []EveryPromptOnce
<1>1. Placed => EveryPromptOnce
  <2> SUFFICES ASSUME Placed PROVE EveryPromptOnce
    OBVIOUS
  <2>1. DOMAIN Places = 1..6
    BY DEF Places
  <2>2. /\ Places[1] = OnWire /\ Places[2] = queued /\ Places[3] = taken
        /\ Places[4] = PromptsOf(held) /\ Places[5] = PromptsOf(output) /\ Places[6] = dropped
    BY DEF Places
  <2>3. UNION {Places[i] : i \in DOMAIN Places}
          = OnWire \union queued \union taken \union PromptsOf(held) \union PromptsOf(output) \union dropped
    BY <2>1, <2>2
  <2>4. \A i, j \in 1..6 : i # j => Places[i] \intersect Places[j] = {}
    BY <2>2 DEF Placed, Apart
  <2> QED
    BY <2>1, <2>3, <2>4 DEF Placed, Cover, ApartIn, EveryPromptOnce
<1> QED
  BY TypedInit, TypedNext, PlacedInit, PlacedNext, <1>1, PTL DEF Spec

-----------------------------------------------------------------------------
(* The order of the results *)

Rising(s) == \A i, j \in DOMAIN s : i < j => s[i].turn < s[j].turn

\* In a turn all results are of earlier turns, and a held one is the last.
Ordered ==
  /\ Rising(output)
  /\ \A i \in DOMAIN output : output[i].turn <= turn /\ (InTurn => output[i].turn < turn)
  /\ \A j \in DOMAIN held : held[j].turn <= turn /\ (InTurn => held[j].turn < turn)
  /\ \A i \in DOMAIN output, j \in DOMAIN held : output[i].turn < held[j].turn

LEMMA OneMoreRising ==
  ASSUME NEW s \in Seq(Result), NEW r \in Result, Rising(s), \A i \in DOMAIN s : s[i].turn < r.turn
  PROVE  /\ Rising(Append(s, r))
         /\ \A i \in DOMAIN Append(s, r) : Append(s, r)[i] = r \/ \E k \in DOMAIN s : Append(s, r)[i] = s[k]
<1> DEFINE a == Append(s, r)
<1>1. /\ DOMAIN a = 1..(Len(s) + 1)
      /\ DOMAIN s = 1..Len(s)
      /\ Len(s) \in Nat
      /\ \A i \in DOMAIN s : a[i] = s[i]
      /\ a[Len(s) + 1] = r
  BY OneMore
<1>2. \A i \in DOMAIN a : i \in DOMAIN s \/ i = Len(s) + 1
  BY <1>1
<1> HIDE DEF a
<1>3. ASSUME NEW i \in DOMAIN a, NEW j \in DOMAIN a, i < j
      PROVE  a[i].turn < a[j].turn
  <2>1. i \in DOMAIN s
    BY <1>1, <1>2, <1>3
  <2>2. CASE j \in DOMAIN s
    BY <2>1, <2>2, <1>1, <1>3 DEF Rising
  <2>3. CASE j = Len(s) + 1
    BY <2>1, <2>3, <1>1
  <2> QED
    BY <2>2, <2>3, <1>2
<1>4. Rising(a)
  BY <1>3 DEF Rising
<1>5. \A i \in DOMAIN a : a[i] = r \/ \E k \in DOMAIN s : a[i] = s[k]
  BY <1>1, <1>2
<1> QED
  BY <1>4, <1>5 DEF a

\* The results' turns are numbers.
LEMMA TurnsAreNumbers ==
  ASSUME Typed
  PROVE  /\ turn \in Nat
         /\ \A i \in DOMAIN output : output[i] \in Result /\ output[i].turn \in Nat
         /\ \A j \in DOMAIN held : held[j] \in Result /\ held[j].turn \in Nat
<1>1. turn \in Nat /\ output \in Seq(Result) /\ held \in Seq(Result)
  BY DEF Typed, TurnType, ResultType
<1>2. \A i \in DOMAIN output : output[i] \in Result
  BY <1>1
<1>3. \A i \in DOMAIN held : held[i] \in Result
  BY <1>1
<1>4. \A r \in Result : r.turn \in Nat
  BY DEF Result
<1> QED
  BY <1>1, <1>2, <1>3, <1>4

LEMMA OrderedInit == Init => Ordered
  BY DEF Init, Ordered, Rising

\* A step that leaves the results alone and goes back to no earlier turn.
LEMMA OrderedQuiet ==
  ASSUME Typed, Ordered, UNCHANGED <<held, output>>,
         \/ turn' = turn /\ (InTurn' => InTurn)
         \/ turn' = turn + 1
  PROVE  Ordered'
<1>1. /\ turn \in Nat
      /\ \A i \in DOMAIN output : output[i].turn \in Nat
      /\ \A j \in DOMAIN held : held[j].turn \in Nat
  BY TurnsAreNumbers
<1>2. \A i \in DOMAIN output : output[i].turn <= turn' /\ (InTurn' => output[i].turn < turn')
  BY <1>1 DEF Ordered
<1>3. \A j \in DOMAIN held : held[j].turn <= turn' /\ (InTurn' => held[j].turn < turn')
  BY <1>1 DEF Ordered
<1>4. Rising(output)'
  BY DEF Ordered
<1> QED
  BY <1>2, <1>3, <1>4 DEF Ordered

LEMMA OrderedEnd ==
  ASSUME Typed, Ordered, InTurn, ~InTurn', turn' = turn,
         \/ held' = <<ThisResult>> /\ output' = output
         \/ held' = << >> /\ output' = Append(output, ThisResult)
  PROVE  Ordered'
<1>1. /\ turn \in Nat /\ output \in Seq(Result)
      /\ ThisResult \in Result /\ ThisResult.turn = turn
      /\ \A i \in DOMAIN output : output[i].turn \in Nat
  BY TurnsAreNumbers, ThisIsOne DEF Typed, ResultType, ThisResult
<1>2. \A i \in DOMAIN output : output[i].turn < ThisResult.turn
  BY <1>1 DEF Ordered
<1>3. CASE held' = <<ThisResult>> /\ output' = output
  <2>1. \A j \in DOMAIN held' : held'[j] = ThisResult
    BY <1>3
  <2>2. \A j \in DOMAIN held' : held'[j].turn <= turn'
    BY <2>1, <1>1
  <2>3. \A i \in DOMAIN output', j \in DOMAIN held' : output'[i].turn < held'[j].turn
    BY <2>1, <1>2, <1>3
  <2>4. \A i \in DOMAIN output' : output'[i].turn <= turn'
    BY <1>3 DEF Ordered
  <2>5. Rising(output)'
    BY <1>3 DEF Ordered
  <2> QED
    BY <2>2, <2>3, <2>4, <2>5 DEF Ordered
<1>4. CASE held' = << >> /\ output' = Append(output, ThisResult)
  <2>1. /\ Rising(output)'
        /\ \A i \in DOMAIN output' : output'[i] = ThisResult \/ \E k \in DOMAIN output : output'[i] = output[k]
    BY <1>1, <1>2, <1>4, OneMoreRising DEF Ordered
  <2>2. \A i \in DOMAIN output' : output'[i].turn <= turn'
    BY <2>1, <1>1 DEF Ordered
  <2>3. DOMAIN held' = {}
    BY <1>4
  <2> QED
    BY <2>1, <2>2, <2>3 DEF Ordered
<1> QED
  BY <1>3, <1>4

LEMMA OrderedEmit == Typed /\ Ordered /\ EmitHeld => Ordered'
<1> SUFFICES ASSUME Typed, Ordered, EmitHeld PROVE Ordered'
  OBVIOUS
<1>0. held \in Seq(Result) /\ Len(held) <= 1 /\ output \in Seq(Result)
  BY DEF Typed, ResultType
<1>1. held' = << >> /\ output' = output \o held /\ ~InTurn /\ ~InTurn' /\ turn' = turn
  BY DEF EmitHeld, InTurn, turnVars
<1>2. DOMAIN held' = {}
  BY <1>1
<1>3. CASE held = << >> /\ \A s \in Seq(Result) : s \o held = s
  <2>1. output' = output
    BY <1>3, <1>0, <1>1
  <2>2. Rising(output)'
    BY <2>1 DEF Ordered
  <2> QED
    BY <2>1, <2>2, <1>1, <1>2 DEF Ordered
<1>4. CASE /\ Len(held) = 1 /\ held[1] \in Result /\ PromptsOf(held) = held[1].prompts
           /\ \A s \in Seq(Result) : s \o held = Append(s, held[1])
  <2>1. output' = Append(output, held[1]) /\ 1 \in DOMAIN held
    BY <1>4, <1>0, <1>1
  <2>2. \A i \in DOMAIN output : output[i].turn < held[1].turn
    BY <2>1 DEF Ordered
  <2>3. /\ Rising(output)'
        /\ \A i \in DOMAIN output' : output'[i] = held[1] \/ \E k \in DOMAIN output : output'[i] = output[k]
    BY <2>1, <2>2, <1>0, <1>4, OneMoreRising DEF Ordered
  <2>4. \A i \in DOMAIN output' : output'[i].turn <= turn'
    BY <2>1, <2>3, <1>1 DEF Ordered
  <2> QED
    BY <2>3, <2>4, <1>1, <1>2 DEF Ordered
<1> QED
  BY <1>0, <1>3, <1>4, NoneOrOne

LEMMA OrderedNext == Typed /\ Ordered /\ [Next]_vars => Ordered'
<1> SUFFICES ASSUME Typed, Ordered, [Next]_vars PROVE Ordered'
  OBVIOUS
<1>1. CASE SendPrompt \/ SendInterrupt \/ Reader \/ CloseInput
  BY <1>1, OrderedQuiet
     DEF SendPrompt, SendInterrupt, Reader, ReadPrompt, CallRun, ReadInterrupt, CloseInput, turnVars, resultVars, InTurn
<1>2. CASE EnterRun \/ Wait \/ Wake \/ LeaveRun
  BY <1>2, OrderedQuiet DEF EnterRun, Wait, Wake, LeaveRun, turnVars, resultVars, InTurn
<1>3. CASE StartTurn \/ OpenGate
  BY <1>3, OrderedQuiet DEF StartTurn, OpenGate, resultVars, InTurn
<1>4. ASSUME NEW sleepRan \in BOOLEAN, Consume(sleepRan) PROVE Ordered'
  BY <1>4, OrderedQuiet DEF Consume, resultVars, InTurn
<1>5. CASE EndTurn
  BY <1>5, OrderedEnd DEF EndTurn, InTurn
<1>6. CASE RunThrows
  BY <1>6, OrderedEnd DEF RunThrows, InTurn
<1>7. CASE EmitHeld
  BY <1>7, OrderedEmit
<1>8. CASE Background
  BY <1>8, OrderedQuiet
     DEF Background, StartTask, TaskEnds, StopTask, AgentUnwinds, turnVars, resultVars, InTurn
<1>9. CASE UNCHANGED vars
  BY <1>9, OrderedQuiet DEF vars, turnVars, resultVars, InTurn
<1> QED
  BY <1>1, <1>2, <1>3, <1>4, <1>5, <1>6, <1>7, <1>8, <1>9 DEF Next, Run, Turn

\* The results come out in the order of their turns, a held one included.
THEOREM ResultsKeepOrder == Spec => []ResultsInOrder
<1>1. Typed /\ Ordered => ResultsInOrder
  <2> SUFFICES ASSUME Typed, Ordered PROVE Rising(output \o held)
    BY DEF Rising, ResultsInOrder
  <2>0. held \in Seq(Result) /\ Len(held) <= 1 /\ output \in Seq(Result)
    BY DEF Typed, ResultType
  <2>1. CASE held = << >> /\ \A s \in Seq(Result) : s \o held = s
    BY <2>0, <2>1 DEF Ordered
  <2>2. CASE /\ Len(held) = 1 /\ held[1] \in Result /\ PromptsOf(held) = held[1].prompts
             /\ \A s \in Seq(Result) : s \o held = Append(s, held[1])
    <3>1. output \o held = Append(output, held[1]) /\ 1 \in DOMAIN held
      BY <2>0, <2>2
    <3>2. \A i \in DOMAIN output : output[i].turn < held[1].turn
      BY <3>1 DEF Ordered
    <3>3. Rising(Append(output, held[1]))
      BY <3>2, <2>0, <2>2, OneMoreRising DEF Ordered
    <3> QED
      BY <3>1, <3>3
  <2> QED
    BY <2>0, <2>1, <2>2, NoneOrOne
<1> QED
  BY TypedInit, TypedNext, OrderedInit, OrderedNext, <1>1, PTL DEF Spec

-----------------------------------------------------------------------------
(* What an interrupted turn may take *)

\* Prompts read since the interrupt are still queued, and unseen.
Spared ==
  /\ ~aborted => late = {}
  /\ aborted => InTurn
  /\ late \subseteq queued
  /\ late \intersect seen.prompts = {}

LEMMA SparedInit == Init => Spared
  BY DEF Init, Spared, Nothing

LEMMA SparedNext == Typed /\ Flags /\ Placed /\ Spared /\ [Next]_vars => Spared'
<1> SUFFICES ASSUME Typed, Flags, Placed, Spared, [Next]_vars PROVE Spared'
  OBVIOUS
<1> USE DEF Spared
<1>1. CASE ReadPrompt
  <2>1. Head(wire) \in OnWire /\ seen.prompts \subseteq queued
    BY <1>1, WireTake DEF ReadPrompt, Placed, Typed, QueueType
  <2>2. Head(wire) \notin seen.prompts
    BY <2>1 DEF Placed, Apart
  <2>3. aborted' = aborted /\ seen' = seen /\ queued' = queued \union {Head(wire)} /\ (InTurn' <=> InTurn)
    BY <1>1 DEF ReadPrompt, CallRun, InTurn
  <2>4. late' = IF aborted THEN late \union {Head(wire)} ELSE late
    BY <1>1 DEF ReadPrompt
  <2> QED
    BY <2>2, <2>3, <2>4
<1>2. CASE ReadInterrupt
  BY <1>2 DEF ReadInterrupt, queueVars, InTurn
<1>3. CASE SendPrompt \/ SendInterrupt \/ CloseInput \/ EnterRun \/ Wait \/ Wake \/ LeaveRun
  BY <1>3 DEF SendPrompt, SendInterrupt, CloseInput, EnterRun, Wait, Wake, LeaveRun, queueVars, turnVars, InTurn
<1>4. CASE StartTurn \/ EndTurn \/ RunThrows
  BY <1>4 DEF StartTurn, EndTurn, RunThrows
<1>5. CASE OpenGate
  BY <1>5 DEF OpenGate, queueVars, InTurn
<1>6. ASSUME NEW sleepRan \in BOOLEAN, Consume(sleepRan) PROVE Spared'
  BY <1>6 DEF Consume, Nothing, InTurn
<1>7. CASE EmitHeld
  BY <1>7 DEF EmitHeld, queueVars, turnVars, InTurn
<1>8. CASE Background
  BY <1>8 DEF Background, StartTask, TaskEnds, StopTask, AgentUnwinds, queueVars, turnVars, InTurn
<1>9. CASE UNCHANGED vars
  BY <1>9 DEF vars, queueVars, turnVars, InTurn
<1> QED
  BY <1>1, <1>2, <1>3, <1>4, <1>5, <1>6, <1>7, <1>8, <1>9 DEF Next, Reader, Run, Turn

\* A prompt read after the interrupt of a turn is left for the next turn, however
\* the interrupt and the mid-turn drain overlap.
THEOREM LatePromptsSpared == Spec => []InterruptedTurnTakesNoMore
<1>1. Spared /\ Placed => InterruptedTurnTakesNoMore
  BY DEF Spared, Placed, Apart, InterruptedTurnTakesNoMore
<1> QED
  BY TypedInit, TypedNext, FlagsInit, FlagsNext, PlacedInit, PlacedNext, SparedInit, SparedNext, <1>1,
     PTL DEF Spec

-----------------------------------------------------------------------------
(* The order in which prompts are settled *)

Below(a, b) == \A p \in a, q \in b : p < q

WireRising ==
  \A i, j \in DOMAIN wire :
    i < j /\ wire[i] # Interrupt /\ wire[j] # Interrupt => wire[i] < wire[j]

\* On its way from the wire to a result no prompt overtakes an earlier one:
\* what is held was sent before what the turn has, that before what is queued,
\* and that before what is on the wire.  The mid-turn drain looks at the older
\* part of the queue.
InLineHeld == Below(PromptsOf(held), taken \union queued \union OnWire)
InLineTaken == Below(taken, queued \union OnWire)
InLineQueued == Below(queued, OnWire) /\ Below(seen.prompts, queued \ seen.prompts)

Lined == WireRising /\ InLineHeld /\ InLineTaken /\ InLineQueued

\* Results are of turns that were begun.
Begun == (InTurn => turn > 0) /\ \A j \in DOMAIN held : held[j].turn > 0

LEMMA LinedInit == Init => Lined
<1> SUFFICES ASSUME Init PROVE Lined
  OBVIOUS
<1>1. wire = << >> /\ queued = {} /\ taken = {} /\ held = << >> /\ seen.prompts = {}
  BY DEF Init, Nothing
<1>2. PromptsOf(held) = {}
  BY <1>1, NoResults
<1> QED
  BY <1>1, <1>2 DEF Lined, WireRising, InLineHeld, InLineTaken, InLineQueued, Below

LEMMA BegunInit == Init => Begun
  BY DEF Init, Begun, InTurn

LEMMA BegunNext == Typed /\ Begun /\ [Next]_vars => Begun'
<1> SUFFICES ASSUME Typed, Begun, [Next]_vars PROVE Begun'
  OBVIOUS
<1> USE DEF Begun, InTurn
<1>0. turn \in Nat
  BY DEF Typed, TurnType
<1>1. CASE SendPrompt \/ SendInterrupt \/ Reader \/ CloseInput
  BY <1>1 DEF SendPrompt, SendInterrupt, Reader, ReadPrompt, CallRun, ReadInterrupt, CloseInput, turnVars, resultVars
<1>2. CASE EnterRun \/ Wait \/ Wake \/ LeaveRun
  BY <1>2 DEF EnterRun, Wait, Wake, LeaveRun, turnVars, resultVars
<1>3. CASE StartTurn \/ OpenGate
  BY <1>0, <1>3 DEF StartTurn, OpenGate, resultVars
<1>4. ASSUME NEW sleepRan \in BOOLEAN, Consume(sleepRan) PROVE Begun'
  BY <1>4 DEF Consume, resultVars
<1>5. CASE EndTurn
  <2>1. ThisResult.turn > 0
    BY <1>5 DEF EndTurn, ThisResult
  <2>2. held' = << >> \/ held' = <<ThisResult>>
    BY <1>5 DEF EndTurn
  <2>3. \A j \in DOMAIN held' : held'[j] = ThisResult
    BY <2>2
  <2> QED
    BY <1>5, <2>1, <2>3 DEF EndTurn
<1>6. CASE RunThrows \/ EmitHeld
  BY <1>6 DEF RunThrows, EmitHeld
<1>7. CASE Background
  BY <1>7 DEF Background, StartTask, TaskEnds, StopTask, AgentUnwinds, turnVars, resultVars
<1>8. CASE UNCHANGED vars
  BY <1>8 DEF vars, turnVars, resultVars
<1> QED
  BY <1>1, <1>2, <1>3, <1>4, <1>5, <1>6, <1>7, <1>8 DEF Next, Run, Turn

\* What is nowhere but on the wire was sent, and so were all other prompts.
LEMMA SentBefore ==
  ASSUME Placed, NEW p \in OnWire \union queued \union taken \union PromptsOf(held)
  PROVE  p \in 1..sent
  BY DEF Placed, Cover

LEMMA LinedSend == Typed /\ Placed /\ Lined /\ Sends => Lined'
<1> SUFFICES ASSUME Typed, Placed, Lined, Sends PROVE Lined'
  OBVIOUS
<1>1. sent \in Nat /\ sent + 1 \in Prompts /\ sent + 1 \notin 1..sent
  BY PromptsAssumption DEF Sends, Prompts, Typed, InputType
<1>2. sent + 1 \notin OnWire
  BY <1>1, SentBefore
<1>3. WireOnce' /\ OnWire' = OnWire \union {sent + 1}
  BY <1>2, SendsOnWire DEF Placed
<1>4. UNCHANGED <<queued, taken, held, seen>>
  BY DEF Sends, queueVars, turnVars, resultVars
<1>5. PromptsOf(held)' = PromptsOf(held)
  BY <1>4
<1>6. \A p \in OnWire \union queued \union taken \union PromptsOf(held) : p < sent + 1
  <2>1. \A p \in 1..sent : p < sent + 1
    BY <1>1
  <2> QED
    BY <2>1, SentBefore
<1>7. WireRising'
  <2>1. \A i \in DOMAIN wire : wire'[i] = wire[i]
    BY SendsBehind
  <2>2. \A i \in DOMAIN wire : wire[i] # Interrupt => wire[i] \in OnWire
    BY DEF OnWire, Typed, InputType
  <2>3. PICK k \in DOMAIN wire' \ DOMAIN wire :
          /\ wire'[k] = sent + 1
          /\ \A i \in DOMAIN wire : i < k
          /\ \A i \in DOMAIN wire' : i \in DOMAIN wire \/ i = k \/ wire'[i] = Interrupt
          /\ \A i \in DOMAIN wire' : i <= k
    BY SendsBehind
  <2> SUFFICES ASSUME NEW i \in DOMAIN wire', NEW j \in DOMAIN wire', i < j,
                      wire'[i] # Interrupt, wire'[j] # Interrupt
               PROVE  wire'[i] < wire'[j]
    BY DEF WireRising
  <2>4. wire' \in Seq(Prompts \union {Interrupt})
    BY SendsBehind
  <2>5. i \in Nat /\ j \in Nat /\ k \in Nat
    BY <2>4
  <2>6. i \in DOMAIN wire
    <3>1. i # k
      BY <2>3, <2>5
    <3> QED
      BY <2>3, <3>1
  <2>7. CASE j \in DOMAIN wire
    BY <2>1, <2>6, <2>7 DEF Lined, WireRising
  <2>8. CASE j = k
    <3>1. wire'[j] = sent + 1 /\ wire'[i] \in OnWire
      BY <2>1, <2>2, <2>3, <2>6, <2>8
    <3> QED
      BY <3>1, <1>6
  <2> QED
    BY <2>3, <2>7, <2>8
<1>8. InLineHeld'
  BY <1>3, <1>4, <1>5, <1>6 DEF Lined, InLineHeld, Below
<1>9. InLineTaken'
  BY <1>3, <1>4, <1>6 DEF Lined, InLineTaken, Below
<1>10. InLineQueued'
  BY <1>3, <1>4, <1>6 DEF Lined, InLineQueued, Below
<1> QED
  BY <1>7, <1>8, <1>9, <1>10 DEF Lined

\* What is left on the wire is still rising, and after the message read.
LEMMA WireTakeRising ==
  ASSUME Typed, WireOnce, WireRising, wire # << >>, wire' = Tail(wire)
  PROVE  /\ WireRising'
         /\ Head(wire) # Interrupt => Below({Head(wire)}, OnWire')
<1>0. wire \in Seq(Prompts \union {Interrupt})
  BY DEF Typed, InputType
<1>1. /\ Head(wire) = wire[1] /\ 1 \in DOMAIN wire
      /\ \A i \in DOMAIN wire' : i \in Nat /\ i + 1 \in DOMAIN wire /\ i + 1 # 1 /\ wire'[i] = wire[i + 1]
  BY <1>0, WireTaken
<1>2. WireRising'
  <2> SUFFICES ASSUME NEW i \in DOMAIN wire', NEW j \in DOMAIN wire', i < j,
                      wire'[i] # Interrupt, wire'[j] # Interrupt
               PROVE  wire'[i] < wire'[j]
    BY DEF WireRising
  <2>1. i \in Nat /\ j \in Nat /\ i + 1 < j + 1
    BY <1>1
  <2>2. i + 1 \in DOMAIN wire /\ j + 1 \in DOMAIN wire /\ wire'[i] = wire[i + 1] /\ wire'[j] = wire[j + 1]
    BY <1>1
  <2> QED
    BY <2>1, <2>2 DEF WireRising
<1>3. ASSUME Head(wire) # Interrupt, NEW q \in OnWire' PROVE Head(wire) < q
  <2>1. PICK i \in DOMAIN wire' : wire'[i] = q
    BY DEF OnWire
  <2>2. i \in Nat /\ i + 1 \in DOMAIN wire /\ i + 1 # 1 /\ wire[i + 1] = q
    BY <1>1, <2>1
  <2>3. q # Interrupt /\ 1 < i + 1
    BY <2>2, InterruptIsNone DEF OnWire
  <2> QED
    BY <1>1, <1>3, <2>2, <2>3 DEF WireRising
<1> QED
  BY <1>2, <1>3 DEF Below

LEMMA LinedRead == Typed /\ Placed /\ Lined /\ ReadPrompt => Lined'
<1> SUFFICES ASSUME Typed, Placed, Lined, ReadPrompt PROVE Lined'
  OBVIOUS
<1> DEFINE p == Head(wire)
<1>1. /\ p \in OnWire /\ OnWire' = OnWire \ {p} /\ queued' = queued \union {p}
      /\ WireRising' /\ Below({p}, OnWire')
  BY WireTake, WireTakeRising DEF ReadPrompt, Placed, Lined
<1>2. UNCHANGED <<taken, held, seen>> /\ PromptsOf(held)' = PromptsOf(held)
  BY DEF ReadPrompt, resultVars
<1>3. seen.prompts \subseteq queued
  BY DEF Typed, QueueType
<1> HIDE DEF p
<1>4. InLineHeld'
  BY <1>1, <1>2 DEF Lined, InLineHeld, Below
<1>5. InLineTaken'
  BY <1>1, <1>2 DEF Lined, InLineTaken, Below
<1>6. InLineQueued'
  <2>1. Below(queued, OnWire)'
    BY <1>1 DEF Lined, InLineQueued, Below
  <2>2. Below(seen.prompts, queued \ seen.prompts)'
    BY <1>1, <1>2, <1>3 DEF Lined, InLineQueued, Below
  <2> QED
    BY <2>1, <2>2 DEF InLineQueued
<1> QED
  BY <1>1, <1>4, <1>5, <1>6 DEF Lined

\* Prompts, the oldest ones of the queue, move to the turn.
LEMMA LinedTake ==
  ASSUME Lined, UNCHANGED <<wire, held>>, NEW b \in SUBSET queued, Below(b, queued \ b),
         taken' = taken \union b, queued' = queued \ b, seen'.prompts = {}
  PROVE  Lined'
<1>1. PromptsOf(held)' = PromptsOf(held) /\ OnWire' = OnWire /\ WireRising'
  BY DEF Lined, OnWire, WireRising
<1>2. InLineHeld'
  BY <1>1 DEF Lined, InLineHeld, Below
<1>3. InLineTaken'
  BY <1>1 DEF Lined, InLineTaken, InLineQueued, Below
<1>4. InLineQueued'
  BY <1>1 DEF Lined, InLineQueued, Below
<1> QED
  BY <1>1, <1>2, <1>3, <1>4 DEF Lined

\* A turn ends: what it took is held or emitted.
LEMMA LinedEnd ==
  ASSUME Typed, Lined, UNCHANGED <<wire, queued, seen>>, taken' = {},
         held' = <<ThisResult>> \/ held' = << >>
  PROVE  Lined'
<1>1. OnWire' = OnWire /\ WireRising'
  BY DEF Lined, OnWire, WireRising
<1>2. PromptsOf(held)' \subseteq taken
  <2>1. CASE held' = << >>
    BY <2>1, NoResults
  <2>2. CASE held' = <<ThisResult>>
    BY <2>2 DEF PromptsOf, ThisResult
  <2> QED
    BY <2>1, <2>2
<1>3. InLineHeld'
  BY <1>1, <1>2 DEF Lined, InLineHeld, InLineTaken, Below
<1>4. InLineTaken'
  BY DEF InLineTaken, Below
<1>5. InLineQueued'
  BY <1>1 DEF Lined, InLineQueued
<1> QED
  BY <1>1, <1>3, <1>4, <1>5 DEF Lined

\* A step that moves no prompt, whatever it does with interrupts.
LEMMA LinedQuiet ==
  ASSUME Lined, UNCHANGED <<queued, taken, held, seen>>, WireRising', OnWire' = OnWire
  PROVE  Lined'
<1>1. PromptsOf(held)' = PromptsOf(held)
  OBVIOUS
<1> QED
  BY <1>1 DEF Lined, InLineHeld, InLineTaken, InLineQueued

LEMMA LinedNext == Typed /\ Placed /\ Lined /\ [Next]_vars => Lined'
<1> SUFFICES ASSUME Typed, Placed, Lined, [Next]_vars PROVE Lined'
  OBVIOUS
<1>0. WireRising /\ WireOnce /\ (wire' = wire => OnWire' = OnWire /\ WireRising')
  BY DEF Placed, Lined, OnWire, WireRising
<1>1. CASE SendPrompt
  BY <1>1, SendPromptSends, LinedSend
<1>2. CASE SendInterrupt
  <2>1. OnWire' = OnWire
    BY <1>0, <1>2, InterruptSent
  <2>2. /\ DOMAIN wire' = 1..(Len(wire) + 1)
        /\ DOMAIN wire = 1..Len(wire)
        /\ \A i \in DOMAIN wire : wire'[i] = wire[i]
        /\ wire'[Len(wire) + 1] = Interrupt
    BY <1>2, WireFilled DEF SendInterrupt, Typed, InputType
  <2>3. WireRising'
    BY <1>0, <2>2 DEF WireRising
  <2> QED
    BY <1>2, <2>1, <2>3, LinedQuiet DEF SendInterrupt, queueVars, turnVars, resultVars
<1>3. CASE ReadPrompt
  BY <1>3, LinedRead
<1>4. CASE ReadInterrupt
  <2>1. OnWire' = OnWire /\ WireRising'
    BY <1>0, <1>4, WireTake, WireTakeRising DEF ReadInterrupt
  <2> QED
    BY <1>4, <2>1, LinedQuiet DEF ReadInterrupt, queueVars, resultVars
<1>5. CASE CloseInput \/ EnterRun \/ Wait \/ Wake \/ LeaveRun
  BY <1>0, <1>5, LinedQuiet
     DEF CloseInput, EnterRun, Wait, Wake, LeaveRun, inputVars, queueVars, turnVars, resultVars
<1>6. CASE StartTurn
  <2>1. taken = {} /\ seen.prompts = {}
    BY <1>6 DEF StartTurn, Placed, InTurn, Typed, QueueType, Nothing
  <2>2. Below(queued, queued \ queued)
    BY DEF Below
  <2> QED
    BY <1>6, <2>1, <2>2, LinedTake DEF StartTurn, inputVars, resultVars
<1>7. CASE OpenGate
  <2>1. /\ UNCHANGED <<queued, taken, held>> /\ OnWire' = OnWire /\ WireRising' /\ seen'.prompts = queued
        /\ PromptsOf(held)' = PromptsOf(held)
    BY <1>0, <1>7 DEF OpenGate, inputVars, queueVars, resultVars
  <2> QED
    BY <2>1 DEF Lined, InLineHeld, InLineTaken, InLineQueued, Below
<1>8. ASSUME NEW sleepRan \in BOOLEAN, Consume(sleepRan) PROVE Lined'
  <2>1. seen.prompts \subseteq queued /\ Below(seen.prompts, queued \ seen.prompts)
    BY DEF Typed, QueueType, Lined, InLineQueued
  <2>2. seen'.prompts = {}
    BY <1>8 DEF Consume, Nothing
  <2> QED
    BY <1>8, <2>1, <2>2, LinedTake DEF Consume, inputVars, resultVars
<1>9. CASE EndTurn \/ RunThrows
  BY <1>9, LinedEnd DEF EndTurn, RunThrows, inputVars, queueVars
<1>10. CASE EmitHeld
  <2>1. /\ UNCHANGED <<queued, taken, seen>> /\ OnWire' = OnWire /\ WireRising'
        /\ PromptsOf(held)' = {}
    BY <1>0, <1>10, NoResults DEF EmitHeld, inputVars, queueVars, turnVars
  <2> QED
    BY <2>1 DEF Lined, InLineHeld, InLineTaken, InLineQueued, Below
<1>11. CASE Background
  BY <1>0, <1>11, LinedQuiet
     DEF Background, StartTask, TaskEnds, StopTask, AgentUnwinds, inputVars, queueVars, turnVars, resultVars
<1>12. CASE UNCHANGED vars
  BY <1>0, <1>12, LinedQuiet DEF vars, inputVars, queueVars, turnVars, resultVars
<1> QED
  BY <1>1, <1>2, <1>3, <1>4, <1>5, <1>6, <1>7, <1>8, <1>9, <1>10, <1>11, <1>12
     DEF Next, Reader, Run, Turn

-----------------------------------------------------------------------------
(* The loop implements PromptService *)

LoopInv == Typed /\ Placed /\ Ordered /\ Lined /\ Begun

\* The prompts that are open for the service are those on their way.
LEMMA OpenPrompts ==
  ASSUME Placed
  PROVE  /\ Service!Open = OnWire \union queued \union taken \union PromptsOf(held)
         /\ PromptsOf(held) \intersect taken = {}
  BY DEF Placed, Cover, Apart, Service!Open

\* What is held comes first, then what the turn has.
LEMMA HeldThenTaken ==
  ASSUME Placed, Lined
  PROVE  /\ Service!InLine(PromptsOf(held))
         /\ Service!InLine(PromptsOf(held) \union taken)
  BY OpenPrompts DEF Lined, InLineHeld, InLineTaken, Below, Service!InLine

LEMMA LoopInvInit == Init => LoopInv
  BY TypedInit, PlacedInit, OrderedInit, LinedInit, BegunInit DEF LoopInv

LEMMA LoopInvNext == LoopInv /\ [Next]_vars => LoopInv'
  BY TypedNext, PlacedNext, OrderedNext, LinedNext, BegunNext DEF LoopInv

LEMMA SettledInit == Init => Service!Init
<1> SUFFICES ASSUME Init PROVE Service!Init
  OBVIOUS
<1>1. output = << >> /\ dropped = {} /\ sent = 0 /\ turn = 0
  BY DEF Init
<1>2. PromptsOf(output) = {}
  BY <1>1, NoResults
<1> QED
  BY <1>1, <1>2 DEF Service!Init

\* A turn's end settles what it took, or holds its result back and settles
\* what the one held before was to answer.
LEMMA EndSettles ==
  ASSUME LoopInv, InTurn, UNCHANGED <<sent, turn>>, dropped' = dropped \union PromptsOf(held),
         output' = output \/ output' = Append(output, ThisResult)
  PROVE  Service!Next
<1> USE DEF LoopInv
<1>1. PromptsOf(held) \in SUBSET Service!Open /\ taken \in SUBSET Service!Open
  BY OpenPrompts
<1>2. CASE output' = output
  <2>1. PromptsOf(output)' = PromptsOf(output)
    BY <1>2
  <2>2. Service!Supersede(PromptsOf(held))
    BY <1>2, <2>1, HeldThenTaken DEF Service!Supersede
  <2> QED
    BY <1>1, <2>2 DEF Service!Next
<1>3. CASE output' = Append(output, ThisResult)
  <2>1. PromptsOf(output)' = PromptsOf(output) \union taken
    BY <1>3, ThisIsOne, PromptsOfOneMore DEF Typed, ResultType, ThisResult
  <2>2. turn \in 1..turn
    BY DEF Begun, Typed, TurnType
  <2>3. \A i \in DOMAIN output : output[i].turn < turn
    BY DEF Ordered
  <2>4. Service!Answer(PromptsOf(held), taken, turn)
    BY <1>3, <2>1, <2>3, OpenPrompts, HeldThenTaken DEF Service!Answer, ThisResult
  <2> QED
    BY <1>1, <2>2, <2>4 DEF Service!Next
<1> QED
  BY <1>2, <1>3

LEMMA EmitSettles ==
  ASSUME LoopInv, EmitHeld
  PROVE  Service!Next \/ UNCHANGED Service!serviceVars
<1> USE DEF LoopInv
<1>0. /\ held \in Seq(Result) /\ Len(held) <= 1 /\ output \in Seq(Result)
      /\ UNCHANGED <<sent, turn, dropped>> /\ output' = output \o held
  BY DEF Typed, ResultType, EmitHeld, inputVars, turnVars
<1>1. CASE held = << >> /\ \A s \in Seq(Result) : s \o held = s
  <2>1. output' = output
    BY <1>0, <1>1
  <2> QED
    BY <1>0, <2>1 DEF Service!serviceVars, PromptsOf
<1>2. CASE /\ Len(held) = 1 /\ held[1] \in Result /\ PromptsOf(held) = held[1].prompts
           /\ \A s \in Seq(Result) : s \o held = Append(s, held[1])
  <2>1. output' = Append(output, held[1]) /\ 1 \in DOMAIN held
    BY <1>0, <1>2
  <2>2. PromptsOf(output)' = PromptsOf(output) \union PromptsOf(held)
    BY <1>0, <1>2, <2>1, PromptsOfOneMore
  <2>3. held[1].turn \in 1..turn
    BY <2>1, TurnsAreNumbers DEF Begun, Ordered
  <2>4. \A i \in DOMAIN output : output[i].turn < held[1].turn
    BY <2>1 DEF Ordered
  <2>5. held[1] = [turn |-> held[1].turn, prompts |-> PromptsOf(held)]
    BY <1>2 DEF Result
  <2>6. Service!InLine({}) /\ {} \in SUBSET Service!Open /\ PromptsOf(held) \in SUBSET Service!Open
    BY OpenPrompts DEF Service!InLine
  <2>7. Service!Answer({}, PromptsOf(held), held[1].turn)
    BY <1>0, <2>1, <2>2, <2>4, <2>5, <2>6, HeldThenTaken DEF Service!Answer
  <2> QED
    BY <2>3, <2>6, <2>7 DEF Service!Next
<1> QED
  BY <1>0, <1>1, <1>2, NoneOrOne

LEMMA SettledNext == LoopInv /\ [Next]_vars => [Service!Next]_(Service!serviceVars)
<1> SUFFICES ASSUME LoopInv, [Next]_vars PROVE Service!Next \/ UNCHANGED Service!serviceVars
  OBVIOUS
<1>1. CASE SendPrompt
  BY <1>1 DEF SendPrompt, turnVars, resultVars, Service!Next, Service!Send, PromptsOf
<1>2. CASE StartTurn
  BY <1>2 DEF StartTurn, inputVars, resultVars, Service!Next, Service!BeginTurn, PromptsOf
<1>3. CASE EndTurn
  BY <1>3, EndSettles DEF EndTurn, InTurn, inputVars
<1>4. CASE RunThrows
  BY <1>4, EndSettles DEF RunThrows, InTurn, inputVars
<1>5. CASE EmitHeld
  BY <1>5, EmitSettles
<1>6. CASE UNCHANGED <<sent, turn, output, dropped>>
  BY <1>6 DEF Service!serviceVars, PromptsOf
<1> QED
  BY <1>1, <1>2, <1>3, <1>4, <1>5, <1>6
     DEF Next, Reader, Run, Turn, Background, SendInterrupt, ReadPrompt, ReadInterrupt, CloseInput, EnterRun,
         OpenGate, Consume, Wait, Wake, LeaveRun, StartTask, TaskEnds, StopTask, AgentUnwinds,
         vars, inputVars, turnVars, resultVars

\* The turn loop implements PromptService, for any number of prompts, any wire and
\* any tasks: prompts are settled in the order they were sent and once each, and
\* by results in the order of the turns.
THEOREM PromptsSettledInOrder == Spec => SettlesInOrder
  BY LoopInvInit, LoopInvNext, SettledInit, SettledNext, PTL DEF Spec, SettlesInOrder, Service!Spec

\* The same for a sender that writes an interrupt and a prompt in one step.
LEMMA LoopInvSends == LoopInv /\ Sends => LoopInv'
<1> SUFFICES ASSUME LoopInv, Sends PROVE LoopInv'
  OBVIOUS
<1> USE DEF LoopInv
<1>0. UNCHANGED <<queued, notices, phase, turn, taken, seen, late, task, held, output, dropped>>
  BY DEF Sends, queueVars, turnVars, resultVars
<1>1. Typed'
  <2>1. InputType'
    <3>1. wire' \in Seq(Prompts \union {Interrupt})
      BY SendsBehind
    <3>2. sent' \in 0..MaxPrompts
      BY PromptsAssumption DEF Typed, InputType, Sends
    <3> QED
      BY <3>1, <3>2 DEF InputType
  <2>2. QueueType' /\ TurnType' /\ ResultType' /\ TaskType'
    BY <1>0 DEF Typed, QueueType, TurnType, ResultType, TaskType
  <2> QED
    BY <2>1, <2>2 DEF Typed
<1>2. Ordered'
  BY <1>0, OrderedQuiet DEF InTurn
<1>3. Begun'
  BY <1>0 DEF Begun, InTurn
<1> QED
  BY <1>1, <1>2, <1>3, PlacedSend, LinedSend

LEMMA SendsServes == Sends => Service!Next
  BY DEF Sends, Service!Next, Service!Send, PromptsOf, turnVars, resultVars
=============================================================================
