------------------------------- MODULE Memory -------------------------------
(***************************************************************************)
(* The memory of one CLI (src/elio/memory): an event graph that the fast   *)
(* path extends at every message, a slow path that asks a language model   *)
(* about the captured events one by one, and the directory both write to.  *)
(*                                                                         *)
(* Capturing is one uninterrupted step.  A tick of the slow path waits at  *)
(* its backoff and at each answer of the model; the interval timer starts  *)
(* the next tick meanwhile, so that ticks overlap.  The process may be     *)
(* killed between any two steps: only the directory survives.              *)
(*                                                                         *)
(* Texts, keywords and the traversal that recalls events are left out: an  *)
(* event is its number, its narrative is one of three grades.  What is     *)
(* recalled for the prompt is in MemoryPrompt.  Assumed: one CLI per       *)
(* directory, a clock that does not go back, no kill in the middle of a    *)
(* synchronous write, a keyword in every text.                             *)
(***************************************************************************)
EXTENDS Integers, Sequences, FiniteSets

CONSTANTS
  Ticks,        \* ticks of the slow path that may be under way at a time
  MaxRetries,   \* SlowPathConfig.maxRetries
  MaxEvents,    \* bound: messages captured
  MaxLives      \* bound: lives of the process

ASSUME MaxRetriesAssumption == MaxRetries \in Nat \ {0}
ASSUME BoundsAssumption == MaxEvents \in Nat /\ MaxLives \in Nat \ {0}

Ids == 1..MaxEvents
None == 0

(* The narrative of an event: null; there, but no entity with it; there    *)
(* with its entities, so that a retry does not ask for it again.           *)
Narratives == {"none", "partial", "full"}

VARIABLES
  up,          \* the process runs
  lives,       \* lives so far
  events,      \* GraphStore.events: captured event -> its narrative
  temporal,    \* the fast path's edges, as pairs of events
  inferred,    \* events the slow path has inferred edges for
  index,       \* events the inverted index can find
  counter,     \* FastPath.eventCounter
  last,        \* FastPath.lastEventId
  queue,       \* SlowPath.queue
  processed,   \* SlowPath.processed
  tries,       \* SlowPath.retryCount
  ticks,       \* what each tick is waiting for
  disk,        \* the three files
  captures,    \* history: events ever captured
  runs,        \* history: runs of processEvent() in this life
  done         \* history: what was known of an event when it was finished

graphVars == <<events, temporal, inferred, index>>
fastVars == <<counter, last>>
slowVars == <<queue, processed, tries, ticks>>
historyVars == <<captures, runs, done>>
vars == <<up, lives, graphVars, fastVars, slowVars, disk, historyVars>>

Idle == [stage |-> "idle", id |-> None, neighbors |-> FALSE]
NoEvents == [i \in {} |-> "none"]
Unfinished == [narrative |-> "none", edges |-> FALSE, finished |-> FALSE]

(* Map.set, and the line of a later append when the file is loaded.        *)
With(map, id, narrative) ==
  [i \in DOMAIN map \union {id} |-> IF i = id THEN narrative ELSE map[i]]

Queued == {queue[k] : k \in DOMAIN queue}
Busy(t) == ticks[t].stage # "idle"
Neighbors(i) == {j \in DOMAIN events : <<i, j>> \in temporal \/ <<j, i>> \in temporal}

TypeOK ==
  /\ up \in BOOLEAN
  /\ lives \in 1..MaxLives
  /\ DOMAIN events \subseteq Ids
  /\ \A i \in DOMAIN events : events[i] \in Narratives
  /\ temporal \subseteq Ids \X Ids
  /\ inferred \subseteq Ids
  /\ index \subseteq Ids
  /\ counter \in 0..MaxEvents
  /\ last \in {None} \union Ids
  /\ queue \in Seq(Ids)
  /\ processed \subseteq Ids
  /\ tries \in [Ids -> 0..MaxRetries - 1]
  /\ ticks \in [Ticks -> [stage : {"idle", "backoff", "narrative", "edges"},
                          id : {None} \union Ids, neighbors : BOOLEAN]]
  /\ \A t \in Ticks : Busy(t) => ticks[t].id \in DOMAIN events
  /\ \A t \in Ticks : ticks[t].stage = "edges" => ticks[t].neighbors
  /\ DOMAIN disk = {"events", "temporal", "inferred", "index", "indexSaved"}
  /\ DOMAIN disk.events \subseteq Ids
  /\ \A i \in DOMAIN disk.events : disk.events[i] \in Narratives
  /\ disk.temporal \subseteq Ids \X Ids
  /\ disk.inferred \subseteq Ids
  /\ disk.index \subseteq Ids
  /\ disk.indexSaved \in BOOLEAN
  /\ captures \in 0..MaxEvents
  /\ runs \in [Ids -> Nat]
  /\ done \in [Ids -> [narrative : Narratives, edges : BOOLEAN, finished : BOOLEAN]]

Init ==
  /\ up = TRUE
  /\ lives = 1
  /\ events = NoEvents
  /\ temporal = {} /\ inferred = {} /\ index = {}
  /\ counter = 0 /\ last = None
  /\ queue = <<>>
  /\ processed = {}
  /\ tries = [i \in Ids |-> 0]
  /\ ticks = [t \in Ticks |-> Idle]
  /\ disk = [events |-> NoEvents, temporal |-> {}, inferred |-> {},
             index |-> {}, indexSaved |-> FALSE]
  /\ captures = 0
  /\ runs = [i \in Ids |-> 0]
  /\ done = [i \in Ids |-> Unfinished]

-----------------------------------------------------------------------------
(* The fast path.                                                          *)

(* process(): the event and its edge go to the graph and to the files at   *)
(* once; the index file is written only by a save.                         *)
Process ==
  LET id == counter + 1
      link == IF last \in {None, id} THEN {} ELSE {<<last, id>>}
  IN /\ up
     /\ captures < MaxEvents
     /\ counter' = id
     /\ events' = With(events, id, "none")
     /\ temporal' = temporal \union link
     /\ disk' = [disk EXCEPT !.events = With(@, id, "none"),
                             !.temporal = @ \union link]
     /\ last' = id
     /\ index' = index \union {id}
     /\ captures' = captures + 1
     /\ UNCHANGED <<up, lives, inferred, processed, tries, ticks, runs, done>>

(* captureUserMessage() and captureElioResponse(), with enqueue().         *)
CaptureMessage ==
  /\ Process
  /\ queue' = IF counter' \in processed THEN queue ELSE Append(queue, counter')

(* captureWorldview() with a worldview unlike the one before.              *)
CaptureWorldview ==
  /\ Process
  /\ UNCHANGED queue

-----------------------------------------------------------------------------
(* The slow path.                                                          *)

(* processEvent() up to its first wait.  Only a run that went on to the    *)
(* edges leaves a full narrative and a retry, so there are neighbors then. *)
Begin(t, id) ==
  /\ ticks' = [ticks EXCEPT ![t] =
       [stage |-> IF events[id] = "full" THEN "edges" ELSE "narrative",
        id |-> id,
        neighbors |-> Neighbors(id) # {}]]
  /\ runs' = [runs EXCEPT ![id] = @ + 1]

Take(t, rest) ==
  /\ up
  /\ ~Busy(t)
  /\ queue # <<>>
  /\ queue' = rest
  /\ IF tries[Head(queue)] > 0
       THEN /\ ticks' = [ticks EXCEPT ![t] =
                 [stage |-> "backoff", id |-> Head(queue), neighbors |-> FALSE]]
            /\ UNCHANGED runs
       ELSE Begin(t, Head(queue))
  /\ UNCHANGED <<up, lives, graphVars, fastVars, processed, tries, disk, captures, done>>

(* The timer starts a tick.  The test of the retry budget at its start     *)
(* never holds: a count that reaches maxRetries is deleted at once.        *)
StartTick(t) == Take(t, Tail(queue))

EndBackoff(t) ==
  /\ ticks[t].stage = "backoff"
  /\ Begin(t, ticks[t].id)
  /\ UNCHANGED <<up, lives, graphVars, fastVars, queue, processed, tries, disk, captures,
                 done>>

(* saveAll() writes the three files from memory.                           *)
SaveAll(evs, inf) ==
  [events |-> evs, temporal |-> temporal, inferred |-> inf,
   index |-> index, indexSaved |-> TRUE]

Finish(t, evs, inf, files) ==
  LET id == ticks[t].id IN
  /\ events' = evs
  /\ inferred' = inf
  /\ processed' = processed \union {id}
  /\ tries' = [tries EXCEPT ![id] = 0]
  /\ ticks' = [ticks EXCEPT ![t] = Idle]
  /\ disk' = files
  /\ done' = [done EXCEPT ![id] = [narrative |-> evs[id], edges |-> id \in inf, finished |-> TRUE]]

(* The event is processed, and onPersist saves: with one event per tick,   *)
(* after each success.                                                     *)
SucceedSavingBefore(t, evs, inf) == Finish(t, evs, inf, SaveAll(events, inferred))
Succeed(t, evs, inf) == Finish(t, evs, inf, SaveAll(evs, inf))

(* The model, or the cache of its answers, gives a narrative with or       *)
(* without entities, an answer that is no JSON, or one with no narrative.  *)
NarrativeAnswered(t) ==
  LET id == ticks[t].id IN
  /\ ticks[t].stage = "narrative"
  /\ \E narrative \in {events[id], "partial", "full"} :
       LET evs == [events EXCEPT ![id] = narrative] IN
       IF ticks[t].neighbors
         THEN /\ events' = evs
              /\ ticks' = [ticks EXCEPT ![t].stage = "edges"]
              /\ UNCHANGED <<inferred, processed, tries, disk, done>>
         ELSE Succeed(t, evs, inferred)
  /\ UNCHANGED <<up, lives, temporal, index, fastVars, queue, captures, runs>>

(* An answer without a usable edge is a success too.                       *)
EdgesAnswered(t) ==
  /\ ticks[t].stage = "edges"
  /\ \E found \in {{}, {ticks[t].id}} : Succeed(t, events, inferred \union found)
  /\ UNCHANGED <<up, lives, temporal, index, fastVars, queue, captures, runs>>

GiveBack(t, count, again, givenUp) ==
  LET id == ticks[t].id IN
  /\ ticks[t].stage \in {"narrative", "edges"}
  /\ ticks' = [ticks EXCEPT ![t] = Idle]
  /\ IF again
       THEN /\ tries' = [tries EXCEPT ![id] = count]
            /\ queue' = Append(queue, id)
            /\ UNCHANGED processed
       ELSE /\ tries' = [tries EXCEPT ![id] = 0]
            /\ processed' = processed \union givenUp
            /\ UNCHANGED queue
  /\ UNCHANGED <<up, lives, graphVars, fastVars, disk, historyVars>>

(* The request fails; what the first answer left in memory stays there.    *)
FailOnceMore(t) ==
  LET attempts == tries[ticks[t].id]
  IN  GiveBack(t, attempts + 1, attempts < MaxRetries, {ticks[t].id})
FailForgetting(t) ==
  LET count == tries[ticks[t].id] + 1
  IN  GiveBack(t, count, count < MaxRetries, {})
Fail(t) ==
  LET count == tries[ticks[t].id] + 1
  IN  GiveBack(t, count, count < MaxRetries, {ticks[t].id})

-----------------------------------------------------------------------------
(* The process.                                                            *)

Crash ==
  /\ up
  /\ lives < MaxLives
  /\ up' = FALSE
  /\ events' = NoEvents
  /\ temporal' = {} /\ inferred' = {} /\ index' = {}
  /\ counter' = 0 /\ last' = None
  /\ queue' = <<>>
  /\ processed' = {}
  /\ tries' = [i \in Ids |-> 0]
  /\ ticks' = [t \in Ticks |-> Idle]
  /\ runs' = [i \in Ids |-> 0]
  /\ UNCHANGED <<lives, disk, captures, done>>

Load(count, latest) ==
  /\ ~up
  /\ up' = TRUE
  /\ lives' = lives + 1
  /\ events' = disk.events
  /\ temporal' = disk.temporal
  /\ inferred' = disk.inferred
  /\ index' = IF disk.indexSaved THEN disk.index ELSE DOMAIN disk.events
  /\ counter' = count
  /\ last' = latest
  /\ UNCHANGED <<slowVars, disk, historyVars>>

EventCount == Cardinality(DOMAIN disk.events)
LatestEvent ==
  IF DOMAIN disk.events = {} THEN None
  ELSE CHOOSE i \in DOMAIN disk.events : \A j \in DOMAIN disk.events : j =< i

(* The constructors of MemoryAgent, GraphStore and FastPath.  Nothing is   *)
(* put back into the queue.                                                *)
RestartRenumbering == Load(0, LatestEvent)
RestartUnlinked == Load(EventCount, None)
Restart == Load(EventCount, LatestEvent)

Advance(t) == EndBackoff(t) \/ NarrativeAnswered(t) \/ EdgesAnswered(t) \/ Fail(t)

Next ==
  \/ CaptureMessage
  \/ CaptureWorldview
  \/ \E t \in Ticks : StartTick(t) \/ Advance(t)
  \/ Crash
  \/ Restart

Spec == Init /\ [][Next]_vars

(* The interval timer goes on firing, a backoff ends, and a request is     *)
(* answered or fails: fetch() has a timeout of its own.                    *)
FairSpec ==
  /\ Spec
  /\ \A t \in Ticks : WF_vars(StartTick(t)) /\ WF_vars(Advance(t))

-----------------------------------------------------------------------------
(* Properties.                                                             *)

(* Every message ever captured has its own event in the file, across       *)
(* crashes: the numbering that a restart takes from the number of events   *)
(* it loads never gives an event the id of another.                        *)
NothingForgotten == DOMAIN disk.events = 1..captures

(* The temporal edges in the file link each event to the one captured      *)
(* before it, in this life or an earlier one: one chain, without a gap.    *)
OneChain == disk.temporal = {<<i - 1, i>> : i \in 2..captures}

(* Whatever ticks, saves, failures, kills and restarts follow each other,  *)
(* the directory is the log that EventLog describes: one chain of events,  *)
(* no narrative or edge taken back, a finished event finished once and     *)
(* left as it is (FastPath.ts:32-34, SlowPath.ts:154, DiskIO.ts:64).       *)
Log == INSTANCE EventLog WITH
         count <- captures,
         log <- disk.events,
         links <- disk.temporal,
         edges <- disk.inferred,
         finished <- {i \in Ids : done[i].finished}
KeepsLog == Log!Spec

(* What the slow path knew of an event when it finished it is in the files *)
(* and stays there: no overlapping tick, later save or restart loses it.   *)
DoneIsSaved ==
  \A i \in Ids : done[i].finished =>
    /\ i \in DOMAIN disk.events
    /\ disk.events[i] = done[i].narrative
    /\ done[i].edges <=> i \in disk.inferred
    /\ i \in disk.index

(* Although ticks overlap, an event is in the queue once or with one tick, *)
(* and not after it has been processed.                                    *)
OneWorker ==
  /\ \A j, k \in DOMAIN queue : j # k => queue[j] # queue[k]
  /\ \A t, u \in Ticks : t # u /\ Busy(t) /\ Busy(u) => ticks[t].id # ticks[u].id
  /\ \A t \in Ticks : Busy(t) => ticks[t].id \notin Queued
  /\ \A i \in processed : i \notin Queued /\ \A t \in Ticks : ticks[t].id # i

(* An event that keeps failing is tried maxRetries times and no more,      *)
(* however its ticks interleave with those of other events.                *)
RetriesBounded == \A i \in Ids : runs[i] =< MaxRetries

(* Every queued event is processed or given up, unless the process dies.   *)
Pending(i) == i \in Queued \/ \E t \in Ticks : ticks[t].id = i
Settled == \A i \in Ids : Pending(i) ~> (i \in processed \/ ~up)
=============================================================================
