---------------------------- MODULE MemoryProofs ----------------------------
(***************************************************************************)
(* Theorems of Memory, for every number of events, ticks, retries and      *)
(* lives.                                                                  *)
(***************************************************************************)
EXTENDS Memory, FiniteSetTheorems, TLAPS

\* The events of the file, and of a running process, are numbered without a
\* gap, and the numbering goes on where it ended.
Numbered ==
  /\ NothingForgotten
  /\ up => DOMAIN events = 1..captures /\ counter = captures /\ last = captures

\* A running process knows the chain that is in the file.
Chained == OneChain /\ (up => temporal = disk.temporal)

\* A tick that has begun to process its event.
Working(t) == ticks[t].stage \in {"narrative", "edges"}

\* Only captured events are worked on, and only while the process runs.
Captured ==
  /\ Queued \subseteq 1..captures
  /\ processed \subseteq 1..captures
  /\ \A t \in Ticks : IF Busy(t) THEN ticks[t].id \in 1..captures ELSE ticks[t].id = None

Stopped ==
  ~up => /\ queue = <<>>
         /\ processed = {}
         /\ lives < MaxLives
         /\ \A t \in Ticks : ~Busy(t)

\* An event that has a narrative and comes back to the queue failed at the
\* second request, which is made for events with neighbors only.
Enriched ==
  /\ \A i \in Ids : Pending(i) /\ events[i] # "none" => Neighbors(i) # {}
  /\ \A t \in Ticks : ticks[t].stage = "narrative" /\ ticks[t].neighbors
                        => Neighbors(ticks[t].id) # {}

\* The retry count of an event is the number of its runs that have failed.
Budget ==
  /\ \A t \in Ticks : Working(t) => runs[ticks[t].id] = tries[ticks[t].id] + 1
  /\ \A i \in Ids :
       i \notin processed /\ (\A t \in Ticks : Working(t) => ticks[t].id # i)
         => runs[i] = tries[i]
  /\ RetriesBounded

\* A finished event is not worked on again, and a running process knows of it
\* what is in the files, so that the next save writes it again.
Remembered ==
  /\ \A i \in Ids : Pending(i) => i \in index
  /\ \A i \in Ids : done[i].finished =>
       /\ ~Pending(i)
       /\ i \in 1..captures
       /\ disk.indexSaved
       /\ up => /\ events[i] = done[i].narrative
                /\ done[i].edges <=> i \in inferred
                /\ i \in index

IInv == /\ TypeOK /\ Numbered /\ Chained /\ OneWorker /\ Captured /\ Stopped
        /\ Enriched /\ Budget /\ DoneIsSaved /\ Remembered

-----------------------------------------------------------------------------
(* Queues                                                                  *)

Elements(s) == {s[k] : k \in DOMAIN s}
Distinct(s) == \A j, k \in DOMAIN s : j # k => s[j] # s[k]

\* Appending adds one element, and none twice if it is new.
LEMMA AppendElements ==
  ASSUME NEW s \in Seq(Ids), NEW x \in Ids
  PROVE  /\ Append(s, x) \in Seq(Ids)
         /\ Elements(Append(s, x)) = Elements(s) \union {x}
         /\ Distinct(s) /\ x \notin Elements(s) => Distinct(Append(s, x))
<1> DEFINE r == Append(s, x)
<1>1. /\ r \in Seq(Ids)
      /\ DOMAIN r = 1..Len(s) + 1
      /\ DOMAIN s = 1..Len(s)
      /\ Len(s) \in Nat
      /\ \A k \in 1..Len(s) : r[k] = s[k]
      /\ r[Len(s) + 1] = x
  OBVIOUS
<1>2. Elements(r) = Elements(s) \union {x}
  <2>1. ASSUME NEW y \in Elements(r) PROVE y \in Elements(s) \union {x}
    BY <1>1, <2>1 DEF Elements
  <2>2. Elements(s) \subseteq Elements(r)
    BY <1>1 DEF Elements
  <2>3. x \in Elements(r)
    BY <1>1 DEF Elements
  <2> QED
    BY <2>1, <2>2, <2>3
<1>3. ASSUME Distinct(s), x \notin Elements(s) PROVE Distinct(r)
  BY <1>1, <1>3 DEF Distinct, Elements
<1> QED
  BY <1>1, <1>2, <1>3

\* Taking the head leaves the other elements, and not the head if it was
\* there once.
LEMMA TailElements ==
  ASSUME NEW s \in Seq(Ids), s # <<>>
  PROVE  /\ Head(s) \in Ids /\ Head(s) \in Elements(s)
         /\ Tail(s) \in Seq(Ids)
         /\ Elements(Tail(s)) \subseteq Elements(s)
         /\ Distinct(s) => Distinct(Tail(s)) /\ Head(s) \notin Elements(Tail(s))
<1>1. /\ Len(s) \in Nat \ {0}
      /\ DOMAIN s = 1..Len(s)
      /\ Tail(s) \in Seq(Ids)
      /\ DOMAIN Tail(s) = 1..Len(s) - 1
      /\ \A k \in 1..Len(s) - 1 : Tail(s)[k] = s[k + 1]
      /\ Head(s) = s[1]
      /\ \A k \in 1..Len(s) : s[k] \in Ids
  OBVIOUS
<1>2. Head(s) \in Ids /\ Head(s) \in Elements(s)
  BY <1>1 DEF Elements
<1>3. Elements(Tail(s)) \subseteq Elements(s)
  BY <1>1 DEF Elements
<1>4. ASSUME Distinct(s) PROVE Distinct(Tail(s)) /\ Head(s) \notin Elements(Tail(s))
  BY <1>1, <1>4 DEF Distinct, Elements
<1> QED
  BY <1>1, <1>2, <1>3, <1>4

-----------------------------------------------------------------------------
(* The initial states                                                      *)

LEMMA InitIInv == Init => IInv
<1> SUFFICES ASSUME Init PROVE IInv
  OBVIOUS
<1> USE BoundsAssumption, MaxRetriesAssumption DEF Init, Ids, None
<1>1. 1..captures = {}
  OBVIOUS
<1>2. DOMAIN events = {} /\ DOMAIN disk.events = {}
  BY DEF NoEvents
<1>3. \A t \in Ticks : /\ ticks[t].stage = "idle" /\ ticks[t].id = 0
                       /\ ticks[t].neighbors = FALSE /\ ~Busy(t) /\ ~Working(t)
  BY DEF Idle, Busy, Working
<1>4. Queued = {} /\ \A i \in Ids : ~Pending(i)
  <2>1. DOMAIN queue = {}
    OBVIOUS
  <2>2. Queued = {}
    BY <2>1 DEF Queued
  <2> QED
    BY <1>3, <2>2 DEF Pending
<1>5. \A i \in Ids : ~done[i].finished
  BY DEF Unfinished
<1>6. TypeOK
  <2>1. ticks \in [Ticks -> [stage : {"idle", "backoff", "narrative", "edges"},
                             id : {None} \union Ids, neighbors : BOOLEAN]]
    BY DEF Idle
  <2>2. done \in [Ids -> [narrative : Narratives, edges : BOOLEAN, finished : BOOLEAN]]
    BY DEF Unfinished, Narratives
  <2>3. /\ DOMAIN disk = {"events", "temporal", "inferred", "index", "indexSaved"}
        /\ disk.temporal = {} /\ disk.inferred = {} /\ disk.index = {}
        /\ disk.indexSaved \in BOOLEAN
    OBVIOUS
  <2>4. queue \in Seq(Ids)
    OBVIOUS
  <2>5. tries \in [Ids -> 0..MaxRetries - 1] /\ runs \in [Ids -> Nat]
    OBVIOUS
  <2>6. lives \in 1..MaxLives /\ captures \in 0..MaxEvents /\ counter \in 0..MaxEvents
        /\ last \in {None} \union Ids
    OBVIOUS
  <2> QED
    BY <1>2, <1>3, <2>1, <2>2, <2>3, <2>4, <2>5, <2>6 DEF TypeOK
<1>7. Numbered
  BY <1>1, <1>2 DEF Numbered, NothingForgotten
<1>8. Chained
  BY DEF Chained, OneChain
<1>9. OneWorker
  BY <1>3, <1>4 DEF OneWorker
<1>10. Captured /\ Stopped
  BY <1>3, <1>4 DEF Captured, Stopped
<1>11. Enriched
  BY <1>3, <1>4 DEF Enriched
<1>12. Budget
  BY <1>3 DEF Budget, RetriesBounded
<1>13. DoneIsSaved /\ Remembered
  BY <1>4, <1>5 DEF DoneIsSaved, Remembered
<1> QED
  BY <1>6, <1>7, <1>8, <1>9, <1>10, <1>11, <1>12, <1>13 DEF IInv

\* A pending event was captured, and is known to the running process.
LEMMA PendingFacts ==
  ASSUME IInv, NEW i \in Ids, Pending(i)
  PROVE  up /\ i \in 1..captures /\ i \in DOMAIN events /\ i \in DOMAIN disk.events
<1>1. i \in 1..captures
  BY DEF Pending, IInv, Captured, Ids, None
<1>2. up
  <2>1. CASE i \in Queued
    <3>1. queue = <<>> => Queued = {}
      BY DEF Queued
    <3> QED
      BY <2>1, <3>1 DEF IInv, Stopped
  <2>2. CASE \E t \in Ticks : ticks[t].id = i
    BY <2>2 DEF IInv, Stopped, Captured, Ids, None
  <2> QED
    BY <2>1, <2>2 DEF Pending
<1> QED
  BY <1>1, <1>2 DEF IInv, Numbered, NothingForgotten

-----------------------------------------------------------------------------
(* Capturing                                                               *)

LEMMA CaptureKeeps ==
  ASSUME IInv, CaptureMessage \/ CaptureWorldview
  PROVE  IInv'
<1> DEFINE id == captures + 1
<1> USE BoundsAssumption, MaxRetriesAssumption
<1>1. /\ Process
      /\ up
      /\ captures \in Nat /\ captures < MaxEvents
      /\ counter = captures /\ last = captures
      /\ DOMAIN events = 1..captures
      /\ DOMAIN disk.events = 1..captures
      /\ temporal = disk.temporal
  BY DEF IInv, TypeOK, Numbered, Chained, NothingForgotten,
         CaptureMessage, CaptureWorldview, Process
<1>2. /\ up' = up /\ lives' = lives /\ inferred' = inferred
      /\ processed' = processed /\ tries' = tries /\ ticks' = ticks
      /\ runs' = runs /\ done' = done
  BY <1>1 DEF Process
<1>3. captures' = id /\ counter' = id /\ last' = id /\ index' = index \union {id}
  BY <1>1 DEF Process
<1>4. /\ id \in Ids /\ id \in Nat /\ id \notin 1..captures /\ id # None
      /\ 1..id = 1..captures \union {id}
      /\ 1..captures \subseteq Ids
  BY <1>1 DEF Ids, None
<1>5. /\ DOMAIN events' = 1..id
      /\ events'[id] = "none"
      /\ \A i \in 1..captures : events'[i] = events[i]
  BY <1>1, <1>4 DEF Process, With
<1>6. /\ DOMAIN disk' = {"events", "temporal", "inferred", "index", "indexSaved"}
      /\ disk'.inferred = disk.inferred /\ disk'.index = disk.index
      /\ disk'.indexSaved = disk.indexSaved
      /\ disk'.events = With(disk.events, id, "none")
      /\ temporal' = disk'.temporal
      /\ temporal' = temporal \union (IF captures = 0 THEN {} ELSE {<<captures, id>>})
  <2>1. DOMAIN disk = {"events", "temporal", "inferred", "index", "indexSaved"}
    BY DEF IInv, TypeOK
  <2>2. (IF last \in {None, counter + 1} THEN {} ELSE {<<last, counter + 1>>})
          = IF captures = 0 THEN {} ELSE {<<captures, id>>}
    BY <1>1 DEF None
  <2> QED
    BY <1>1, <2>1, <2>2 DEF Process
<1>7. /\ DOMAIN disk'.events = 1..id
      /\ disk'.events[id] = "none"
      /\ \A i \in 1..captures : disk'.events[i] = disk.events[i]
  BY <1>1, <1>4, <1>6 DEF With
<1>8. id \notin processed /\ id \notin Queued /\ \A t \in Ticks : ticks[t].id # id
  <2>1. \A t \in Ticks : ticks[t].id \in 1..captures \/ ticks[t].id = None
    BY DEF IInv, Captured
  <2> QED
    BY <1>4, <2>1 DEF IInv, Captured
<1>9. /\ queue' \in Seq(Ids)
      /\ Queued \subseteq Queued' /\ Queued' \subseteq Queued \union {id}
      /\ Distinct(queue')
  <2>1. queue \in Seq(Ids) /\ Distinct(queue) /\ Queued = Elements(queue)
    BY DEF IInv, TypeOK, OneWorker, Distinct, Queued, Elements
  <2>2. Queued' = Elements(queue')
    BY DEF Queued, Elements
  <2>3. queue' = queue \/ queue' = Append(queue, id)
    BY <1>3 DEF CaptureMessage, CaptureWorldview
  <2> QED
    BY <1>4, <1>8, <2>1, <2>2, <2>3, AppendElements
<1>10. \A i \in Ids : Pending(i)' => Pending(i) \/ i = id
  BY <1>2, <1>9 DEF Pending
<1>11. \A i \in Ids : Neighbors(i) \subseteq Neighbors(i)'
  BY <1>4, <1>5, <1>6, <1>1 DEF Neighbors
<1>12. \A i \in Ids : Pending(i) => i \in 1..captures
  BY DEF IInv, Captured, Pending, None, Ids
<1>13. TypeOK'
  <2>1. DOMAIN events' \subseteq Ids /\ \A i \in DOMAIN events' : events'[i] \in Narratives
    BY <1>1, <1>4, <1>5 DEF IInv, TypeOK, Narratives
  <2>2. /\ DOMAIN disk'.events \subseteq Ids
        /\ \A i \in DOMAIN disk'.events : disk'.events[i] \in Narratives
    <3>1. \A i \in 1..captures : disk.events[i] \in Narratives
      BY <1>1 DEF IInv, TypeOK
    <3>2. "none" \in Narratives
      BY DEF Narratives
    <3>3. DOMAIN disk'.events = 1..captures \union {id}
      BY <1>4, <1>7
    <3>4. \A i \in 1..captures \union {id} : disk'.events[i] \in Narratives
      BY <1>7, <3>1, <3>2
    <3> QED
      BY <1>4, <3>3, <3>4
  <2>3. temporal' \subseteq Ids \X Ids
    <3>1. captures # 0 => captures \in Ids
      BY <1>1 DEF Ids
    <3>2. temporal \subseteq Ids \X Ids
      BY DEF IInv, TypeOK
    <3> QED
      BY <1>4, <1>6, <3>1, <3>2
  <2>4. index' \subseteq Ids /\ inferred' \subseteq Ids /\ processed' \subseteq Ids
    BY <1>2, <1>3, <1>4 DEF IInv, TypeOK
  <2>5. captures' \in 0..MaxEvents /\ counter' \in 0..MaxEvents /\ last' \in {None} \union Ids
    BY <1>1, <1>3, <1>4
  <2>6. /\ up' \in BOOLEAN /\ lives' \in 1..MaxLives
        /\ tries' \in [Ids -> 0..MaxRetries - 1]
        /\ runs' \in [Ids -> Nat]
    BY <1>2 DEF IInv, TypeOK
  <2>7. /\ ticks' \in [Ticks -> [stage : {"idle", "backoff", "narrative", "edges"},
                                 id : {None} \union Ids, neighbors : BOOLEAN]]
        /\ \A t \in Ticks : ticks'[t].stage = "edges" => ticks'[t].neighbors
    BY <1>2 DEF IInv, TypeOK
  <2>8. \A t \in Ticks : Busy(t)' => ticks'[t].id \in DOMAIN events'
    BY <1>1, <1>2, <1>4, <1>5 DEF IInv, TypeOK, Busy
  <2>9. done' \in [Ids -> [narrative : Narratives, edges : BOOLEAN, finished : BOOLEAN]]
    BY <1>2 DEF IInv, TypeOK
  <2>10. /\ disk'.temporal \subseteq Ids \X Ids
         /\ disk'.inferred \subseteq Ids /\ disk'.index \subseteq Ids
         /\ disk'.indexSaved \in BOOLEAN
    BY <1>6, <2>3 DEF IInv, TypeOK
  <2> QED
    BY <1>6, <1>9, <2>1, <2>2, <2>3, <2>4, <2>5, <2>6, <2>7, <2>8, <2>9, <2>10 DEF TypeOK
<1>14. Numbered'
  BY <1>3, <1>5, <1>7 DEF Numbered, NothingForgotten
<1>15. Chained'
  <2>1. temporal = {<<i - 1, i>> : i \in 2..captures}
    BY <1>1 DEF IInv, Chained, OneChain
  <2>2. CASE captures = 0
    BY <1>3, <1>6, <2>1, <2>2 DEF Chained, OneChain
  <2>3. CASE captures # 0
    <3>1. 2..id = 2..captures \union {id} /\ id - 1 = captures
      BY <1>1, <2>3
    <3>2. {<<i - 1, i>> : i \in 2..id} = temporal \union {<<captures, id>>}
      BY <2>1, <3>1
    <3> QED
      BY <1>3, <1>6, <2>3, <3>2 DEF Chained, OneChain
  <2> QED
    BY <2>2, <2>3
<1>16. OneWorker'
  <2>1. \A t, u \in Ticks : t # u /\ Busy(t)' /\ Busy(u)' => ticks'[t].id # ticks'[u].id
    BY <1>2 DEF IInv, OneWorker, Busy
  <2>2. \A t \in Ticks : Busy(t)' => ticks'[t].id \notin Queued'
    BY <1>2, <1>8, <1>9 DEF IInv, OneWorker, Busy
  <2>3. \A i \in processed' : i \notin Queued' /\ \A t \in Ticks : ticks'[t].id # i
    BY <1>2, <1>8, <1>9 DEF IInv, OneWorker
  <2> QED
    BY <1>9, <2>1, <2>2, <2>3 DEF OneWorker, Distinct
<1>17. Captured' /\ Stopped'
  <2>1. Captured'
    BY <1>2, <1>3, <1>4, <1>9 DEF IInv, Captured, Busy
  <2> QED
    BY <1>1, <1>2, <2>1 DEF Stopped
<1>18. Enriched'
  <2>1. ASSUME NEW i \in Ids, Pending(i)', events'[i] # "none" PROVE Neighbors(i)' # {}
    <3>1. i # id
      BY <1>5, <2>1
    <3>2. Pending(i) /\ i \in 1..captures
      BY <1>10, <1>12, <2>1, <3>1
    <3> QED
      BY <1>5, <1>11, <2>1, <3>2 DEF IInv, Enriched
  <2>2. ASSUME NEW t \in Ticks, ticks'[t].stage = "narrative", ticks'[t].neighbors
        PROVE  Neighbors(ticks[t].id)' # {}
    <3>1. Neighbors(ticks[t].id) # {}
      BY <1>2, <2>2 DEF IInv, Enriched
    <3>2. ticks'[t].id = ticks[t].id
      BY <1>2
    <3> QED
      BY <1>1, <1>4, <1>5, <1>6, <3>1, <3>2 DEF Neighbors
  <2> QED
    BY <2>1, <2>2 DEF Enriched
<1>19. Budget'
  BY <1>2 DEF IInv, Budget, RetriesBounded, Working
<1>20. DoneIsSaved'
  BY <1>2, <1>4, <1>6, <1>7 DEF IInv, DoneIsSaved, Remembered
<1>21. Remembered'
  <2>1. \A i \in Ids : Pending(i)' => i \in index'
    BY <1>3, <1>10 DEF IInv, Remembered
  <2>2. ASSUME NEW i \in Ids, done'[i].finished
        PROVE  /\ ~Pending(i)' /\ i \in 1..captures' /\ disk'.indexSaved
               /\ up' => /\ events'[i] = done'[i].narrative
                         /\ done'[i].edges <=> i \in inferred'
                         /\ i \in index'
    <3>1. i \in 1..captures /\ ~Pending(i)
      BY <1>2, <2>2 DEF IInv, Remembered
    <3>2. ~Pending(i)'
      BY <1>4, <1>10, <3>1
    <3> QED
      BY <1>2, <1>3, <1>4, <1>5, <1>6, <2>2, <3>1, <3>2 DEF IInv, Remembered
  <2> QED
    BY <2>1, <2>2 DEF Remembered
<1> QED
  BY <1>13, <1>14, <1>15, <1>16, <1>17, <1>18, <1>19, <1>20, <1>21 DEF IInv

-----------------------------------------------------------------------------
(* Ticks                                                                   *)

\* A tick takes or keeps a pending event, which no other tick has, and waits
\* for its backoff or begins to process it.
LEMMA HoldKeeps ==
  ASSUME IInv, up,
         NEW t \in Ticks, NEW id \in Ids,
         Pending(id),
         ~Working(t),
         Busy(t) => ticks[t].id = id,
         \A u \in Ticks : u # t => ticks[u].id # id,
         queue' \in Seq(Ids), Distinct(queue'),
         Queued' \subseteq Queued, id \notin Queued',
         \/ Begin(t, id)
         \/ /\ ticks' = [ticks EXCEPT ![t] =
                  [stage |-> "backoff", id |-> id, neighbors |-> FALSE]]
            /\ runs' = runs,
         UNCHANGED <<up, lives, graphVars, fastVars, processed, tries, disk, captures, done>>
  PROVE  IInv'
<1> USE BoundsAssumption, MaxRetriesAssumption
<1>1. /\ up' = up /\ lives' = lives /\ events' = events /\ temporal' = temporal
      /\ inferred' = inferred /\ index' = index /\ counter' = counter /\ last' = last
      /\ processed' = processed /\ tries' = tries /\ disk' = disk
      /\ captures' = captures /\ done' = done
  BY DEF graphVars, fastVars
<1>2. id \in 1..captures /\ id # None /\ id \in DOMAIN events /\ id \notin processed
  <2>1. id \in 1..captures
    BY DEF Pending, IInv, Captured, Ids, None
  <2>2. id \notin processed
    BY DEF Pending, IInv, OneWorker
  <2> QED
    BY <2>1, <2>2 DEF IInv, Numbered, Ids, None
<1>3. PICK r \in [stage : {"backoff", "narrative", "edges"}, id : {id}, neighbors : BOOLEAN] :
        /\ ticks' = [ticks EXCEPT ![t] = r]
        /\ r.stage = "backoff" => runs' = runs
        /\ r.stage # "backoff" => /\ r.neighbors = (Neighbors(id) # {})
                                  /\ runs' = [runs EXCEPT ![id] = @ + 1]
                                  /\ r.stage = "edges" => events[id] = "full"
  <2>1. CASE Begin(t, id)
    <3> DEFINE r == [stage |-> IF events[id] = "full" THEN "edges" ELSE "narrative",
                     id |-> id, neighbors |-> Neighbors(id) # {}]
    <3>1. /\ r \in [stage : {"backoff", "narrative", "edges"}, id : {id}, neighbors : BOOLEAN]
          /\ r.neighbors = (Neighbors(id) # {})
          /\ r.stage # "backoff"
          /\ r.stage = "edges" => events[id] = "full"
      OBVIOUS
    <3> QED
      BY <2>1, <3>1 DEF Begin
  <2>2. CASE /\ ticks' = [ticks EXCEPT ![t] =
                  [stage |-> "backoff", id |-> id, neighbors |-> FALSE]]
             /\ runs' = runs
    <3> DEFINE r == [stage |-> "backoff", id |-> id, neighbors |-> FALSE]
    <3>1. /\ r \in [stage : {"backoff", "narrative", "edges"}, id : {id}, neighbors : BOOLEAN]
          /\ r.stage = "backoff"
      OBVIOUS
    <3> QED
      BY <2>2, <3>1
  <2> QED
    BY <2>1, <2>2
<1>4. /\ r.id = id
      /\ r.stage \in {"backoff", "narrative", "edges"}
      /\ r.neighbors \in BOOLEAN
  OBVIOUS
<1>5. /\ ticks \in [Ticks -> [stage : {"idle", "backoff", "narrative", "edges"},
                              id : {None} \union Ids, neighbors : BOOLEAN]]
      /\ runs \in [Ids -> Nat]
  BY DEF IInv, TypeOK
<1>6. ticks'[t] = r /\ \A u \in Ticks : u # t => ticks'[u] = ticks[u]
  BY <1>3, <1>5
<1>7. \A i \in Ids : Pending(i)' => Pending(i)
  BY <1>4, <1>6 DEF Pending
<1>8. Neighbors(id) # {} \/ events[id] = "none"
  BY DEF IInv, Enriched
<1>9. TypeOK'
  <2>1. ticks' \in [Ticks -> [stage : {"idle", "backoff", "narrative", "edges"},
                              id : {None} \union Ids, neighbors : BOOLEAN]]
    BY <1>3, <1>4, <1>5
  <2>2. \A u \in Ticks : Busy(u)' => ticks'[u].id \in DOMAIN events'
    BY <1>1, <1>2, <1>4, <1>6 DEF IInv, TypeOK, Busy
  <2>3. \A u \in Ticks : ticks'[u].stage = "edges" => ticks'[u].neighbors
    <3>1. r.stage = "edges" => r.neighbors
      BY <1>3, <1>8
    <3> QED
      BY <1>6, <3>1 DEF IInv, TypeOK
  <2>4. runs' \in [Ids -> Nat]
    BY <1>3, <1>5
  <2>5. /\ up' \in BOOLEAN /\ lives' \in 1..MaxLives
        /\ DOMAIN events' \subseteq Ids
        /\ \A i \in DOMAIN events' : events'[i] \in Narratives
        /\ temporal' \subseteq Ids \X Ids
        /\ inferred' \subseteq Ids /\ index' \subseteq Ids
    BY <1>1 DEF IInv, TypeOK
  <2>6. /\ counter' \in 0..MaxEvents /\ last' \in {None} \union Ids
        /\ processed' \subseteq Ids
        /\ tries' \in [Ids -> 0..MaxRetries - 1]
        /\ captures' \in 0..MaxEvents
        /\ done' \in [Ids -> [narrative : Narratives, edges : BOOLEAN, finished : BOOLEAN]]
    BY <1>1 DEF IInv, TypeOK
  <2>7. /\ DOMAIN disk' = {"events", "temporal", "inferred", "index", "indexSaved"}
        /\ DOMAIN disk'.events \subseteq Ids
        /\ \A i \in DOMAIN disk'.events : disk'.events[i] \in Narratives
        /\ disk'.temporal \subseteq Ids \X Ids
        /\ disk'.inferred \subseteq Ids
        /\ disk'.index \subseteq Ids
        /\ disk'.indexSaved \in BOOLEAN
    BY <1>1 DEF IInv, TypeOK
  <2> QED
    BY <2>1, <2>2, <2>3, <2>4, <2>5, <2>6, <2>7 DEF TypeOK
<1>10. Numbered' /\ Chained'
  BY <1>1 DEF IInv, Numbered, NothingForgotten, Chained, OneChain
<1>11. OneWorker'
  <2>1. \A u, v \in Ticks : u # v /\ Busy(u)' /\ Busy(v)' => ticks'[u].id # ticks'[v].id
    BY <1>4, <1>6 DEF IInv, OneWorker, Busy
  <2>2. \A u \in Ticks : Busy(u)' => ticks'[u].id \notin Queued'
    BY <1>4, <1>6 DEF IInv, OneWorker, Busy
  <2>3. \A i \in processed' : i \notin Queued' /\ \A u \in Ticks : ticks'[u].id # i
    BY <1>1, <1>2, <1>4, <1>6 DEF IInv, OneWorker
  <2> QED
    BY <2>1, <2>2, <2>3 DEF OneWorker, Distinct
<1>12. Captured'
  BY <1>1, <1>2, <1>4, <1>6 DEF IInv, Captured, Busy
<1>13. Stopped'
  BY <1>1 DEF Stopped
<1>14. Enriched'
  <2>1. \A i \in Ids : Pending(i)' /\ events'[i] # "none" => Neighbors(i)' # {}
    BY <1>1, <1>7 DEF IInv, Enriched, Neighbors
  <2>2. \A u \in Ticks : ticks'[u].stage = "narrative" /\ ticks'[u].neighbors
                           => Neighbors(ticks[u].id)' # {}
    <3>1. r.stage = "narrative" /\ r.neighbors => Neighbors(id)' # {}
      BY <1>1, <1>3 DEF Neighbors
    <3>2. \A u \in Ticks : u # t /\ ticks'[u].stage = "narrative" /\ ticks'[u].neighbors
                             => Neighbors(ticks[u].id)' # {}
      BY <1>1, <1>6 DEF IInv, Enriched, Neighbors
    <3> QED
      BY <1>4, <1>6, <3>1, <3>2 DEF Neighbors
  <2> QED
    BY <2>1, <2>2 DEF Enriched
<1>15. Budget'
  <2>1. runs[id] = tries[id]
    BY <1>2 DEF IInv, Budget, Working
  <2>2. tries[id] \in 0..MaxRetries - 1
    BY DEF IInv, TypeOK
  <2>3. \A u \in Ticks : Working(u)' => runs'[ticks'[u].id] = tries'[ticks'[u].id] + 1
    <3>1. Working(t)' => runs'[id] = tries[id] + 1
      BY <1>3, <1>5, <1>6, <2>1 DEF Working
    <3>2. \A u \in Ticks : u # t /\ Working(u)' => ticks[u].id \in Ids /\ ticks[u].id # id /\ Working(u)
      BY <1>5, <1>6 DEF Working, IInv, Captured, Busy, TypeOK, Ids
    <3>3. \A i \in Ids : i # id => runs'[i] = runs[i]
      BY <1>3, <1>5
    <3> QED
      BY <1>1, <1>4, <1>6, <3>1, <3>2, <3>3 DEF IInv, Budget
  <2>4. ASSUME NEW i \in Ids, i \notin processed',
               \A u \in Ticks : Working(u)' => ticks'[u].id # i
        PROVE  runs'[i] = tries'[i]
    <3>1. CASE i = id
      BY <1>1, <1>3, <1>4, <1>6, <2>1, <2>4, <3>1 DEF Working
    <3>2. CASE i # id
      <4>1. \A u \in Ticks : Working(u) => ticks[u].id # i
        BY <1>6, <2>4, <3>2 DEF Working
      <4>2. runs'[i] = runs[i]
        BY <1>3, <1>5, <3>2
      <4> QED
        BY <1>1, <2>4, <4>1, <4>2 DEF IInv, Budget
    <3> QED
      BY <3>1, <3>2
  <2>5. RetriesBounded'
    <3>1. \A i \in Ids : i # id => runs'[i] = runs[i]
      BY <1>3, <1>5
    <3>2. runs'[id] =< MaxRetries
      BY <1>3, <1>5, <2>1, <2>2
    <3> QED
      BY <3>1, <3>2 DEF IInv, Budget, RetriesBounded
  <2> QED
    BY <2>3, <2>4, <2>5 DEF Budget
<1>16. DoneIsSaved'
  BY <1>1 DEF IInv, DoneIsSaved
<1>17. Remembered'
  BY <1>1, <1>7 DEF IInv, Remembered
<1> QED
  BY <1>9, <1>10, <1>11, <1>12, <1>13, <1>14, <1>15, <1>16, <1>17 DEF IInv

LEMMA StartTickKeeps ==
  ASSUME IInv, NEW t \in Ticks, StartTick(t)
  PROVE  IInv'
<1> DEFINE id == Head(queue)
<1>1. /\ up /\ ~Busy(t) /\ queue # <<>> /\ queue' = Tail(queue)
      /\ \/ Begin(t, id)
         \/ /\ ticks' = [ticks EXCEPT ![t] =
                  [stage |-> "backoff", id |-> id, neighbors |-> FALSE]]
            /\ runs' = runs
      /\ UNCHANGED <<up, lives, graphVars, fastVars, processed, tries, disk, captures, done>>
  BY DEF StartTick, Take
<1>2. queue \in Seq(Ids) /\ Distinct(queue) /\ Queued = Elements(queue)
  BY DEF IInv, TypeOK, OneWorker, Distinct, Queued, Elements
<1>3. Queued' = Elements(queue')
  BY DEF Queued, Elements
<1>4. /\ id \in Ids /\ id \in Queued
      /\ queue' \in Seq(Ids) /\ Distinct(queue')
      /\ Queued' \subseteq Queued /\ id \notin Queued'
  BY <1>1, <1>2, <1>3, TailElements
<1>5. \A u \in Ticks : ticks[u].id # id
  BY <1>4 DEF IInv, OneWorker, Captured, Ids, None
<1>6. Pending(id) /\ ~Working(t)
  BY <1>1, <1>4 DEF Pending, Working, Busy
<1> HIDE DEF id
<1> QED
  BY <1>1, <1>4, <1>5, <1>6, HoldKeeps

LEMMA EndBackoffKeeps ==
  ASSUME IInv, NEW t \in Ticks, EndBackoff(t)
  PROVE  IInv'
<1> DEFINE id == ticks[t].id
<1>1. /\ ticks[t].stage = "backoff" /\ Begin(t, id) /\ queue' = queue
      /\ UNCHANGED <<up, lives, graphVars, fastVars, processed, tries, disk, captures, done>>
  BY DEF EndBackoff
<1>2. Busy(t) /\ ~Working(t)
  BY <1>1 DEF Busy, Working
<1>3. id \in Ids /\ id \in 1..captures
  BY <1>2 DEF IInv, TypeOK, Captured
<1>4. up
  BY <1>2 DEF IInv, Stopped
<1>5. Pending(id)
  BY DEF Pending
<1>6. \A u \in Ticks : u # t => ticks[u].id # id
  BY <1>2, <1>3 DEF IInv, OneWorker, Captured, None
<1>7. /\ queue' \in Seq(Ids) /\ Distinct(queue')
      /\ Queued' \subseteq Queued /\ id \notin Queued'
  BY <1>1, <1>2 DEF IInv, TypeOK, OneWorker, Distinct, Queued
<1> HIDE DEF id
<1> QED
  BY <1>1, <1>2, <1>3, <1>4, <1>5, <1>6, <1>7, HoldKeeps DEF id

\* The first answer is stored, and the second request is made.
LEMMA NarrativeKeeps ==
  ASSUME IInv, NEW t \in Ticks,
         ticks[t].stage = "narrative", ticks[t].neighbors,
         NEW narrative \in {events[ticks[t].id], "partial", "full"},
         events' = [events EXCEPT ![ticks[t].id] = narrative],
         ticks' = [ticks EXCEPT ![t] =
           [stage |-> "edges", id |-> ticks[t].id, neighbors |-> TRUE]],
         UNCHANGED <<up, lives, temporal, index, fastVars, queue, captures, runs,
                     inferred, processed, tries, disk, done>>
  PROVE  IInv'
<1> DEFINE id == ticks[t].id
<1> USE BoundsAssumption, MaxRetriesAssumption
<1>1. /\ up' = up /\ lives' = lives /\ temporal' = temporal
      /\ inferred' = inferred /\ index' = index /\ counter' = counter /\ last' = last
      /\ queue' = queue /\ processed' = processed /\ tries' = tries /\ disk' = disk
      /\ captures' = captures /\ done' = done /\ runs' = runs
  BY DEF fastVars
<1>2. /\ ticks \in [Ticks -> [stage : {"idle", "backoff", "narrative", "edges"},
                              id : {None} \union Ids, neighbors : BOOLEAN]]
      /\ Busy(t) /\ id \in 1..captures /\ id \in Ids /\ id \in DOMAIN events
      /\ Pending(id)
  BY DEF IInv, TypeOK, Busy, Captured, Ids, Pending
<1>3. /\ ticks'[t].stage = "edges" /\ ticks'[t].neighbors
      /\ \A u \in Ticks : ticks'[u].id = ticks[u].id
      /\ \A u \in Ticks : u # t => ticks'[u] = ticks[u]
  BY <1>2
<1>4. /\ DOMAIN events' = DOMAIN events
      /\ events'[id] = narrative
      /\ \A i \in DOMAIN events : i # id => events'[i] = events[i]
      /\ narrative \in Narratives
  BY <1>2 DEF IInv, TypeOK, Narratives
<1>5. \A u \in Ticks : (Busy(u)' <=> Busy(u)) /\ (Working(u)' <=> Working(u))
  BY <1>3 DEF Busy, Working
<1>6. Queued' = Queued /\ \A i \in Ids : Pending(i)' <=> Pending(i)
  <2>1. Queued' = Queued
    BY <1>1 DEF Queued
  <2> QED
    BY <1>3, <2>1 DEF Pending
<1>7. Neighbors(id) # {} /\ \A i \in Ids : Neighbors(i)' = Neighbors(i)
  BY <1>1, <1>4 DEF IInv, Enriched, Neighbors
<1>8. TypeOK'
  <2>1. ticks' \in [Ticks -> [stage : {"idle", "backoff", "narrative", "edges"},
                              id : {None} \union Ids, neighbors : BOOLEAN]]
    BY <1>2
  <2>2. \A u \in Ticks : Busy(u)' => ticks'[u].id \in DOMAIN events'
    BY <1>3, <1>4, <1>5 DEF IInv, TypeOK
  <2>3. \A u \in Ticks : ticks'[u].stage = "edges" => ticks'[u].neighbors
    BY <1>3 DEF IInv, TypeOK
  <2>4. DOMAIN events' \subseteq Ids /\ \A i \in DOMAIN events' : events'[i] \in Narratives
    BY <1>4 DEF IInv, TypeOK
  <2>5. /\ up' \in BOOLEAN /\ lives' \in 1..MaxLives
        /\ temporal' \subseteq Ids \X Ids
        /\ inferred' \subseteq Ids /\ index' \subseteq Ids
        /\ queue' \in Seq(Ids)
    BY <1>1 DEF IInv, TypeOK
  <2>6. /\ counter' \in 0..MaxEvents /\ last' \in {None} \union Ids
        /\ processed' \subseteq Ids
        /\ tries' \in [Ids -> 0..MaxRetries - 1]
        /\ captures' \in 0..MaxEvents
        /\ runs' \in [Ids -> Nat]
        /\ done' \in [Ids -> [narrative : Narratives, edges : BOOLEAN, finished : BOOLEAN]]
    BY <1>1 DEF IInv, TypeOK
  <2>7. /\ DOMAIN disk' = {"events", "temporal", "inferred", "index", "indexSaved"}
        /\ DOMAIN disk'.events \subseteq Ids
        /\ \A i \in DOMAIN disk'.events : disk'.events[i] \in Narratives
        /\ disk'.temporal \subseteq Ids \X Ids
        /\ disk'.inferred \subseteq Ids
        /\ disk'.index \subseteq Ids
        /\ disk'.indexSaved \in BOOLEAN
    BY <1>1 DEF IInv, TypeOK
  <2> QED
    BY <2>1, <2>2, <2>3, <2>4, <2>5, <2>6, <2>7 DEF TypeOK
<1>9. Numbered' /\ Chained'
  <2>1. NothingForgotten'
    BY <1>1 DEF IInv, Numbered, NothingForgotten
  <2>2. up' => DOMAIN events' = 1..captures' /\ counter' = captures' /\ last' = captures'
    BY <1>1, <1>4 DEF IInv, Numbered
  <2>3. OneChain'
    BY <1>1 DEF IInv, Chained, OneChain
  <2>4. up' => temporal' = disk'.temporal
    BY <1>1 DEF IInv, Chained
  <2> QED
    BY <2>1, <2>2, <2>3, <2>4 DEF Numbered, Chained
<1>10. OneWorker'
  BY <1>1, <1>3, <1>5, <1>6 DEF IInv, OneWorker
<1>11. Captured' /\ Stopped'
  BY <1>1, <1>3, <1>5, <1>6 DEF IInv, Captured, Stopped
<1>12. Enriched'
  <2>1. ASSUME NEW i \in Ids, Pending(i)', events'[i] # "none" PROVE Neighbors(i)' # {}
    <3>1. CASE i = id
      BY <1>7, <3>1
    <3>2. CASE i # id
      <4>1. i \in DOMAIN events
        BY <1>6, <2>1, PendingFacts
      <4> QED
        BY <1>4, <1>6, <1>7, <2>1, <3>2, <4>1 DEF IInv, Enriched
    <3> QED
      BY <3>1, <3>2
  <2>2. \A u \in Ticks : ticks'[u].stage = "narrative" /\ ticks'[u].neighbors
                           => Neighbors(ticks[u].id)' # {}
    BY <1>1, <1>3, <1>4 DEF IInv, Enriched, Neighbors
  <2> QED
    BY <1>3, <2>1, <2>2 DEF Enriched, Neighbors
<1>13. Budget'
  BY <1>1, <1>3, <1>5 DEF IInv, Budget, RetriesBounded
<1>14. DoneIsSaved'
  BY <1>1 DEF IInv, DoneIsSaved
<1>15. Remembered'
  <2>1. \A i \in Ids : Pending(i)' => i \in index'
    BY <1>1, <1>6 DEF IInv, Remembered
  <2>2. ASSUME NEW i \in Ids, done'[i].finished
        PROVE  /\ ~Pending(i)' /\ i \in 1..captures' /\ disk'.indexSaved
               /\ up' => /\ events'[i] = done'[i].narrative
                         /\ done'[i].edges <=> i \in inferred'
                         /\ i \in index'
    <3>1. /\ ~Pending(i) /\ i \in 1..captures /\ i # id
      BY <1>1, <1>2, <2>2 DEF IInv, Remembered
    <3>2. up => i \in DOMAIN events
      BY <3>1 DEF IInv, Numbered
    <3> QED
      BY <1>1, <1>4, <1>6, <2>2, <3>1, <3>2 DEF IInv, Remembered
  <2> QED
    BY <2>1, <2>2 DEF Remembered
<1> QED
  BY <1>8, <1>9, <1>10, <1>11, <1>12, <1>13, <1>14, <1>15 DEF IInv

\* An event is finished, and everything the process knows is saved.
LEMMA FinishKeeps ==
  ASSUME IInv, NEW t \in Ticks, NEW id \in Ids,
         Working(t), ticks[t].id = id,
         NEW evs, NEW inf,
         DOMAIN evs = DOMAIN events,
         evs[id] \in Narratives,
         \A i \in DOMAIN events : i # id => evs[i] = events[i],
         inferred \subseteq inf, inf \subseteq inferred \union {id},
         Succeed(t, evs, inf),
         UNCHANGED <<up, lives, temporal, index, fastVars, queue, captures, runs>>
  PROVE  IInv'
<1> USE BoundsAssumption, MaxRetriesAssumption
<1>1. /\ up' = up /\ lives' = lives /\ temporal' = temporal /\ index' = index
      /\ counter' = counter /\ last' = last /\ queue' = queue
      /\ captures' = captures /\ runs' = runs
  BY DEF fastVars
<1>2. /\ events' = evs /\ inferred' = inf
      /\ processed' = processed \union {id}
      /\ tries' = [tries EXCEPT ![id] = 0]
      /\ ticks' = [ticks EXCEPT ![t] = [stage |-> "idle", id |-> 0, neighbors |-> FALSE]]
      /\ disk' = [events |-> evs, temporal |-> temporal, inferred |-> inf,
                  index |-> index, indexSaved |-> TRUE]
      /\ done' = [done EXCEPT ![id] = [narrative |-> evs[id], edges |-> id \in inf,
                                       finished |-> TRUE]]
  BY DEF Succeed, Finish, SaveAll, Idle, None
<1>3. /\ ticks \in [Ticks -> [stage : {"idle", "backoff", "narrative", "edges"},
                              id : {None} \union Ids, neighbors : BOOLEAN]]
      /\ tries \in [Ids -> 0..MaxRetries - 1]
      /\ done \in [Ids -> [narrative : Narratives, edges : BOOLEAN, finished : BOOLEAN]]
  BY DEF IInv, TypeOK
<1>4. Busy(t) /\ Pending(id)
  BY DEF Working, Busy, Pending
<1>5. id \in 1..captures /\ id \in Ids
  BY <1>4 DEF IInv, Captured, TypeOK, Ids
<1>6. up /\ id \in DOMAIN events
  BY <1>4, <1>5, PendingFacts
<1>7. DOMAIN events = 1..captures /\ temporal = disk.temporal
  BY <1>6 DEF IInv, Numbered, Chained
<1>8. /\ ticks'[t].stage = "idle" /\ ticks'[t].id = None /\ ~ticks'[t].neighbors
      /\ \A u \in Ticks : u # t => ticks'[u] = ticks[u]
  BY <1>2, <1>3 DEF None
<1>9. ~Busy(t)' /\ \A u \in Ticks : u # t => (Busy(u)' <=> Busy(u)) /\ (Working(u)' <=> Working(u))
  BY <1>8 DEF Busy, Working
<1>10. ~Working(t)'
  BY <1>8 DEF Working
<1>11. /\ id \notin Queued
       /\ \A u \in Ticks : u # t => ticks[u].id # id
  BY <1>4, <1>5 DEF IInv, OneWorker, Captured, Ids, None
<1>12. Queued' = Queued /\ ~Pending(id)' /\ \A i \in Ids : Pending(i)' => Pending(i)
  <2>1. Queued' = Queued
    BY <1>1 DEF Queued
  <2>2. \A u \in Ticks : ticks'[u].id # id
    BY <1>5, <1>8, <1>11 DEF Ids, None
  <2>3. \A i \in Ids : Pending(i)' => Pending(i)
    BY <1>8, <2>1 DEF Pending, Ids, None
  <2> QED
    BY <1>11, <2>1, <2>2, <2>3 DEF Pending
<1>13. /\ disk'.events = evs /\ disk'.temporal = temporal /\ disk'.inferred = inf
       /\ disk'.index = index /\ disk'.indexSaved = TRUE
       /\ DOMAIN disk' = {"events", "temporal", "inferred", "index", "indexSaved"}
  BY <1>2
<1>14. /\ done'[id].narrative = evs[id] /\ (done'[id].edges <=> id \in inf)
       /\ done'[id].finished
       /\ \A i \in Ids : i # id => done'[i] = done[i]
  BY <1>2, <1>3, <1>5
<1>15. \A i \in Ids : i # id => tries'[i] = tries[i]
  BY <1>2, <1>3
<1>16. \A i \in Ids : Neighbors(i)' = Neighbors(i)
  BY <1>1, <1>2 DEF Neighbors
<1>17. TypeOK'
  <2>1. ticks' \in [Ticks -> [stage : {"idle", "backoff", "narrative", "edges"},
                              id : {None} \union Ids, neighbors : BOOLEAN]]
    BY <1>2, <1>3 DEF None
  <2>2. \A u \in Ticks : Busy(u)' => ticks'[u].id \in DOMAIN events'
    BY <1>2, <1>8, <1>9 DEF IInv, TypeOK
  <2>3. \A u \in Ticks : ticks'[u].stage = "edges" => ticks'[u].neighbors
    BY <1>8 DEF IInv, TypeOK
  <2>4. DOMAIN evs \subseteq Ids /\ \A i \in DOMAIN evs : evs[i] \in Narratives
    BY DEF IInv, TypeOK
  <2>5. inf \subseteq Ids
    BY <1>5 DEF IInv, TypeOK
  <2>6. tries' \in [Ids -> 0..MaxRetries - 1]
    <3>1. 0 \in 0..MaxRetries - 1
      OBVIOUS
    <3> QED
      BY <1>2, <1>3, <3>1
  <2>7. done' \in [Ids -> [narrative : Narratives, edges : BOOLEAN, finished : BOOLEAN]]
    <3> DEFINE d == [narrative |-> evs[id], edges |-> id \in inf, finished |-> TRUE]
    <3>1. d \in [narrative : Narratives, edges : BOOLEAN, finished : BOOLEAN]
      OBVIOUS
    <3>2. done' = [done EXCEPT ![id] = d]
      BY <1>2
    <3> HIDE DEF d
    <3> QED
      BY <1>3, <3>1, <3>2
  <2>8. processed' \subseteq Ids
    BY <1>2, <1>5 DEF IInv, TypeOK
  <2>9. /\ up' \in BOOLEAN /\ lives' \in 1..MaxLives
        /\ temporal' \subseteq Ids \X Ids
        /\ index' \subseteq Ids
        /\ queue' \in Seq(Ids)
    BY <1>1 DEF IInv, TypeOK
  <2>10. /\ counter' \in 0..MaxEvents /\ last' \in {None} \union Ids
         /\ captures' \in 0..MaxEvents
         /\ runs' \in [Ids -> Nat]
    BY <1>1 DEF IInv, TypeOK
  <2>11. temporal \subseteq Ids \X Ids /\ index \subseteq Ids
    BY DEF IInv, TypeOK
  <2>12. disk'.indexSaved \in BOOLEAN
    BY <1>13
  <2>13. /\ DOMAIN events' \subseteq Ids /\ \A i \in DOMAIN events' : events'[i] \in Narratives
         /\ DOMAIN disk'.events \subseteq Ids
         /\ \A i \in DOMAIN disk'.events : disk'.events[i] \in Narratives
    BY <1>2, <1>13, <2>4
  <2>14. /\ inferred' \subseteq Ids /\ disk'.inferred \subseteq Ids
         /\ disk'.temporal \subseteq Ids \X Ids
         /\ disk'.index \subseteq Ids
    BY <1>2, <1>13, <2>5, <2>11
  <2> QED
    BY <1>13, <2>1, <2>2, <2>3, <2>6, <2>7, <2>8, <2>9, <2>10, <2>12, <2>13, <2>14 DEF TypeOK
<1>18. Numbered' /\ Chained'
  <2>1. NothingForgotten'
    BY <1>1, <1>7, <1>13 DEF NothingForgotten
  <2>2. up' => DOMAIN events' = 1..captures' /\ counter' = captures' /\ last' = captures'
    BY <1>1, <1>2, <1>7 DEF IInv, Numbered
  <2>3. OneChain'
    BY <1>1, <1>7, <1>13 DEF IInv, Chained, OneChain
  <2>4. up' => temporal' = disk'.temporal
    BY <1>1, <1>13
  <2> QED
    BY <2>1, <2>2, <2>3, <2>4 DEF Numbered, Chained
<1>19. OneWorker'
  <2>1. \A j, k \in DOMAIN queue' : j # k => queue'[j] # queue'[k]
    BY <1>1 DEF IInv, OneWorker
  <2>2. \A u, v \in Ticks : u # v /\ Busy(u)' /\ Busy(v)' => ticks'[u].id # ticks'[v].id
    BY <1>8, <1>9 DEF IInv, OneWorker
  <2>3. \A u \in Ticks : Busy(u)' => ticks'[u].id \notin Queued'
    BY <1>8, <1>9, <1>12 DEF IInv, OneWorker
  <2>4. ASSUME NEW i \in processed' PROVE i \notin Queued' /\ \A u \in Ticks : ticks'[u].id # i
    <3>1. CASE i = id
      BY <1>12, <3>1 DEF Pending
    <3>2. CASE i # id
      <4>1. i \in processed /\ i \in Ids
        BY <1>2, <2>4, <3>2 DEF IInv, TypeOK
      <4> QED
        BY <1>8, <1>12, <4>1 DEF IInv, OneWorker, Ids, None
    <3> QED
      BY <3>1, <3>2
  <2> QED
    BY <2>1, <2>2, <2>3, <2>4 DEF OneWorker
<1>20. Captured'
  <2>1. Queued' \subseteq 1..captures' /\ processed' \subseteq 1..captures'
    BY <1>1, <1>2, <1>5, <1>12 DEF IInv, Captured
  <2>2. \A u \in Ticks : IF Busy(u)' THEN ticks'[u].id \in 1..captures' ELSE ticks'[u].id = None
    BY <1>1, <1>8, <1>9 DEF IInv, Captured
  <2> QED
    BY <2>1, <2>2 DEF Captured
<1>21. Stopped'
  BY <1>1, <1>6 DEF Stopped
<1>22. Enriched'
  <2>1. ASSUME NEW i \in Ids, Pending(i)', events'[i] # "none" PROVE Neighbors(i)' # {}
    <3>1. i # id /\ Pending(i)
      BY <1>12, <2>1
    <3>2. i \in DOMAIN events
      BY <3>1, PendingFacts
    <3> QED
      BY <1>2, <1>16, <2>1, <3>1, <3>2 DEF IInv, Enriched
  <2>2. \A u \in Ticks : ticks'[u].stage = "narrative" /\ ticks'[u].neighbors
                           => u # t /\ Neighbors(ticks[u].id)' # {}
    BY <1>1, <1>2, <1>8 DEF IInv, Enriched, Neighbors
  <2> QED
    BY <1>8, <2>1, <2>2 DEF Enriched, Neighbors
<1>23. Budget'
  <2>1. ASSUME NEW u \in Ticks, Working(u)'
        PROVE  runs'[ticks'[u].id] = tries'[ticks'[u].id] + 1
    <3>1. u # t /\ Working(u) /\ ticks'[u] = ticks[u]
      BY <1>8, <1>9, <1>10, <2>1
    <3>2. ticks[u].id \in Ids /\ ticks[u].id # id
      BY <1>3, <1>11, <3>1 DEF Working, IInv, Captured, Busy, TypeOK, Ids
    <3> QED
      BY <1>1, <1>15, <3>1, <3>2 DEF IInv, Budget
  <2>2. ASSUME NEW i \in Ids, i \notin processed',
               \A u \in Ticks : Working(u)' => ticks'[u].id # i
        PROVE  runs'[i] = tries'[i]
    <3>1. i # id /\ i \notin processed
      BY <1>2, <2>2
    <3>2. \A u \in Ticks : Working(u) => ticks[u].id # i
      BY <1>8, <1>9, <2>2, <3>1
    <3> QED
      BY <1>1, <1>15, <3>1, <3>2 DEF IInv, Budget
  <2>3. RetriesBounded'
    BY <1>1 DEF IInv, Budget, RetriesBounded
  <2> QED
    BY <2>1, <2>2, <2>3 DEF Budget
<1>24. ASSUME NEW i \in Ids, done'[i].finished
       PROVE  /\ ~Pending(i)' /\ i \in 1..captures /\ i \in DOMAIN evs
              /\ evs[i] = done'[i].narrative
              /\ (done'[i].edges <=> i \in inf)
              /\ i \in index
  <2>1. CASE i = id
    <3>1. id \in index
      BY <1>4, <1>5 DEF IInv, Remembered
    <3>2. (done'[id].edges <=> id \in inf) /\ evs[id] = done'[id].narrative
      BY <1>14
    <3> QED
      BY <1>5, <1>6, <1>12, <2>1, <3>1, <3>2
  <2>2. CASE i # id
    <3>1. /\ ~Pending(i) /\ i \in 1..captures
          /\ events[i] = done[i].narrative
          /\ (done[i].edges <=> i \in inferred)
          /\ i \in index
      BY <1>6, <1>14, <1>24, <2>2 DEF IInv, Remembered
    <3>2. i \in DOMAIN events /\ (i \in inf <=> i \in inferred)
      BY <1>7, <2>2, <3>1
    <3> QED
      BY <1>12, <1>14, <2>2, <3>1, <3>2
  <2> QED
    BY <2>1, <2>2
<1>25. DoneIsSaved'
  BY <1>13, <1>24 DEF DoneIsSaved
<1>26. Remembered'
  <2>1. \A i \in Ids : Pending(i)' => i \in index'
    BY <1>1, <1>12 DEF IInv, Remembered
  <2>2. \A i \in Ids : done'[i].finished =>
          /\ ~Pending(i)' /\ i \in 1..captures' /\ disk'.indexSaved
          /\ up' => /\ events'[i] = done'[i].narrative
                    /\ done'[i].edges <=> i \in inferred'
                    /\ i \in index'
    BY <1>1, <1>2, <1>13, <1>24
  <2> QED
    BY <2>1, <2>2 DEF Remembered
<1> QED
  BY <1>17, <1>18, <1>19, <1>20, <1>21, <1>22, <1>23, <1>25, <1>26 DEF IInv

\* A failed event goes back to the queue, or is given up.
LEMMA FailKeeps ==
  ASSUME IInv, NEW t \in Ticks, NEW id \in Ids, ticks[t].id = id, Fail(t)
  PROVE  IInv'
<1> USE BoundsAssumption, MaxRetriesAssumption
<1>1. /\ up' = up /\ lives' = lives /\ events' = events /\ temporal' = temporal
      /\ inferred' = inferred /\ index' = index /\ counter' = counter /\ last' = last
      /\ disk' = disk /\ captures' = captures /\ runs' = runs /\ done' = done
  BY DEF Fail, GiveBack, graphVars, fastVars, historyVars
<1>2. /\ Working(t)
      /\ ticks' = [ticks EXCEPT ![t] = [stage |-> "idle", id |-> 0, neighbors |-> FALSE]]
  BY DEF Fail, GiveBack, Working, Idle, None
<1>3. \/ /\ tries[id] + 1 < MaxRetries
         /\ tries' = [tries EXCEPT ![id] = tries[id] + 1]
         /\ queue' = Append(queue, id)
         /\ processed' = processed
      \/ /\ tries' = [tries EXCEPT ![id] = 0]
         /\ processed' = processed \union {id}
         /\ queue' = queue
  BY DEF Fail, GiveBack
<1>4. /\ ticks \in [Ticks -> [stage : {"idle", "backoff", "narrative", "edges"},
                              id : {None} \union Ids, neighbors : BOOLEAN]]
      /\ tries \in [Ids -> 0..MaxRetries - 1]
      /\ queue \in Seq(Ids)
  BY DEF IInv, TypeOK
<1>5. Busy(t) /\ Pending(id)
  BY <1>2 DEF Working, Busy, Pending
<1>6. id \in 1..captures
  BY <1>5, PendingFacts
<1>7. up
  BY <1>5, PendingFacts
<1>8. /\ id \notin Queued /\ id \notin processed
      /\ \A u \in Ticks : u # t => ticks[u].id # id
  BY <1>5, <1>6 DEF IInv, OneWorker, Captured, Ids, None
<1>9. /\ ticks'[t].stage = "idle" /\ ticks'[t].id = None /\ ~ticks'[t].neighbors
      /\ \A u \in Ticks : u # t => ticks'[u] = ticks[u]
  BY <1>2, <1>4 DEF None
<1>10. ~Busy(t)' /\ \A u \in Ticks : u # t => (Busy(u)' <=> Busy(u)) /\ (Working(u)' <=> Working(u))
  BY <1>9 DEF Busy, Working
<1>11. ~Working(t)'
  BY <1>9 DEF Working
<1>12. /\ queue' \in Seq(Ids) /\ Distinct(queue')
       /\ Queued' \subseteq Queued \union {id}
       /\ \A i \in processed' : i \notin Queued'
  <2>1. Distinct(queue) /\ Queued = Elements(queue) /\ Queued' = Elements(queue')
    BY DEF IInv, OneWorker, Distinct, Queued, Elements
  <2>2. \A i \in processed : i \notin Queued
    BY DEF IInv, OneWorker
  <2>3. CASE queue' = Append(queue, id) /\ processed' = processed
    BY <1>4, <1>8, <2>1, <2>2, <2>3, AppendElements
  <2>4. CASE queue' = queue /\ processed' = processed \union {id}
    BY <1>4, <1>8, <2>1, <2>2, <2>4
  <2> QED
    BY <1>3, <2>3, <2>4
<1>13. \A i \in Ids : Pending(i)' => Pending(i)
  BY <1>5, <1>9, <1>12 DEF Pending, Ids, None
<1>14. processed' \subseteq processed \union {id}
  BY <1>3
<1>15. TypeOK'
  <2>1. ticks' \in [Ticks -> [stage : {"idle", "backoff", "narrative", "edges"},
                              id : {None} \union Ids, neighbors : BOOLEAN]]
    BY <1>2, <1>4 DEF None
  <2>2. \A u \in Ticks : Busy(u)' => ticks'[u].id \in DOMAIN events'
    BY <1>1, <1>9, <1>10 DEF IInv, TypeOK
  <2>3. \A u \in Ticks : ticks'[u].stage = "edges" => ticks'[u].neighbors
    BY <1>9 DEF IInv, TypeOK
  <2>4. tries' \in [Ids -> 0..MaxRetries - 1]
    <3>1. 0 \in 0..MaxRetries - 1 /\ tries[id] \in 0..MaxRetries - 1
      BY <1>4
    <3>2. tries[id] + 1 < MaxRetries => tries[id] + 1 \in 0..MaxRetries - 1
      BY <3>1
    <3> QED
      BY <1>3, <1>4, <3>1, <3>2
  <2>5. processed' \subseteq Ids
    BY <1>14 DEF IInv, TypeOK
  <2>6. /\ up' \in BOOLEAN /\ lives' \in 1..MaxLives
        /\ DOMAIN events' \subseteq Ids
        /\ \A i \in DOMAIN events' : events'[i] \in Narratives
        /\ temporal' \subseteq Ids \X Ids
        /\ inferred' \subseteq Ids /\ index' \subseteq Ids
    BY <1>1 DEF IInv, TypeOK
  <2>7. /\ counter' \in 0..MaxEvents /\ last' \in {None} \union Ids
        /\ captures' \in 0..MaxEvents
        /\ runs' \in [Ids -> Nat]
        /\ done' \in [Ids -> [narrative : Narratives, edges : BOOLEAN, finished : BOOLEAN]]
    BY <1>1 DEF IInv, TypeOK
  <2>8. /\ DOMAIN disk' = {"events", "temporal", "inferred", "index", "indexSaved"}
        /\ DOMAIN disk'.events \subseteq Ids
        /\ \A i \in DOMAIN disk'.events : disk'.events[i] \in Narratives
        /\ disk'.temporal \subseteq Ids \X Ids
        /\ disk'.inferred \subseteq Ids
        /\ disk'.index \subseteq Ids
        /\ disk'.indexSaved \in BOOLEAN
    BY <1>1 DEF IInv, TypeOK
  <2> QED
    BY <1>12, <2>1, <2>2, <2>3, <2>4, <2>5, <2>6, <2>7, <2>8 DEF TypeOK
<1>16. Numbered' /\ Chained'
  <2>1. NothingForgotten'
    BY <1>1 DEF IInv, Numbered, NothingForgotten
  <2>2. up' => DOMAIN events' = 1..captures' /\ counter' = captures' /\ last' = captures'
    BY <1>1 DEF IInv, Numbered
  <2>3. OneChain'
    BY <1>1 DEF IInv, Chained, OneChain
  <2>4. up' => temporal' = disk'.temporal
    BY <1>1 DEF IInv, Chained
  <2> QED
    BY <2>1, <2>2, <2>3, <2>4 DEF Numbered, Chained
<1>17. OneWorker'
  <2>1. \A u, v \in Ticks : u # v /\ Busy(u)' /\ Busy(v)' => ticks'[u].id # ticks'[v].id
    BY <1>9, <1>10 DEF IInv, OneWorker
  <2>2. ASSUME NEW u \in Ticks, Busy(u)' PROVE ticks'[u].id \notin Queued'
    <3>1. u # t /\ Busy(u) /\ ticks'[u] = ticks[u]
      BY <1>9, <1>10, <2>2
    <3>2. ticks[u].id \notin Queued
      BY <3>1 DEF IInv, OneWorker
    <3> QED
      BY <1>8, <1>12, <3>1, <3>2
  <2>3. ASSUME NEW i \in processed', NEW u \in Ticks PROVE ticks'[u].id # i
    <3>1. i \in Ids /\ (i = id \/ i \in processed)
      BY <1>14, <2>3 DEF IInv, TypeOK
    <3>2. \A v \in Ticks : \A j \in processed : ticks[v].id # j
      BY DEF IInv, OneWorker
    <3> QED
      BY <1>8, <1>9, <3>1, <3>2 DEF Ids, None
  <2> QED
    BY <1>12, <2>1, <2>2, <2>3 DEF OneWorker, Distinct
<1>18. Captured'
  <2>1. Queued' \subseteq 1..captures' /\ processed' \subseteq 1..captures'
    BY <1>1, <1>6, <1>12, <1>14 DEF IInv, Captured
  <2>2. \A u \in Ticks : IF Busy(u)' THEN ticks'[u].id \in 1..captures' ELSE ticks'[u].id = None
    BY <1>1, <1>9, <1>10 DEF IInv, Captured
  <2> QED
    BY <2>1, <2>2 DEF Captured
<1>19. Stopped'
  BY <1>1, <1>7 DEF Stopped
<1>20. Enriched'
  <2>1. \A i \in Ids : Pending(i)' /\ events'[i] # "none" => Neighbors(i)' # {}
    BY <1>1, <1>13 DEF IInv, Enriched, Neighbors
  <2>2. \A u \in Ticks : ticks'[u].stage = "narrative" /\ ticks'[u].neighbors
                           => u # t /\ Neighbors(ticks[u].id)' # {}
    BY <1>1, <1>9 DEF IInv, Enriched, Neighbors
  <2> QED
    BY <1>9, <2>1, <2>2 DEF Enriched, Neighbors
<1>21. Budget'
  <2>1. \A i \in Ids : i # id => tries'[i] = tries[i]
    BY <1>3, <1>4
  <2>2. runs[id] = tries[id] + 1
    BY <1>2 DEF IInv, Budget
  <2>3. ASSUME NEW u \in Ticks, Working(u)'
        PROVE  runs'[ticks'[u].id] = tries'[ticks'[u].id] + 1
    <3>1. u # t /\ Working(u) /\ ticks'[u] = ticks[u]
      BY <1>9, <1>10, <1>11, <2>3
    <3>2. ticks[u].id \in Ids /\ ticks[u].id # id
      BY <1>4, <1>8, <3>1 DEF Working, IInv, Captured, Busy, TypeOK, Ids
    <3> QED
      BY <1>1, <2>1, <3>1, <3>2 DEF IInv, Budget
  <2>4. ASSUME NEW i \in Ids, i \notin processed',
               \A u \in Ticks : Working(u)' => ticks'[u].id # i
        PROVE  runs'[i] = tries'[i]
    <3>1. CASE i = id
      <4>1. tries' = [tries EXCEPT ![id] = tries[id] + 1]
        BY <1>3, <2>4, <3>1
      <4>2. tries'[id] = tries[id] + 1
        BY <1>4, <4>1
      <4> QED
        BY <1>1, <2>2, <3>1, <4>2
    <3>2. CASE i # id
      <4>1. i \notin processed
        BY <1>3, <2>4, <3>2
      <4>2. \A u \in Ticks : Working(u) => ticks[u].id # i
        BY <1>9, <1>10, <2>4, <3>2
      <4> QED
        BY <1>1, <2>1, <3>2, <4>1, <4>2 DEF IInv, Budget
    <3> QED
      BY <3>1, <3>2
  <2>5. RetriesBounded'
    BY <1>1 DEF IInv, Budget, RetriesBounded
  <2> QED
    BY <2>3, <2>4, <2>5 DEF Budget
<1>22. DoneIsSaved'
  BY <1>1 DEF IInv, DoneIsSaved
<1>23. Remembered'
  BY <1>1, <1>13 DEF IInv, Remembered
<1> QED
  BY <1>15, <1>16, <1>17, <1>18, <1>19, <1>20, <1>21, <1>22, <1>23 DEF IInv

\* Every step of a tick that has begun.
LEMMA AdvanceKeeps ==
  ASSUME IInv, NEW t \in Ticks, Advance(t)
  PROVE  IInv'
<1>1. CASE EndBackoff(t)
  BY <1>1, EndBackoffKeeps
<1>2. CASE NarrativeAnswered(t)
  <2>1. ticks[t].stage = "narrative" /\ Busy(t) /\ Working(t)
    BY <1>2 DEF NarrativeAnswered, Busy, Working
  <2>2. PICK id \in Ids : ticks[t].id = id
    BY <2>1 DEF IInv, TypeOK
  <2>3. PICK narrative \in {events[id], "partial", "full"} :
          IF ticks[t].neighbors
            THEN /\ events' = [events EXCEPT ![id] = narrative]
                 /\ ticks' = [ticks EXCEPT ![t].stage = "edges"]
                 /\ UNCHANGED <<inferred, processed, tries, disk, done>>
            ELSE Succeed(t, [events EXCEPT ![id] = narrative], inferred)
    BY <1>2, <2>2 DEF NarrativeAnswered
  <2>4. UNCHANGED <<up, lives, temporal, index, fastVars, queue, captures, runs>>
    BY <1>2 DEF NarrativeAnswered
  <2>5. id \in DOMAIN events /\ narrative \in Narratives
    BY <2>1, <2>2 DEF IInv, TypeOK, Narratives
  <2>6. CASE ticks[t].neighbors
    <3>1. ticks[t] \in [stage : {"idle", "backoff", "narrative", "edges"},
                        id : {None} \union Ids, neighbors : BOOLEAN]
      BY DEF IInv, TypeOK
    <3>2. ticks' = [ticks EXCEPT ![t] =
                      [stage |-> "edges", id |-> ticks[t].id, neighbors |-> TRUE]]
      BY <2>3, <2>6, <3>1
    <3> QED
      BY <2>1, <2>2, <2>3, <2>4, <2>6, <3>2, NarrativeKeeps
  <2>7. CASE ~ticks[t].neighbors
    <3> DEFINE evs == [events EXCEPT ![id] = narrative]
    <3>1. /\ DOMAIN evs = DOMAIN events
          /\ evs[id] \in Narratives
          /\ \A i \in DOMAIN events : i # id => evs[i] = events[i]
      BY <2>5
    <3>2. Succeed(t, evs, inferred)
      BY <2>3, <2>7
    <3> HIDE DEF evs
    <3> QED
      BY <2>1, <2>2, <2>4, <3>1, <3>2, FinishKeeps
  <2> QED
    BY <2>6, <2>7
<1>3. CASE EdgesAnswered(t)
  <2>1. Busy(t) /\ Working(t)
    BY <1>3 DEF EdgesAnswered, Busy, Working
  <2>2. PICK id \in Ids : ticks[t].id = id
    BY <2>1 DEF IInv, TypeOK
  <2>3. PICK found \in {{}, {id}} : Succeed(t, events, inferred \union found)
    BY <1>3, <2>2 DEF EdgesAnswered
  <2>4. UNCHANGED <<up, lives, temporal, index, fastVars, queue, captures, runs>>
    BY <1>3 DEF EdgesAnswered
  <2>5. events[id] \in Narratives
    BY <2>1, <2>2 DEF IInv, TypeOK
  <2> QED
    BY <2>1, <2>2, <2>3, <2>4, <2>5, FinishKeeps
<1>4. CASE Fail(t)
  <2>1. Busy(t)
    BY <1>4 DEF Fail, GiveBack, Busy
  <2>2. PICK id \in Ids : ticks[t].id = id
    BY <2>1 DEF IInv, TypeOK
  <2> QED
    BY <1>4, <2>2, FailKeeps
<1> QED
  BY <1>1, <1>2, <1>3, <1>4 DEF Advance

-----------------------------------------------------------------------------
(* The process                                                             *)

LEMMA CrashKeeps ==
  ASSUME IInv, Crash
  PROVE  IInv'
<1> USE BoundsAssumption, MaxRetriesAssumption
<1>1. /\ up' = FALSE /\ lives' = lives /\ lives < MaxLives
      /\ DOMAIN events' = {} /\ temporal' = {} /\ inferred' = {} /\ index' = {}
      /\ counter' = 0 /\ last' = 0 /\ queue' = <<>> /\ processed' = {}
      /\ tries' = [i \in Ids |-> 0] /\ runs' = [i \in Ids |-> 0]
      /\ disk' = disk /\ captures' = captures /\ done' = done
  BY DEF Crash, NoEvents, None
<1>2. ticks' = [t \in Ticks |-> [stage |-> "idle", id |-> 0, neighbors |-> FALSE]]
  BY DEF Crash, Idle, None
<1>3. \A t \in Ticks : /\ ticks'[t].stage = "idle" /\ ticks'[t].id = None
                       /\ ~Busy(t)' /\ ~Working(t)'
  BY <1>2 DEF Busy, Working, None
<1>4. DOMAIN queue' = {}
  BY <1>1
<1>5. Queued' = {}
  BY <1>4 DEF Queued
<1>6. \A i \in Ids : ~Pending(i)'
  BY <1>3, <1>5 DEF Pending, Ids, None
<1>7. TypeOK'
  <2>1. ticks' \in [Ticks -> [stage : {"idle", "backoff", "narrative", "edges"},
                              id : {None} \union Ids, neighbors : BOOLEAN]]
    BY <1>2 DEF None
  <2>2. queue' \in Seq(Ids)
    BY <1>1
  <2>3. tries' \in [Ids -> 0..MaxRetries - 1] /\ runs' \in [Ids -> Nat]
    BY <1>1
  <2>4. counter' \in 0..MaxEvents /\ last' \in {None} \union Ids
    BY <1>1 DEF None
  <2>5. /\ lives' \in 1..MaxLives /\ captures' \in 0..MaxEvents
        /\ done' \in [Ids -> [narrative : Narratives, edges : BOOLEAN, finished : BOOLEAN]]
    BY <1>1 DEF IInv, TypeOK
  <2>6. /\ DOMAIN disk' = {"events", "temporal", "inferred", "index", "indexSaved"}
        /\ DOMAIN disk'.events \subseteq Ids
        /\ \A i \in DOMAIN disk'.events : disk'.events[i] \in Narratives
        /\ disk'.temporal \subseteq Ids \X Ids
        /\ disk'.inferred \subseteq Ids
        /\ disk'.index \subseteq Ids
        /\ disk'.indexSaved \in BOOLEAN
    BY <1>1 DEF IInv, TypeOK
  <2>7. /\ up' \in BOOLEAN
        /\ DOMAIN events' \subseteq Ids
        /\ \A i \in DOMAIN events' : events'[i] \in Narratives
        /\ temporal' \subseteq Ids \X Ids
        /\ inferred' \subseteq Ids /\ index' \subseteq Ids /\ processed' \subseteq Ids
    BY <1>1
  <2>8. \A t \in Ticks : /\ Busy(t)' => ticks'[t].id \in DOMAIN events'
                         /\ ticks'[t].stage = "edges" => ticks'[t].neighbors
    BY <1>3
  <2> QED
    BY <2>1, <2>2, <2>3, <2>4, <2>5, <2>6, <2>7, <2>8 DEF TypeOK
<1>8. Numbered' /\ Chained'
  <2>1. NothingForgotten'
    BY <1>1 DEF IInv, Numbered, NothingForgotten
  <2>2. OneChain'
    BY <1>1 DEF IInv, Chained, OneChain
  <2> QED
    BY <1>1, <2>1, <2>2 DEF Numbered, Chained
<1>9. OneWorker' /\ Captured'
  BY <1>1, <1>3, <1>4, <1>5 DEF OneWorker, Captured
<1>10. Stopped'
  BY <1>1, <1>3 DEF Stopped
<1>11. Enriched'
  BY <1>3, <1>6 DEF Enriched
<1>12. Budget'
  <2>1. \A i \in Ids : runs'[i] = 0 /\ tries'[i] = 0
    BY <1>1
  <2> QED
    BY <1>3, <2>1 DEF Budget, RetriesBounded
<1>13. DoneIsSaved'
  BY <1>1 DEF IInv, DoneIsSaved
<1>14. Remembered'
  BY <1>1, <1>6 DEF IInv, Remembered
<1> QED
  BY <1>7, <1>8, <1>9, <1>10, <1>11, <1>12, <1>13, <1>14 DEF IInv

\* The number of events in the file is the number of the latest.
LEMMA LoadedNumbers ==
  ASSUME IInv
  PROVE  EventCount = captures /\ LatestEvent = captures
<1>1. captures \in Nat /\ DOMAIN disk.events = 1..captures
  BY BoundsAssumption DEF IInv, TypeOK, Numbered, NothingForgotten
<1>2. Cardinality(1..captures) = captures
  BY <1>1, FS_Interval
<1>3. LatestEvent = captures
  <2>1. CASE captures = 0
    BY <1>1, <2>1 DEF LatestEvent, None
  <2>2. CASE captures # 0
    <3>1. captures \in 1..captures /\ \A j \in 1..captures : j =< captures
      BY <1>1, <2>2
    <3>2. ASSUME NEW i \in 1..captures, \A j \in 1..captures : j =< i PROVE i = captures
      <4>1. captures =< i /\ i =< captures /\ i \in Int
        BY <3>1, <3>2
      <4> QED
        BY <1>1, <4>1
    <3> QED
      BY <1>1, <3>1, <3>2 DEF LatestEvent
  <2> QED
    BY <2>1, <2>2
<1> QED
  BY <1>1, <1>2, <1>3 DEF EventCount

LEMMA RestartKeeps ==
  ASSUME IInv, Restart
  PROVE  IInv'
<1> USE BoundsAssumption, MaxRetriesAssumption
<1>1. /\ ~up /\ up' /\ lives' = lives + 1
      /\ events' = disk.events /\ temporal' = disk.temporal /\ inferred' = disk.inferred
      /\ index' = IF disk.indexSaved THEN disk.index ELSE DOMAIN disk.events
      /\ counter' = captures /\ last' = captures
      /\ queue' = queue /\ processed' = processed /\ tries' = tries /\ ticks' = ticks
      /\ disk' = disk /\ captures' = captures /\ runs' = runs /\ done' = done
  BY LoadedNumbers DEF Restart, Load, slowVars, historyVars
<1>2. /\ queue = <<>> /\ processed = {} /\ lives < MaxLives
      /\ \A t \in Ticks : ~Busy(t)
  BY <1>1 DEF IInv, Stopped
<1>3. \A t \in Ticks : ticks'[t].id = None /\ ~Busy(t)' /\ ~Working(t)'
  BY <1>1, <1>2 DEF IInv, Captured, Busy, Working
<1>4. DOMAIN queue' = {} /\ Queued' = {}
  <2>1. DOMAIN queue' = {}
    BY <1>1, <1>2
  <2> QED
    BY <2>1 DEF Queued
<1>5. \A i \in Ids : ~Pending(i)'
  BY <1>3, <1>4 DEF Pending, Ids, None
<1>6. captures \in Nat /\ DOMAIN disk.events = 1..captures
  BY DEF IInv, TypeOK, Numbered, NothingForgotten
<1>7. TypeOK'
  <2>1. lives' \in 1..MaxLives
    BY <1>1, <1>2 DEF IInv, TypeOK
  <2>2. counter' \in 0..MaxEvents /\ last' \in {None} \union Ids
    <3>1. captures \in 0..MaxEvents
      BY DEF IInv, TypeOK
    <3> QED
      BY <1>1, <3>1 DEF None, Ids
  <2>3. index' \subseteq Ids
    BY <1>1 DEF IInv, TypeOK
  <2>4. \A t \in Ticks : Busy(t)' => ticks'[t].id \in DOMAIN events'
    BY <1>3
  <2>5. /\ DOMAIN events' \subseteq Ids
        /\ \A i \in DOMAIN events' : events'[i] \in Narratives
        /\ temporal' \subseteq Ids \X Ids
        /\ inferred' \subseteq Ids
        /\ up' \in BOOLEAN
    BY <1>1 DEF IInv, TypeOK
  <2>6. /\ queue' \in Seq(Ids) /\ processed' \subseteq Ids
        /\ tries' \in [Ids -> 0..MaxRetries - 1]
        /\ ticks' \in [Ticks -> [stage : {"idle", "backoff", "narrative", "edges"},
                                 id : {None} \union Ids, neighbors : BOOLEAN]]
        /\ \A t \in Ticks : ticks'[t].stage = "edges" => ticks'[t].neighbors
    BY <1>1 DEF IInv, TypeOK
  <2>7. /\ captures' \in 0..MaxEvents
        /\ runs' \in [Ids -> Nat]
        /\ done' \in [Ids -> [narrative : Narratives, edges : BOOLEAN, finished : BOOLEAN]]
    BY <1>1 DEF IInv, TypeOK
  <2>8. /\ DOMAIN disk' = {"events", "temporal", "inferred", "index", "indexSaved"}
        /\ DOMAIN disk'.events \subseteq Ids
        /\ \A i \in DOMAIN disk'.events : disk'.events[i] \in Narratives
        /\ disk'.temporal \subseteq Ids \X Ids
        /\ disk'.inferred \subseteq Ids
        /\ disk'.index \subseteq Ids
        /\ disk'.indexSaved \in BOOLEAN
    BY <1>1 DEF IInv, TypeOK
  <2> QED
    BY <2>1, <2>2, <2>3, <2>4, <2>5, <2>6, <2>7, <2>8 DEF TypeOK
<1>8. Numbered' /\ Chained'
  <2>1. NothingForgotten'
    BY <1>1 DEF IInv, Numbered, NothingForgotten
  <2>2. DOMAIN events' = 1..captures' /\ counter' = captures' /\ last' = captures'
    BY <1>1, <1>6
  <2>3. OneChain'
    BY <1>1 DEF IInv, Chained, OneChain
  <2>4. temporal' = disk'.temporal
    BY <1>1
  <2> QED
    BY <2>1, <2>2, <2>3, <2>4 DEF Numbered, Chained
<1>9. OneWorker' /\ Captured'
  BY <1>1, <1>2, <1>3, <1>4 DEF OneWorker, Captured
<1>10. Stopped'
  BY <1>1 DEF Stopped
<1>11. Enriched'
  BY <1>3, <1>5 DEF Enriched, Busy
<1>12. Budget'
  <2>1. \A i \in Ids : runs[i] = tries[i]
    BY <1>2 DEF IInv, Budget, Working, Busy
  <2>2. RetriesBounded'
    BY <1>1 DEF IInv, Budget, RetriesBounded
  <2> QED
    BY <1>1, <1>3, <2>1, <2>2 DEF Budget
<1>13. DoneIsSaved'
  BY <1>1 DEF IInv, DoneIsSaved
<1>14. Remembered'
  <2>1. ASSUME NEW i \in Ids, done[i].finished
        PROVE  /\ i \in 1..captures /\ disk.indexSaved
               /\ disk.events[i] = done[i].narrative
               /\ (done[i].edges <=> i \in disk.inferred)
               /\ i \in disk.index
    BY <2>1 DEF IInv, Remembered, DoneIsSaved
  <2> QED
    BY <1>1, <1>5, <2>1 DEF Remembered
<1> QED
  BY <1>7, <1>8, <1>9, <1>10, <1>11, <1>12, <1>13, <1>14 DEF IInv

LEMMA StutterKeeps ==
  ASSUME IInv, UNCHANGED vars
  PROVE  IInv'
<1>1. /\ up' = up /\ lives' = lives /\ events' = events /\ temporal' = temporal
      /\ inferred' = inferred /\ index' = index /\ counter' = counter /\ last' = last
      /\ queue' = queue /\ processed' = processed /\ tries' = tries /\ ticks' = ticks
      /\ disk' = disk /\ captures' = captures /\ runs' = runs /\ done' = done
  BY DEF vars, graphVars, fastVars, slowVars, historyVars
<1>2. TypeOK'
  BY <1>1 DEF IInv, TypeOK, Busy
<1>3. Numbered' /\ Chained'
  <2>1. NothingForgotten'
    BY <1>1 DEF IInv, Numbered, NothingForgotten
  <2>2. OneChain'
    BY <1>1 DEF IInv, Chained, OneChain
  <2> QED
    BY <1>1, <2>1, <2>2 DEF IInv, Numbered, Chained
<1>4. OneWorker' /\ Captured' /\ Stopped'
  BY <1>1 DEF IInv, OneWorker, Captured, Stopped, Queued, Busy
<1>5. Enriched'
  BY <1>1 DEF IInv, Enriched, Pending, Queued, Neighbors
<1>6. Budget'
  BY <1>1 DEF IInv, Budget, RetriesBounded, Working
<1>7. DoneIsSaved'
  BY <1>1 DEF IInv, DoneIsSaved
<1>8. Remembered'
  BY <1>1 DEF IInv, Remembered, Pending, Queued
<1> QED
  BY <1>2, <1>3, <1>4, <1>5, <1>6, <1>7, <1>8 DEF IInv

-----------------------------------------------------------------------------
(* Theorems                                                                *)

LEMMA StepKeeps ==
  ASSUME IInv, [Next]_vars
  PROVE  IInv'
<1>1. CASE CaptureMessage \/ CaptureWorldview
  BY <1>1, CaptureKeeps
<1>2. CASE \E t \in Ticks : StartTick(t) \/ Advance(t)
  BY <1>2, StartTickKeeps, AdvanceKeeps
<1>3. CASE Crash
  BY <1>3, CrashKeeps
<1>4. CASE Restart
  BY <1>4, RestartKeeps
<1>5. CASE UNCHANGED vars
  BY <1>5, StutterKeeps
<1> QED
  BY <1>1, <1>2, <1>3, <1>4, <1>5 DEF Next

\* Every reachable state satisfies the inductive invariant.
LEMMA Invariance == Spec => []IInv
<1>1. IInv /\ [Next]_vars => IInv'
  BY StepKeeps
<1> QED
  BY InitIInv, <1>1, PTL DEF Spec

\* The variables of the memory keep their types: in particular no retry count
\* reaches maxRetries, and every event with a tick is in the graph.
THEOREM TypeCorrect == Spec => []TypeOK
<1>1. IInv => TypeOK
  BY DEF IInv
<1> QED
  BY Invariance, <1>1, PTL

\* Every message ever captured has its own event in the file, across any
\* number of crashes (FastPath numbers from the number of events loaded).
THEOREM NumbersKept == Spec => []NothingForgotten
<1>1. IInv => NothingForgotten
  BY DEF IInv, Numbered
<1> QED
  BY Invariance, <1>1, PTL

\* The temporal edges in the file are one chain through all events, across
\* any number of crashes (FastPath takes up the latest event loaded).
THEOREM ChainKept == Spec => []OneChain
<1>1. IInv => OneChain
  BY DEF IInv, Chained
<1> QED
  BY Invariance, <1>1, PTL

\* What was known of an event when it was finished is in the files from then
\* on (saveAll writes everything in memory, and memory forgets nothing).
THEOREM WorkKept == Spec => []DoneIsSaved
<1>1. IInv => DoneIsSaved
  BY DEF IInv
<1> QED
  BY Invariance, <1>1, PTL

\* However many ticks overlap, an event is in one place at a time: in the
\* queue, with one tick, or processed.
THEOREM OneAtATime == Spec => []OneWorker
<1>1. IInv => OneWorker
  BY DEF IInv
<1> QED
  BY Invariance, <1>1, PTL

\* No event is tried more often than maxRetries in one life of the process.
THEOREM TriesBounded == Spec => []RetriesBounded
<1>1. IInv => RetriesBounded
  BY DEF IInv, Budget
<1> QED
  BY Invariance, <1>1, PTL

-----------------------------------------------------------------------------
(* Memory implements EventLog                                              *)

\* A running process knows at least what is in the files, all of the edges
\* among it, and asks for no narrative that is complete.
Ahead ==
  up => /\ inferred = disk.inferred
        /\ \A i \in DOMAIN disk.events : events[i] \in Log!Growth(disk.events[i])

Unasked == \A t \in Ticks : ticks[t].stage = "narrative" => events[ticks[t].id] # "full"

LogInv == IInv /\ Ahead /\ Unasked

LEMMA Grown ==
  /\ \A n : n \in Log!Growth(n)
  /\ \A n : n # "full" => {n, "partial", "full"} \subseteq Log!Growth(n) \/ n \notin Narratives
  /\ \A n, m, k : m \in Log!Growth(n) /\ k \in Log!Growth(m) => k \in Log!Growth(n)
<1>1. \A n : Log!Growth(n) = IF n = "none" THEN {"none", "partial", "full"}
                             ELSE IF n = "partial" THEN {"partial", "full"} ELSE {n}
  BY DEF Log!Growth
<1> QED
  BY <1>1 DEF Narratives

LEMMA InitLog == Init => Ahead /\ Unasked /\ Log!Init
<1> SUFFICES ASSUME Init PROVE Ahead /\ Unasked /\ Log!Init
  OBVIOUS
<1>1. /\ captures = 0 /\ disk.events = NoEvents /\ disk.temporal = {} /\ disk.inferred = {}
      /\ inferred = {} /\ \A i \in Ids : ~done[i].finished
  BY DEF Init, Unfinished
<1>2. DOMAIN disk.events = {} /\ \A t \in Ticks : ticks[t].stage = "idle"
  BY <1>1 DEF Init, NoEvents, Idle
<1> QED
  BY <1>1, <1>2 DEF Ahead, Unasked, Log!Init, NoEvents

\* A captured event is the next of the log, linked to the latest.
LEMMA CaptureLogs ==
  ASSUME LogInv, CaptureMessage \/ CaptureWorldview
  PROVE  Ahead' /\ Unasked' /\ Log!Capture
<1> DEFINE id == captures + 1
<1>1. /\ Process
      /\ up
      /\ captures \in Nat
      /\ counter = captures /\ last = captures
      /\ DOMAIN events = 1..captures
      /\ DOMAIN disk.events = 1..captures
      /\ DOMAIN disk = {"events", "temporal", "inferred", "index", "indexSaved"}
  BY DEF LogInv, IInv, TypeOK, Numbered, NothingForgotten,
         CaptureMessage, CaptureWorldview, Process
<1>2. inferred' = inferred /\ ticks' = ticks /\ done' = done /\ captures' = id
  BY <1>1 DEF Process
<1>3. id \notin 1..captures
  BY <1>1
<1>4. (IF last \in {None, counter + 1} THEN {} ELSE {<<last, counter + 1>>})
        = IF captures = 0 THEN {} ELSE {<<captures, id>>}
  BY <1>1 DEF None
<1>5. /\ disk'.inferred = disk.inferred
      /\ disk'.events = With(disk.events, id, "none")
      /\ disk'.temporal = disk.temporal \union (IF captures = 0 THEN {} ELSE {<<captures, id>>})
      /\ events' = With(events, id, "none")
  BY <1>1, <1>4 DEF Process
<1>6. \A i \in 1..captures : events'[i] = events[i] /\ disk'.events[i] = disk.events[i]
  BY <1>1, <1>3, <1>5 DEF With
<1>7. /\ DOMAIN disk'.events = 1..captures \union {id}
      /\ events'[id] = "none" /\ disk'.events[id] = "none"
  BY <1>1, <1>5 DEF With
<1>8. Ahead'
  BY <1>1, <1>2, <1>5, <1>6, <1>7, Grown DEF LogInv, Ahead
<1>9. Unasked'
  <2>1. \A t \in Ticks : ticks[t].stage = "narrative" => ticks[t].id \in 1..captures
    BY DEF LogInv, IInv, Captured, Busy
  <2> QED
    BY <1>2, <1>6, <2>1 DEF LogInv, Unasked
<1>10. Log!Capture
  BY <1>1, <1>2, <1>5 DEF Log!Capture, With
<1> QED
  BY <1>8, <1>9, <1>10

\* The save of a finished event writes what is known of all others too.
LEMMA FinishLogs ==
  ASSUME LogInv, NEW t \in Ticks, NEW id \in Ids,
         Working(t), ticks[t].id = id,
         NEW evs, NEW inf,
         DOMAIN evs = DOMAIN events,
         evs[id] \in Log!Growth(events[id]),
         \A i \in DOMAIN events : i # id => evs[i] = events[i],
         inf \in {inferred, inferred \union {id}},
         Succeed(t, evs, inf),
         UNCHANGED <<up, temporal, captures>>
  PROVE  Ahead' /\ Unasked' /\ Log!Next
<1>1. /\ events' = evs /\ inferred' = inf
      /\ ticks' = [ticks EXCEPT ![t] = Idle]
      /\ disk' = [events |-> evs, temporal |-> temporal, inferred |-> inf,
                  index |-> index, indexSaved |-> TRUE]
      /\ done' = [done EXCEPT ![id] = [narrative |-> evs[id], edges |-> id \in inf,
                                       finished |-> TRUE]]
  BY DEF Succeed, Finish, SaveAll
<1>2. /\ ticks \in [Ticks -> [stage : {"idle", "backoff", "narrative", "edges"},
                              id : {None} \union Ids, neighbors : BOOLEAN]]
      /\ done \in [Ids -> [narrative : Narratives, edges : BOOLEAN, finished : BOOLEAN]]
  BY DEF LogInv, IInv, TypeOK
<1>3. Busy(t) /\ Pending(id)
  BY DEF Working, Busy, Pending
<1>4. id \in 1..captures /\ \A u \in Ticks : u # t => ticks[u].id # id
  BY <1>3 DEF LogInv, IInv, Captured, OneWorker, TypeOK, Ids, None
<1>5. up /\ id \in DOMAIN events
  BY <1>3, <1>4, PendingFacts DEF LogInv
<1>6. /\ DOMAIN events = 1..captures /\ DOMAIN disk.events = 1..captures
      /\ temporal = disk.temporal /\ inferred = disk.inferred
  BY <1>5 DEF LogInv, IInv, Numbered, NothingForgotten, Chained, Ahead
<1>7. disk'.events = evs /\ disk'.temporal = temporal /\ disk'.inferred = inf
  BY <1>1
<1>8. Ahead'
  BY <1>1, <1>7, Grown DEF Ahead
<1>9. Unasked'
  <2> SUFFICES ASSUME NEW u \in Ticks, ticks'[u].stage = "narrative" PROVE events'[ticks'[u].id] # "full"
    BY DEF Unasked
  <2>1. u # t /\ ticks'[u] = ticks[u]
    BY <1>1, <1>2 DEF Idle
  <2>2. ticks[u].id # id /\ ticks[u].id \in DOMAIN events
    BY <1>4, <2>1 DEF LogInv, IInv, TypeOK, Busy
  <2> QED
    BY <1>1, <2>1, <2>2 DEF LogInv, Unasked
<1>10. Log!Finish(id)
  <2>1. ~done[id].finished
    BY <1>3 DEF LogInv, IInv, Remembered
  <2>2. {i \in Ids : done'[i].finished} = {i \in Ids : done[i].finished} \union {id}
    BY <1>1, <1>2
  <2>3. ASSUME NEW j \in DOMAIN disk.events
        PROVE  disk'.events[j] \in IF j \in {i \in Ids : done[i].finished}
                                     THEN {disk.events[j]} ELSE Log!Growth(disk.events[j])
    <3>1. CASE j \in Ids /\ done[j].finished
      <4>1. j # id
        BY <2>1, <3>1
      <4>2. events[j] = disk.events[j]
        BY <1>5, <3>1 DEF LogInv, IInv, Remembered, DoneIsSaved
      <4> QED
        BY <1>6, <1>7, <3>1, <4>1, <4>2
    <3>2. CASE j \notin {i \in Ids : done[i].finished}
      <4>1. events[j] \in Log!Growth(disk.events[j])
        BY <1>5 DEF LogInv, Ahead
      <4>2. evs[j] \in Log!Growth(events[j])
        BY <1>6, Grown
      <4> QED
        BY <1>7, <3>2, <4>1, <4>2, Grown
    <3> QED
      BY <3>1, <3>2
  <2>4. disk'.inferred \in {disk.inferred, disk.inferred \union {id}}
    BY <1>6, <1>7
  <2> QED
    BY <1>4, <1>6, <1>7, <2>1, <2>2, <2>3, <2>4 DEF Log!Finish
<1> QED
  BY <1>4, <1>6, <1>8, <1>9, <1>10 DEF Log!Next

LEMMA QuietLog ==
  ASSUME UNCHANGED <<captures, disk, done>>
  PROVE  UNCHANGED Log!logVars
  BY DEF Log!logVars

\* A tick begins, goes on, succeeds or fails: only a success writes.
LEMMA TickLogs ==
  ASSUME LogInv, NEW t \in Ticks, StartTick(t) \/ Advance(t)
  PROVE  Ahead' /\ Unasked' /\ (Log!Next \/ UNCHANGED Log!logVars)
<1>0. ticks \in [Ticks -> [stage : {"idle", "backoff", "narrative", "edges"},
                           id : {None} \union Ids, neighbors : BOOLEAN]]
  BY DEF LogInv, IInv, TypeOK
<1>1. CASE StartTick(t) \/ EndBackoff(t)
  <2>1. PICK id : Begin(t, id) \/ ticks' = [ticks EXCEPT ![t] =
                                    [stage |-> "backoff", id |-> id, neighbors |-> FALSE]]
    BY <1>1 DEF StartTick, Take, EndBackoff
  <2>2. UNCHANGED <<up, events, inferred, disk, captures, done>>
    BY <1>1 DEF StartTick, Take, EndBackoff, graphVars
  <2>3. \A u \in Ticks : ticks'[u] = ticks[u] \/ (ticks'[u].stage = "narrative" => events[ticks'[u].id] # "full")
    BY <1>0, <2>1 DEF Begin
  <2> QED
    BY <2>2, <2>3, QuietLog DEF LogInv, Ahead, Unasked
<1>2. CASE NarrativeAnswered(t)
  <2>1. ticks[t].stage = "narrative" /\ Busy(t) /\ Working(t)
    BY <1>2 DEF NarrativeAnswered, Busy, Working
  <2>2. PICK id \in Ids : ticks[t].id = id
    BY <2>1 DEF LogInv, IInv, TypeOK
  <2>3. PICK narrative \in {events[id], "partial", "full"} :
          IF ticks[t].neighbors
            THEN /\ events' = [events EXCEPT ![id] = narrative]
                 /\ ticks' = [ticks EXCEPT ![t].stage = "edges"]
                 /\ UNCHANGED <<inferred, processed, tries, disk, done>>
            ELSE Succeed(t, [events EXCEPT ![id] = narrative], inferred)
    BY <1>2, <2>2 DEF NarrativeAnswered
  <2>4. UNCHANGED <<up, temporal, captures>>
    BY <1>2 DEF NarrativeAnswered
  <2>5. id \in DOMAIN events /\ events[id] \in Narratives /\ narrative \in Log!Growth(events[id])
    <3>1. id \in DOMAIN events /\ events[id] \in Narratives /\ events[id] # "full"
      BY <2>1, <2>2 DEF LogInv, IInv, TypeOK, Unasked
    <3> QED
      BY <3>1, <2>3, Grown
  <2>6. CASE ticks[t].neighbors
    <3>1. /\ DOMAIN events' = DOMAIN events
          /\ \A i \in DOMAIN events : events'[i] \in Log!Growth(events[i])
          /\ \A i \in DOMAIN events : i # id => events'[i] = events[i]
      BY <2>3, <2>5, <2>6, Grown
    <3>2. UNCHANGED <<up, inferred, disk, done, captures>>
      BY <2>3, <2>4, <2>6
    <3>3. DOMAIN disk.events = 1..captures /\ (up => DOMAIN events = 1..captures)
      BY DEF LogInv, IInv, Numbered, NothingForgotten
    <3>4. Ahead'
      BY <3>1, <3>2, <3>3, Grown DEF LogInv, Ahead
    <3>5. Unasked'
      <4> SUFFICES ASSUME NEW u \in Ticks, ticks'[u].stage = "narrative" PROVE events'[ticks'[u].id] # "full"
        BY DEF Unasked
      <4>1. u # t /\ ticks'[u] = ticks[u]
        BY <1>0, <2>3, <2>6
      <4>2. Busy(u) /\ Busy(t)
        BY <2>1, <4>1 DEF Busy
      <4>3. ticks[u].id # id /\ ticks[u].id \in DOMAIN events
        BY <2>2, <4>1, <4>2 DEF LogInv, IInv, TypeOK, OneWorker
      <4> QED
        BY <3>1, <4>1, <4>3 DEF LogInv, Unasked
    <3> QED
      BY <3>2, <3>4, <3>5, QuietLog
  <2>7. CASE ~ticks[t].neighbors
    <3> DEFINE evs == [events EXCEPT ![id] = narrative]
    <3>1. /\ DOMAIN evs = DOMAIN events
          /\ evs[id] \in Log!Growth(events[id])
          /\ \A i \in DOMAIN events : i # id => evs[i] = events[i]
      BY <2>5
    <3>2. Succeed(t, evs, inferred)
      BY <2>3, <2>7
    <3> HIDE DEF evs
    <3> QED
      BY <2>1, <2>2, <2>4, <3>1, <3>2, FinishLogs
  <2> QED
    BY <2>6, <2>7
<1>3. CASE EdgesAnswered(t)
  <2>1. Busy(t) /\ Working(t)
    BY <1>3 DEF EdgesAnswered, Busy, Working
  <2>2. PICK id \in Ids : ticks[t].id = id
    BY <2>1 DEF LogInv, IInv, TypeOK
  <2>3. PICK found \in {{}, {id}} : Succeed(t, events, inferred \union found)
    BY <1>3, <2>2 DEF EdgesAnswered
  <2>4. UNCHANGED <<up, temporal, captures>>
    BY <1>3 DEF EdgesAnswered
  <2>5. inferred \union found \in {inferred, inferred \union {id}} /\ events[id] \in Log!Growth(events[id])
    BY <2>3, Grown
  <2> QED
    BY <2>1, <2>2, <2>3, <2>4, <2>5, FinishLogs
<1>4. CASE Fail(t)
  <2>1. UNCHANGED <<up, events, inferred, disk, captures, done>> /\ ticks' = [ticks EXCEPT ![t] = Idle]
    BY <1>4 DEF Fail, GiveBack, graphVars, historyVars
  <2>2. \A u \in Ticks : ticks'[u].stage = "narrative" => ticks'[u] = ticks[u]
    BY <1>0, <2>1 DEF Idle
  <2> QED
    BY <2>1, <2>2, QuietLog DEF LogInv, Ahead, Unasked
<1> QED
  BY <1>1, <1>2, <1>3, <1>4 DEF Advance

LEMMA ProcessLogs ==
  ASSUME LogInv, Crash \/ Restart \/ UNCHANGED vars
  PROVE  Ahead' /\ Unasked' /\ UNCHANGED Log!logVars
<1>1. UNCHANGED <<captures, disk, done>>
  BY DEF Crash, Restart, Load, vars, historyVars
<1>2. CASE Crash
  BY <1>1, <1>2, QuietLog DEF Crash, Idle, Ahead, Unasked
<1>3. CASE Restart
  <2>1. events' = disk.events /\ inferred' = disk.inferred /\ ticks' = ticks /\ ~up
    BY <1>3 DEF Restart, Load, slowVars
  <2>2. \A t \in Ticks : ticks[t].stage # "narrative"
    BY <2>1 DEF LogInv, IInv, Stopped, Busy
  <2> QED
    BY <1>1, <2>1, <2>2, Grown, QuietLog DEF Ahead, Unasked
<1>4. CASE UNCHANGED vars
  BY <1>1, <1>4, QuietLog DEF vars, graphVars, slowVars, LogInv, Ahead, Unasked
<1> QED
  BY <1>2, <1>3, <1>4

\* The directory is a log that only grows, for any number of events, ticks,
\* retries and kills: kills and restarts cannot be seen in it.
THEOREM LogKept == Spec => KeepsLog
<1>1. Init => LogInv
  BY InitIInv, InitLog DEF LogInv
<1>2. ASSUME LogInv, [Next]_vars PROVE Ahead' /\ Unasked' /\ [Log!Next]_(Log!logVars)
  <2>1. CASE CaptureMessage \/ CaptureWorldview
    BY <1>2, <2>1, CaptureLogs DEF Log!Next
  <2>2. CASE \E t \in Ticks : StartTick(t) \/ Advance(t)
    BY <1>2, <2>2, TickLogs
  <2>3. CASE Crash \/ Restart \/ UNCHANGED vars
    BY <1>2, <2>3, ProcessLogs
  <2> QED
    BY <1>2, <2>1, <2>2, <2>3 DEF Next
<1>3. ASSUME LogInv, [Next]_vars PROVE IInv'
  BY <1>3, StepKeeps DEF LogInv
<1>4. LogInv /\ [Next]_vars => LogInv' /\ [Log!Next]_(Log!logVars)
  BY <1>2, <1>3 DEF LogInv
<1> QED
  BY <1>1, <1>4, InitLog, PTL DEF Spec, KeepsLog, Log!Spec
=============================================================================
