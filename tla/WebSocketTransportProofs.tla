----------------------- MODULE WebSocketTransportProofs -----------------------
(***************************************************************************)
(* Type correctness, one reconnection at a time and no gap but by overflow,*)
(* for buffers of any size, any number of messages and any number of       *)
(* failures.                                                               *)
(*                                                                         *)
(* The first part, LinkInv, is about the connection alone: which sockets   *)
(* go with which states, and that every attempt is paid for by a failure.  *)
(* The second, DataInv, is about the messages: all that is buffered is on  *)
(* the way or has arrived while a connection is up, and what is on the way *)
(* misses nothing that is buffered and was written before it.  The last,   *)
(* OnceInv, is about messages without a uuid; with it the transport        *)
(* implements MessageChannel.                                              *)
(***************************************************************************)
EXTENDS WebSocketTransport, TLAPS

LinkType ==
  /\ state \in {"idle", "reconnecting", "connected", "closing", "closed"}
  /\ socket \in {"none", "opening", "open", "dead"}
  /\ timers \in Nat
  /\ conn \in Nat
  /\ failures \in 0..MaxFailures

\* Which sockets go with which states.
Matching ==
  /\ socket = "opening" => state = "reconnecting"
  /\ socket \in {"open", "dead"} <=> state = "connected"
  /\ state = "idle" => socket = "none" /\ conn = 0
  /\ socket # "none" => conn > 0

\* Every attempt but the first follows a failure of its own.
Owed == (IF state = "idle" THEN 1 ELSE 0) + (IF socket = "dead" THEN 1 ELSE 0)
Paid == conn + timers + Owed <= failures + 1

LinkInv == LinkType /\ OneAttempt /\ Matching /\ Paid

LEMMA LinkInit == Init => LinkInv
  BY BoundsAssumption DEF Init, LinkInv, LinkType, OneAttempt, Matching, Paid, Owed

LEMMA LinkNext == LinkInv /\ [Next]_vars => LinkInv'
<1> SUFFICES ASSUME LinkInv, [Next]_vars PROVE LinkInv'
  OBVIOUS
<1> USE BoundsAssumption DEF LinkInv, LinkType, OneAttempt, Matching, Paid, Owed
<1>1. CASE FirstConnect
  BY <1>1 DEF FirstConnect, Connect
<1>2. CASE ReconnectTimer
  BY <1>2 DEF ReconnectTimer, Connect
<1>3. CASE Open
  BY <1>3 DEF Open
<1>4. CASE OpenAndFail
  BY <1>4 DEF OpenAndFail, Fail, Rearmed
<1>5. ASSUME NEW hasUuid \in BOOLEAN, Write(hasUuid) PROVE LinkInv'
  <2>1. CASE UNCHANGED <<linkVars, failures>>
    BY <1>5, <2>1 DEF Write, linkVars
  <2>2. CASE state = "connected" /\ Fail /\ HandleConnectionError
    BY <1>5, <2>2 DEF Write, Fail, HandleConnectionError, Rearmed
  <2> QED
    BY <1>5, <2>1, <2>2 DEF Write
<1>6. CASE Die
  BY <1>6 DEF Die, Fail
<1>7. CASE CloseEvent
  BY <1>7 DEF CloseEvent, Fail, HandleConnectionError, Rearmed
<1>8. CASE PermanentClose
  BY <1>8 DEF PermanentClose, Fail
<1>9. CASE Ping \/ Pong
  BY <1>9 DEF Ping, Pong
<1>10. CASE PingTimeout
  BY <1>10 DEF PingTimeout, Fail, HandleConnectionError, Rearmed
<1>11. CASE Close
  BY <1>11 DEF Close
<1>12. ASSUME NEW c \in Connections, Deliver(c) \/ Lose(c) PROVE LinkInv'
  BY <1>12 DEF Deliver, Lose, linkVars
<1>13. CASE UNCHANGED vars
  BY <1>13 DEF vars, linkVars, writerVars
<1> QED
  BY <1>1, <1>2, <1>3, <1>4, <1>5, <1>6, <1>7, <1>8, <1>9, <1>10, <1>11, <1>12, <1>13 DEF Next

\* While the transport is reconnecting one attempt is under way, never two, and
\* no timer runs in another state: for any number of failures, the double
\* handling of one in the replay included.
THEOREM OneReconnection == Spec => []OneAttempt
<1>1. LinkInv => OneAttempt
  BY DEF LinkInv
<1> QED
  BY LinkInit, LinkNext, <1>1, PTL DEF Spec

-----------------------------------------------------------------------------

Msgs(s) == {s[i] : i \in DOMAIN s}

Increasing(s) == \A i, j \in DOMAIN s : i < j => s[i] < s[j]

\* All that is buffered and was written before a message on the wire has
\* arrived, or goes before it on the same wire.
Ordered(w, b, g) ==
  \A k \in DOMAIN w : \A i \in Msgs(b) :
    i < w[k] => i \in g \/ \E l \in DOMAIN w : l < k /\ w[l] = i

DataType ==
  /\ buffer \in Seq(Messages)
  /\ Len(buffer) <= Capacity
  /\ written \in 0..MaxMessages
  /\ wires \in [Connections -> Seq(Messages)]
  /\ got \subseteq Messages
  /\ twice \subseteq Messages
  /\ lasting \subseteq Messages

Past ==
  /\ Increasing(buffer)
  /\ \A i \in Msgs(buffer) : i <= written
  /\ \A c \in Connections : \A k \in DOMAIN wires[c] : wires[c][k] <= written
  /\ \A i \in got : i <= written

\* While a connection is up, what is buffered has arrived or is on its wire.
OnTheWay ==
  socket = "open" => \A i \in Msgs(buffer) : i \in got \union Msgs(wires[conn])

Orderly == \A c \in Connections : Ordered(wires[c], buffer, got)

DataInv == DataType /\ Past /\ OnTheWay /\ Orderly /\ GapsOnlyByOverflow

LEMMA MessagesAreNumbers == Messages \subseteq Nat
  BY BoundsAssumption DEF Messages

\* A number above all others, appended to an increasing sequence.
LEMMA AppendAbove ==
  ASSUME NEW s \in Seq(Messages), NEW n \in Messages,
         Increasing(s), \A i \in Msgs(s) : i < n
  PROVE  /\ Append(s, n) \in Seq(Messages)
         /\ Increasing(Append(s, n))
         /\ Msgs(Append(s, n)) = Msgs(s) \union {n}
<1> DEFINE b == Append(s, n)
           m == Len(s)
<1>1. m \in Nat /\ DOMAIN s = 1..m
  OBVIOUS
<1>2. b \in Seq(Messages) /\ Len(b) = m + 1 /\ DOMAIN b = 1..(m + 1)
  OBVIOUS
<1>3. b[m + 1] = n /\ \A i \in 1..m : b[i] = s[i]
  OBVIOUS
<1>4. \A i \in 1..m : s[i] < n
  BY <1>1 DEF Msgs
<1> HIDE DEF b, m
<1>5. Increasing(b)
  <2> SUFFICES ASSUME NEW i \in 1..(m + 1), NEW j \in 1..(m + 1), i < j PROVE b[i] < b[j]
    BY <1>2 DEF Increasing
  <2>1. CASE j = m + 1
    <3>1. i \in 1..m
      BY <2>1, <1>1
    <3> QED
      BY <3>1, <2>1, <1>3, <1>4
  <2>2. CASE j # m + 1
    <3>1. i \in 1..m /\ j \in 1..m
      BY <2>2, <1>1
    <3>2. s[i] < s[j]
      BY <3>1, <1>1 DEF Increasing
    <3> QED
      BY <3>1, <3>2, <1>3
  <2> QED
    BY <2>1, <2>2
<1>6. Msgs(b) = Msgs(s) \union {n}
  <2>1. ASSUME NEW i \in 1..(m + 1) PROVE b[i] \in Msgs(s) \union {n}
    <3>1. CASE i = m + 1
      BY <3>1, <1>3
    <3>2. CASE i # m + 1
      <4>1. i \in 1..m
        BY <3>2, <1>1
      <4> QED
        BY <4>1, <1>3, <1>1 DEF Msgs
    <3> QED
      BY <3>1, <3>2
  <2>2. ASSUME NEW i \in 1..m PROVE s[i] \in Msgs(b)
    <3>1. i \in 1..(m + 1)
      BY <1>1
    <3> QED
      BY <3>1, <1>2, <1>3 DEF Msgs
  <2>3. n \in Msgs(b)
    <3>1. m + 1 \in DOMAIN b
      BY <1>1, <1>2
    <3> QED
      BY <3>1, <1>3 DEF Msgs
  <2> QED
    BY <2>1, <2>2, <2>3, <1>1, <1>2 DEF Msgs
<1> QED
  BY <1>2, <1>5, <1>6 DEF b

LEMMA TailKeeps ==
  ASSUME NEW s \in Seq(Messages), s # << >>
  PROVE  /\ Tail(s) \in Seq(Messages)
         /\ Len(Tail(s)) = Len(s) - 1
         /\ Increasing(s) => Increasing(Tail(s))
         /\ Msgs(s) = Msgs(Tail(s)) \union {Head(s)}
<1> DEFINE b == Tail(s)
           m == Len(s)
<1>1. m \in Nat \ {0} /\ DOMAIN s = 1..m /\ Head(s) = s[1]
  OBVIOUS
<1>2. b \in Seq(Messages) /\ Len(b) = m - 1 /\ DOMAIN b = 1..(m - 1)
  OBVIOUS
<1>3. \A i \in 1..(m - 1) : b[i] = s[i + 1]
  OBVIOUS
<1> HIDE DEF b, m
<1>4. ASSUME Increasing(s) PROVE Increasing(b)
  <2> SUFFICES ASSUME NEW i \in 1..(m - 1), NEW j \in 1..(m - 1), i < j PROVE b[i] < b[j]
    BY <1>2 DEF Increasing
  <2>1. i + 1 \in 1..m /\ j + 1 \in 1..m /\ i + 1 < j + 1
    BY <1>1
  <2>2. s[i + 1] < s[j + 1]
    BY <2>1, <1>1, <1>4 DEF Increasing
  <2> QED
    BY <2>2, <1>3
<1>5. Msgs(s) = Msgs(b) \union {s[1]}
  <2>1. ASSUME NEW i \in 1..m PROVE s[i] \in Msgs(b) \union {s[1]}
    <3>1. CASE i # 1
      <4>1. i - 1 \in 1..(m - 1) /\ (i - 1) + 1 = i
        BY <3>1, <1>1
      <4>2. b[i - 1] = s[i]
        BY <4>1, <1>3
      <4> QED
        BY <4>1, <4>2, <1>2 DEF Msgs
    <3> QED
      BY <3>1
  <2>2. ASSUME NEW i \in 1..(m - 1) PROVE b[i] \in Msgs(s)
    <3>1. i + 1 \in 1..m
      BY <1>1
    <3> QED
      BY <3>1, <1>1, <1>3 DEF Msgs
  <2>3. s[1] \in Msgs(s)
    BY <1>1 DEF Msgs
  <2> QED
    BY <2>1, <2>2, <2>3, <1>1, <1>2 DEF Msgs
<1> QED
  BY <1>1, <1>2, <1>4, <1>5 DEF b

\* CircularBuffer.add() of a new message keeps the order and the capacity.
LEMMA BufferedFacts ==
  ASSUME NEW n \in Messages, buffer \in Seq(Messages), Len(buffer) <= Capacity,
         Increasing(buffer), \A i \in Msgs(buffer) : i < n
  PROVE  /\ Buffered(n) \in Seq(Messages)
         /\ Len(Buffered(n)) <= Capacity
         /\ Increasing(Buffered(n))
         /\ Msgs(Buffered(n)) \subseteq Msgs(buffer) \union {n}
<1>1. CASE Len(buffer) = Capacity
  <2>1. buffer # << >>
    BY <1>1, CapacityAssumption
  <2>2. Tail(buffer) \in Seq(Messages) /\ Increasing(Tail(buffer))
        /\ Len(Tail(buffer)) = Len(buffer) - 1 /\ Msgs(Tail(buffer)) \subseteq Msgs(buffer)
    BY <2>1, TailKeeps
  <2>3. \A i \in Msgs(Tail(buffer)) : i < n
    BY <2>2
  <2>4. /\ Append(Tail(buffer), n) \in Seq(Messages)
        /\ Increasing(Append(Tail(buffer), n))
        /\ Msgs(Append(Tail(buffer), n)) = Msgs(Tail(buffer)) \union {n}
    BY <2>2, <2>3, AppendAbove
  <2>5. Len(Append(Tail(buffer), n)) = Capacity
    BY <2>2, <1>1, CapacityAssumption
  <2>6. Buffered(n) = Append(Tail(buffer), n)
    BY <1>1 DEF Buffered
  <2>7. Capacity <= Capacity
    BY CapacityAssumption
  <2> QED
    BY <2>2, <2>4, <2>5, <2>6, <2>7
<1>2. CASE Len(buffer) # Capacity
  <2>1. Buffered(n) = Append(buffer, n)
    BY <1>2 DEF Buffered
  <2>2. Len(Append(buffer, n)) <= Capacity
    BY <1>2, CapacityAssumption
  <2>3. /\ Append(buffer, n) \in Seq(Messages)
        /\ Increasing(Append(buffer, n))
        /\ Msgs(Append(buffer, n)) = Msgs(buffer) \union {n}
    BY AppendAbove
  <2> QED
    BY <2>1, <2>2, <2>3
<1> QED
  BY <1>1, <1>2

LEMMA AppendMsgs ==
  ASSUME NEW s \in Seq(Messages), NEW n \in Messages
  PROVE  Msgs(Append(s, n)) = Msgs(s) \union {n}
<1>1. Len(s) \in Nat /\ DOMAIN s = 1..Len(s) /\ DOMAIN Append(s, n) = 1..(Len(s) + 1)
  OBVIOUS
<1>2. Append(s, n)[Len(s) + 1] = n /\ \A i \in 1..Len(s) : Append(s, n)[i] = s[i]
  OBVIOUS
<1>3. \A i \in 1..(Len(s) + 1) : i \in 1..Len(s) \/ i = Len(s) + 1
  BY <1>1
<1>4. Len(s) + 1 \in 1..(Len(s) + 1) /\ \A i \in 1..Len(s) : i \in 1..(Len(s) + 1)
  BY <1>1
<1> QED
  BY <1>1, <1>2, <1>3, <1>4 DEF Msgs

-----------------------------------------------------------------------------

LEMMA OrderedMore ==
  ASSUME NEW w, NEW b, NEW g, NEW h, Ordered(w, b, g), g \subseteq h
  PROVE  Ordered(w, b, h)
  BY DEF Ordered

LEMMA OrderedTail ==
  ASSUME NEW w \in Seq(Messages), w # << >>, NEW b, NEW g, Ordered(w, b, g)
  PROVE  Ordered(Tail(w), b, g \union {Head(w)})
<1>1. Len(w) \in Nat \ {0} /\ DOMAIN w = 1..Len(w) /\ Head(w) = w[1]
  OBVIOUS
<1>2. DOMAIN Tail(w) = 1..(Len(w) - 1) /\ \A k \in 1..(Len(w) - 1) : Tail(w)[k] = w[k + 1]
  OBVIOUS
<1> SUFFICES ASSUME NEW k \in 1..(Len(w) - 1), NEW i \in Msgs(b), i < Tail(w)[k],
                    i \notin g, i # w[1]
             PROVE  \E l \in 1..(Len(w) - 1) : l < k /\ Tail(w)[l] = i
  BY <1>1, <1>2 DEF Ordered
<1>3. k + 1 \in 1..Len(w) /\ i < w[k + 1]
  BY <1>1, <1>2
<1>4. PICK l \in 1..Len(w) : l < k + 1 /\ w[l] = i
  BY <1>1, <1>3 DEF Ordered
<1>5. l - 1 \in 1..(Len(w) - 1) /\ l - 1 < k /\ (l - 1) + 1 = l
  BY <1>1, <1>4
<1>6. Tail(w)[l - 1] = i
  BY <1>2, <1>4, <1>5
<1> QED
  BY <1>5, <1>6

LEMMA OrderedAppend ==
  ASSUME NEW w \in Seq(Messages), NEW n \in Messages, NEW b, NEW g, Ordered(w, b, g),
         \A i \in Msgs(b) : i < n => i \in g \union Msgs(w)
  PROVE  Ordered(Append(w, n), b, g)
<1>1. Len(w) \in Nat /\ DOMAIN w = 1..Len(w)
  OBVIOUS
<1>2. DOMAIN Append(w, n) = 1..(Len(w) + 1) /\ Append(w, n)[Len(w) + 1] = n
  OBVIOUS
<1>3. \A k \in 1..Len(w) : Append(w, n)[k] = w[k]
  OBVIOUS
<1> SUFFICES ASSUME NEW k \in 1..(Len(w) + 1), NEW i \in Msgs(b), i < Append(w, n)[k], i \notin g
             PROVE  \E l \in 1..(Len(w) + 1) : l < k /\ Append(w, n)[l] = i
  BY <1>2 DEF Ordered
<1>4. \E l \in 1..Len(w) : l < k /\ w[l] = i
  <2>1. CASE k = Len(w) + 1
    <3>1. i \in Msgs(w)
      BY <2>1, <1>2
    <3> QED
      BY <3>1, <2>1, <1>1 DEF Msgs
  <2>2. CASE k # Len(w) + 1
    <3>1. k \in 1..Len(w)
      BY <2>2, <1>1
    <3>2. i < w[k]
      BY <3>1, <1>3
    <3> QED
      BY <3>1, <3>2, <1>1 DEF Ordered
  <2> QED
    BY <2>1, <2>2
<1>5. \A l \in 1..Len(w) : l \in 1..(Len(w) + 1)
  BY <1>1
<1> QED
  BY <1>3, <1>4, <1>5

LEMMA OrderedNewer ==
  ASSUME NEW w \in Seq(Messages), NEW n \in Messages, NEW b, NEW a, NEW g, Ordered(w, b, g),
         Msgs(a) \subseteq Msgs(b) \union {n}, \A k \in DOMAIN w : w[k] < n
  PROVE  Ordered(w, a, g)
<1> SUFFICES ASSUME NEW k \in DOMAIN w, NEW i \in Msgs(a), i < w[k], i \notin g
             PROVE  \E l \in DOMAIN w : l < k /\ w[l] = i
  BY DEF Ordered
<1>1. w[k] \in Messages /\ w[k] < n
  OBVIOUS
<1>2. w[k] \in Nat /\ n \in Nat
  BY <1>1, MessagesAreNumbers
<1>3. i # n
  BY <1>1, <1>2
<1> QED
  BY <1>3 DEF Ordered

\* The beginning of an increasing buffer.
LEMMA OrderedBeginning ==
  ASSUME NEW w \in Seq(Messages), NEW b \in Seq(Messages), NEW g, Increasing(b),
         Len(w) <= Len(b), \A k \in 1..Len(w) : w[k] = b[k]
  PROVE  Ordered(w, b, g)
<1>1. Len(w) \in Nat /\ Len(b) \in Nat /\ DOMAIN w = 1..Len(w) /\ DOMAIN b = 1..Len(b)
  OBVIOUS
<1> SUFFICES ASSUME NEW k \in 1..Len(w), NEW l \in 1..Len(b), b[l] < w[k]
             PROVE  l \in 1..Len(w) /\ l < k /\ w[l] = b[l]
  BY <1>1 DEF Ordered, Msgs
<1>0. k \in 1..Len(b) /\ w[k] = b[k]
  BY <1>1
<1>6. b[k] \in Messages /\ b[l] \in Messages
  BY <1>0
<1>2. k \in 1..Len(b) /\ w[k] = b[k] /\ b[k] \in Nat /\ b[l] \in Nat
  BY <1>0, <1>6, MessagesAreNumbers
<1>3. ~(k < l)
  BY <1>1, <1>2 DEF Increasing
<1>4. l # k
  BY <1>2
<1>5. l < k /\ l \in 1..Len(w)
  BY <1>1, <1>3, <1>4
<1> QED
  BY <1>5

-----------------------------------------------------------------------------

LEMMA DataInit == Init => DataInv
<1> SUFFICES ASSUME Init PROVE DataInv
  OBVIOUS
<1>1. buffer = << >> /\ written = 0 /\ lasting = {} /\ got = {} /\ twice = {} /\ socket = "none"
      /\ wires = [c \in Connections |-> << >>]
  BY DEF Init
<1>2. \A c \in Connections : wires[c] = << >>
  BY <1>1
<1>3. wires \in [Connections -> Seq(Messages)]
  BY <1>1
<1>4. DOMAIN buffer = {} /\ Msgs(buffer) = {} /\ Len(buffer) = 0 /\ buffer \in Seq(Messages)
  BY <1>1 DEF Msgs
<1>5. DataType
  BY <1>1, <1>3, <1>4, BoundsAssumption, CapacityAssumption DEF DataType
<1>6. Past
  BY <1>1, <1>2, <1>4 DEF Past, Increasing
<1>7. OnTheWay
  BY <1>1 DEF OnTheWay
<1>8. Orderly
  BY <1>2 DEF Orderly, Ordered
<1>9. GapsOnlyByOverflow
  BY <1>1 DEF GapsOnlyByOverflow
<1> QED
  BY <1>5, <1>6, <1>7, <1>8, <1>9 DEF DataInv

\* What leaves the messages alone and opens no connection.
LEMMA DataQuiet ==
  ASSUME DataInv, UNCHANGED <<writerVars, wires, got, twice>>,
         socket' = "open" => socket = "open" /\ conn' = conn
  PROVE  DataInv'
<1> USE DEF DataInv, writerVars
<1>1. DataType'
  BY DEF DataType
<1>2. Past'
  BY DEF Past
<1>3. OnTheWay'
  BY DEF OnTheWay
<1>4. Orderly'
  BY DEF Orderly
<1>5. GapsOnlyByOverflow'
  BY DEF GapsOnlyByOverflow
<1> QED
  BY <1>1, <1>2, <1>3, <1>4, <1>5

\* A connection that is being opened is one of the bound's.
LEMMA ConnBound ==
  ASSUME LinkInv, socket # "none"
  PROVE  conn \in Connections
  BY BoundsAssumption DEF LinkInv, LinkType, Matching, Paid, Owed, OneAttempt, Connections

\* A connection opens, and the beginning of the buffer goes out on it, or all.
LEMMA DataOpen ==
  ASSUME LinkInv, DataInv, UNCHANGED <<writerVars, conn, got, twice>>, socket = "opening",
         NEW w \in Seq(Messages), Len(w) <= Len(buffer), \A k \in 1..Len(w) : w[k] = buffer[k],
         wires' = [wires EXCEPT ![conn] = w],
         socket' = "open" => w = buffer
  PROVE  DataInv'
<1> USE DEF DataInv, writerVars
<1>0. conn \in Connections /\ wires \in [Connections -> Seq(Messages)] /\ buffer \in Seq(Messages)
  BY ConnBound DEF DataType
<1>1. /\ wires' \in [Connections -> Seq(Messages)]
      /\ wires'[conn] = w
      /\ \A c \in Connections : c # conn => wires'[c] = wires[c]
  BY <1>0
<1>2. DataType'
  BY <1>1 DEF DataType
<1>3. Past'
  <2>1. \A k \in DOMAIN w : w[k] <= written
    <3>1. \A k \in 1..Len(w) : k \in DOMAIN buffer
      BY <1>0
    <3> QED
      BY <3>1 DEF Past, Msgs
  <2>2. \A c \in Connections : \A k \in DOMAIN wires'[c] : wires'[c][k] <= written
    BY <2>1, <1>1 DEF Past
  <2> QED
    BY <2>2 DEF Past
<1>4. OnTheWay'
  BY <1>1 DEF OnTheWay
<1>5. Orderly'
  <2>1. Ordered(w, buffer, got)
    BY <1>0, OrderedBeginning DEF Past
  <2>2. \A c \in Connections : Ordered(wires'[c], buffer, got)
    BY <2>1, <1>1 DEF Orderly
  <2> QED
    BY <2>2 DEF Orderly
<1>6. GapsOnlyByOverflow'
  BY DEF GapsOnlyByOverflow
<1> QED
  BY <1>2, <1>3, <1>4, <1>5, <1>6

LEMMA DataWrite ==
  ASSUME LinkInv, DataInv, NEW hasUuid \in BOOLEAN, Write(hasUuid)
  PROVE  DataInv'
<1> USE DEF DataInv
<1> DEFINE n == written + 1
           sent == socket = "open" /\ socket' = "open"
<1>0. /\ wires \in [Connections -> Seq(Messages)] /\ buffer \in Seq(Messages)
      /\ n \in Messages /\ written \in Nat /\ written' = n /\ conn' = conn /\ got' = got /\ twice' = twice
      /\ Len(buffer) <= Capacity
  BY BoundsAssumption DEF DataType, Write, Messages, serverVars, writerVars
<1>1. \A i \in Msgs(buffer) : i \in Nat /\ i < n
  <2> SUFFICES ASSUME NEW k \in DOMAIN buffer PROVE buffer[k] \in Nat /\ buffer[k] < n
    BY DEF Msgs
  <2>1. buffer[k] \in Messages
    BY <1>0
  <2>2. buffer[k] \in Nat
    BY <2>1, MessagesAreNumbers
  <2>3. buffer[k] <= written
    BY DEF Past, Msgs
  <2> QED
    BY <2>2, <2>3, <1>0
<1>2. \A c \in Connections : \A k \in DOMAIN wires[c] : wires[c][k] \in Nat /\ wires[c][k] < n
  <2> SUFFICES ASSUME NEW c \in Connections, NEW k \in DOMAIN wires[c]
               PROVE  wires[c][k] \in Nat /\ wires[c][k] < n
    OBVIOUS
  <2>0. wires[c] \in Seq(Messages)
    BY <1>0
  <2>1. wires[c][k] \in Messages
    BY <2>0
  <2>2. wires[c][k] \in Nat
    BY <2>1, MessagesAreNumbers
  <2>3. wires[c][k] <= written
    BY DEF Past
  <2> QED
    BY <2>2, <2>3, <1>0
<1>3. \A i \in got : i \in Nat /\ i < n
  BY <1>0, MessagesAreNumbers DEF Past, DataType
<1>4. /\ buffer' \in Seq(Messages)
      /\ Len(buffer') <= Capacity
      /\ Increasing(buffer')
      /\ Msgs(buffer') \subseteq Msgs(buffer) \union {n}
  <2>1. CASE hasUuid
    <3>1. buffer' = Buffered(n)
      BY <2>1 DEF Write
    <3> QED
      BY <3>1, <1>0, <1>1, BufferedFacts DEF Past
  <2>2. CASE ~hasUuid
    <3>1. buffer' = buffer
      BY <2>2 DEF Write
    <3> QED
      BY <3>1, <1>0 DEF Past
  <2> QED
    BY <2>1, <2>2
\* The line goes out on the open connection, or nowhere.
<1>5. \/ /\ sent
         /\ conn \in Connections
         /\ wires' = [wires EXCEPT ![conn] = Append(wires[conn], n)]
      \/ wires' = wires /\ socket' # "open"
  <2>1. CASE UNCHANGED linkVars /\ state = "connected" /\ socket = "open"
            /\ wires' = [wires EXCEPT ![conn] = Append(@, written + 1)]
    BY <2>1, ConnBound DEF linkVars
  <2>2. CASE UNCHANGED linkVars /\ ~(state = "connected" /\ socket = "open") /\ wires' = wires
    BY <2>2 DEF linkVars, LinkInv, Matching
  <2>3. CASE HandleConnectionError /\ wires' = wires
    BY <2>3 DEF HandleConnectionError
  <2> QED
    BY <2>1, <2>2, <2>3 DEF Write
<1>6. \A c \in Connections : \/ wires'[c] = wires[c]
                             \/ sent /\ c = conn /\ wires'[c] = Append(wires[c], n)
  BY <1>5, <1>0
<1>7. wires' \in [Connections -> Seq(Messages)]
  <2>1. CASE wires' = wires
    BY <2>1, <1>0
  <2>2. CASE conn \in Connections /\ wires' = [wires EXCEPT ![conn] = Append(wires[conn], n)]
    <3>1. Append(wires[conn], n) \in Seq(Messages)
      BY <2>2, <1>0
    <3> QED
      BY <3>1, <2>2, <1>0
  <2> QED
    BY <2>1, <2>2, <1>5
<1> HIDE DEF n, sent
<1>8. DataType'
  <2>1. written' \in 0..MaxMessages
    BY BoundsAssumption DEF Write, DataType
  <2>2. lasting' \subseteq Messages
    BY <1>0 DEF Write, DataType, n
  <2> QED
    BY <2>1, <2>2, <1>0, <1>4, <1>7 DEF DataType
<1>9. Past'
  <2>1. ASSUME NEW c \in Connections, NEW k \in DOMAIN wires'[c] PROVE wires'[c][k] <= n
    <3>1. CASE wires'[c] = wires[c]
      BY <3>1, <1>0, <1>2, MessagesAreNumbers
    <3>2. CASE wires'[c] = Append(wires[c], n)
      <4>1. wires[c] \in Seq(Messages)
        BY <1>0
      <4>2. k \in 1..(Len(wires[c]) + 1)
        BY <3>2, <4>1, <1>0
      <4>3. CASE k = Len(wires[c]) + 1
        <5>1. wires'[c][k] = n
          BY <3>2, <4>1, <4>3, <1>0
        <5> QED
          BY <5>1, <1>0, MessagesAreNumbers
      <4>4. CASE k # Len(wires[c]) + 1
        <5>1. k \in 1..Len(wires[c])
          BY <4>1, <4>2, <4>4
        <5>2. wires'[c][k] = wires[c][k] /\ k \in DOMAIN wires[c]
          BY <3>2, <4>1, <5>1, <1>0
        <5>3. wires[c][k] \in Nat /\ wires[c][k] < n
          BY <5>2, <1>2
        <5> QED
          BY <5>2, <5>3, <1>0, MessagesAreNumbers
      <4> QED
        BY <4>3, <4>4
    <3> QED
      BY <3>1, <3>2, <1>6
  <2>2. \A i \in Msgs(buffer') : i <= n
    BY <1>0, <1>1, <1>4, MessagesAreNumbers
  <2>3. \A i \in got : i <= n
    BY <1>0, <1>3, MessagesAreNumbers
  <2> QED
    BY <2>1, <2>2, <2>3, <1>0, <1>4 DEF Past
<1>10. OnTheWay'
  <2> SUFFICES ASSUME socket' = "open", NEW i \in Msgs(buffer')
               PROVE  i \in got \union Msgs(wires'[conn])
    BY <1>0 DEF OnTheWay
  <2>1. sent /\ conn \in Connections /\ wires'[conn] = Append(wires[conn], n)
    BY <1>0, <1>5
  <2>2. \A j \in Msgs(buffer) : j \in got \union Msgs(wires[conn])
    BY <2>1 DEF OnTheWay, sent
  <2>3. wires[conn] \in Seq(Messages)
    BY <2>1, <1>0
  <2>4. Msgs(wires'[conn]) = Msgs(wires[conn]) \union {n}
    BY <2>1, <2>3, <1>0, AppendMsgs
  <2> QED
    BY <2>2, <2>4, <1>4
<1>11. Orderly'
  <2> SUFFICES ASSUME NEW c \in Connections PROVE Ordered(wires'[c], buffer', got)
    BY <1>0 DEF Orderly
  <2>0. wires[c] \in Seq(Messages)
    BY <1>0
  <2>1. Ordered(wires[c], buffer', got)
    BY <2>0, <1>0, <1>2, <1>4, OrderedNewer DEF Orderly
  <2>2. CASE sent /\ c = conn /\ wires'[c] = Append(wires[c], n)
    <3>1. \A j \in Msgs(buffer) : j \in got \union Msgs(wires[c])
      BY <2>2 DEF OnTheWay, sent
    <3>2. \A i \in Msgs(buffer') : i < n => i \in got \union Msgs(wires[c])
      BY <3>1, <1>0, <1>4, MessagesAreNumbers
    <3>3. Ordered(Append(wires[c], n), buffer', got)
      BY <2>0, <2>1, <3>2, <1>0, OrderedAppend
    <3> QED
      BY <3>3, <2>2
  <2> QED
    BY <2>1, <2>2, <1>6
<1>12. GapsOnlyByOverflow'
  <2> SUFFICES ASSUME NEW i \in Msgs(buffer'), NEW j \in got, i < j PROVE i \in got
    BY <1>0 DEF GapsOnlyByOverflow, Elements, Msgs
  <2>1. j \in Nat /\ j < n /\ n \in Nat
    BY <1>0, <1>3, MessagesAreNumbers
  <2>2. i # n
    BY <2>1
  <2>3. i \in Elements(buffer)
    BY <2>2, <1>4 DEF Elements, Msgs
  <2> QED
    BY <2>3 DEF GapsOnlyByOverflow
<1> QED
  BY <1>8, <1>9, <1>10, <1>11, <1>12

LEMMA DataDeliver ==
  ASSUME DataInv, NEW c \in Connections, Deliver(c)
  PROVE  DataInv'
<1> USE DEF DataInv
<1> DEFINE w == wires[c]
           m == Head(wires[c])
<1>0. /\ wires \in [Connections -> Seq(Messages)]
      /\ w \in Seq(Messages) /\ w # << >> /\ m \in Messages /\ m = w[1] /\ 1 \in DOMAIN w
      /\ UNCHANGED <<buffer, written, lasting, socket, conn>> /\ got' = got \union {m}
  BY DEF DataType, Deliver, linkVars, writerVars
<1>1. Tail(w) \in Seq(Messages) /\ Msgs(w) = Msgs(Tail(w)) \union {m} /\ Len(Tail(w)) = Len(w) - 1
  BY <1>0, TailKeeps
<1>2. wires' = [wires EXCEPT ![c] = Tail(w)]
  BY DEF Deliver
<1>3. /\ wires' \in [Connections -> Seq(Messages)]
      /\ wires'[c] = Tail(w)
      /\ \A d \in Connections : d # c => wires'[d] = wires[d]
  BY <1>0, <1>1, <1>2
<1>4. DataType'
  <2>1. twice' \subseteq Messages
    BY <1>0 DEF Deliver, DataType
  <2> QED
    BY <2>1, <1>0, <1>3 DEF DataType
<1>5. Past'
  <2>1. ASSUME NEW k \in DOMAIN Tail(w) PROVE Tail(w)[k] <= written
    <3>1. Tail(w)[k] = w[k + 1] /\ k + 1 \in DOMAIN w
      BY <1>0
    <3> QED
      BY <3>1 DEF Past
  <2>2. \A d \in Connections : \A k \in DOMAIN wires'[d] : wires'[d][k] <= written
    BY <2>1, <1>3 DEF Past
  <2>3. m <= written
    BY <1>0 DEF Past
  <2> QED
    BY <2>2, <2>3, <1>0 DEF Past
<1>6. OnTheWay'
  <2> SUFFICES ASSUME socket = "open", NEW i \in Msgs(buffer)
               PROVE  i \in got \union {m} \union Msgs(wires'[conn])
    BY <1>0 DEF OnTheWay
  <2>1. i \in got \union Msgs(wires[conn])
    BY DEF OnTheWay
  <2>2. CASE c = conn
    BY <2>1, <2>2, <1>1, <1>3
  <2>3. CASE c # conn
    <3>1. wires'[conn] = wires[conn]
      BY <2>3, <1>2
    <3> QED
      BY <2>1, <3>1
  <2> QED
    BY <2>2, <2>3
<1>7. Orderly'
  <2> SUFFICES ASSUME NEW d \in Connections PROVE Ordered(wires'[d], buffer, got \union {m})
    BY <1>0 DEF Orderly
  <2>1. CASE d = c
    <3>1. Ordered(Tail(w), buffer, got \union {m})
      BY <1>0, OrderedTail DEF Orderly
    <3> QED
      BY <3>1, <2>1, <1>3
  <2>2. CASE d # c
    <3>1. Ordered(wires[d], buffer, got)
      BY DEF Orderly
    <3>2. Ordered(wires[d], buffer, got \union {m})
      BY <3>1, OrderedMore
    <3> QED
      BY <3>2, <2>2, <1>3
  <2> QED
    BY <2>1, <2>2
<1>8. GapsOnlyByOverflow'
  <2> SUFFICES ASSUME NEW i \in Msgs(buffer), NEW j \in got \union {m}, i < j
               PROVE  i \in got \union {m}
    BY <1>0 DEF GapsOnlyByOverflow, Elements, Msgs
  <2>1. CASE j \in got
    BY <2>1 DEF GapsOnlyByOverflow, Elements, Msgs
  <2>2. CASE j = m
    <3>1. i < w[1]
      BY <2>2, <1>0
    <3>2. i \in got \/ \E l \in DOMAIN w : l < 1 /\ w[l] = i
      BY <3>1, <1>0 DEF Orderly, Ordered
    <3>3. ~ \E l \in DOMAIN w : l < 1
      BY <1>0
    <3> QED
      BY <3>2, <3>3
  <2> QED
    BY <2>1, <2>2
<1> QED
  BY <1>4, <1>5, <1>6, <1>7, <1>8

LEMMA DataLose ==
  ASSUME DataInv, NEW c \in Connections, Lose(c)
  PROVE  DataInv'
<1> USE DEF DataInv
<1>0. /\ wires \in [Connections -> Seq(Messages)]
      /\ UNCHANGED <<buffer, written, lasting, socket, conn, got, twice>>
      /\ socket = "open" => c # conn
  BY DEF DataType, Lose, linkVars, serverVars, Alive, writerVars
<1>1. /\ wires' \in [Connections -> Seq(Messages)]
      /\ wires'[c] = << >>
      /\ \A d \in Connections : d # c => wires'[d] = wires[d]
  BY <1>0 DEF Lose
<1>2. DataType'
  BY <1>0, <1>1 DEF DataType
<1>3. Past'
  <2>1. \A d \in Connections : \A k \in DOMAIN wires'[d] : wires'[d][k] <= written
    BY <1>1 DEF Past
  <2> QED
    BY <2>1, <1>0 DEF Past
<1>4. OnTheWay'
  <2>1. socket = "open" => wires'[conn] = wires[conn]
    BY <1>0 DEF Lose
  <2> QED
    BY <2>1, <1>0 DEF OnTheWay
<1>5. Orderly'
  <2>1. \A d \in Connections : Ordered(wires'[d], buffer, got)
    BY <1>1 DEF Orderly, Ordered
  <2> QED
    BY <2>1, <1>0 DEF Orderly
<1>6. GapsOnlyByOverflow'
  BY <1>0 DEF GapsOnlyByOverflow
<1> QED
  BY <1>2, <1>3, <1>4, <1>5, <1>6

LEMMA DataNext == LinkInv /\ DataInv /\ [Next]_vars => DataInv'
<1> SUFFICES ASSUME LinkInv, DataInv, [Next]_vars PROVE DataInv'
  OBVIOUS
<1>1. CASE FirstConnect \/ ReconnectTimer
  BY <1>1, DataQuiet DEF FirstConnect, ReconnectTimer, Connect, serverVars, writerVars
<1>2. CASE Open
  <2>1. buffer \in Seq(Messages) /\ Len(buffer) <= Len(buffer)
    BY DEF DataInv, DataType
  <2> QED
    BY <1>2, <2>1, DataOpen DEF Open, serverVars, writerVars
<1>3. CASE OpenAndFail
  <2>1. PICK n \in 0..(Len(buffer) - 1) : wires' = [wires EXCEPT ![conn] = SubSeq(buffer, 1, n)]
    BY <1>3 DEF OpenAndFail
  <2>2. buffer \in Seq(Messages)
    BY DEF DataInv, DataType
  <2>3. /\ SubSeq(buffer, 1, n) \in Seq(Messages)
        /\ Len(SubSeq(buffer, 1, n)) <= Len(buffer)
        /\ \A k \in 1..Len(SubSeq(buffer, 1, n)) : SubSeq(buffer, 1, n)[k] = buffer[k]
    BY <2>2
  <2> QED
    BY <1>3, <2>1, <2>3, DataOpen DEF OpenAndFail, serverVars, writerVars
<1>4. ASSUME NEW hasUuid \in BOOLEAN, Write(hasUuid) PROVE DataInv'
  BY <1>4, DataWrite
<1>5. CASE Die \/ PermanentClose \/ Ping \/ Pong \/ Close
  BY <1>5, DataQuiet DEF Die, PermanentClose, Ping, Pong, Close, serverVars, writerVars
<1>6. CASE CloseEvent \/ PingTimeout
  BY <1>6, DataQuiet DEF CloseEvent, PingTimeout, HandleConnectionError, serverVars, writerVars
<1>7. ASSUME NEW c \in Connections, Deliver(c) PROVE DataInv'
  BY <1>7, DataDeliver
<1>8. ASSUME NEW c \in Connections, Lose(c) PROVE DataInv'
  BY <1>8, DataLose
<1>9. CASE UNCHANGED vars
  BY <1>9, DataQuiet DEF vars, linkVars, serverVars, writerVars
<1> QED
  BY <1>1, <1>2, <1>3, <1>4, <1>5, <1>6, <1>7, <1>8, <1>9 DEF Next

\* Over any number of connections, with lines of old ones still arriving, the
\* server misses nothing that the buffer still has and was written before
\* something it has seen.
THEOREM NoGaps == Spec => []GapsOnlyByOverflow
<1>1. DataInv => GapsOnlyByOverflow
  BY DEF DataInv
<1> QED
  BY LinkInit, LinkNext, DataInit, DataNext, <1>1, PTL DEF Spec

-----------------------------------------------------------------------------

FlagType == failing \in BOOLEAN /\ pong \in BOOLEAN

LEMMA FlagInit == Init => FlagType
  BY DEF Init, FlagType

LEMMA FlagNext == FlagType /\ [Next]_vars => FlagType'
<1> SUFFICES ASSUME FlagType, [Next]_vars PROVE FlagType'
  OBVIOUS
<1> USE DEF FlagType
<1>1. ASSUME HandleConnectionError PROVE FlagType'
  BY <1>1 DEF HandleConnectionError
<1>2. CASE FirstConnect \/ ReconnectTimer
  BY <1>2 DEF FirstConnect, ReconnectTimer, Connect
<1>3. CASE Open \/ OpenAndFail
  BY <1>3 DEF Open, OpenAndFail
<1>4. ASSUME NEW hasUuid \in BOOLEAN, Write(hasUuid) PROVE FlagType'
  BY <1>1, <1>4 DEF Write, linkVars
<1>5. CASE Die \/ PermanentClose \/ Ping \/ Pong \/ Close
  BY <1>5 DEF Die, PermanentClose, Ping, Pong, Close
<1>6. CASE CloseEvent \/ PingTimeout
  BY <1>1, <1>6 DEF CloseEvent, PingTimeout
<1>7. ASSUME NEW c \in Connections, Deliver(c) \/ Lose(c) PROVE FlagType'
  BY <1>7 DEF Deliver, Lose, linkVars
<1>8. CASE UNCHANGED vars
  BY <1>8 DEF vars, linkVars, writerVars
<1> QED
  BY <1>2, <1>3, <1>4, <1>5, <1>6, <1>7, <1>8 DEF Next

\* Every variable keeps its type, and the buffer its capacity; connections are
\* asked for at most once more than one fails.
THEOREM TypeCorrect == Spec => []TypeOK
<1>1. LinkInv /\ DataInv /\ FlagType => TypeOK
  <2> SUFFICES ASSUME LinkInv, DataInv, FlagType PROVE TypeOK
    OBVIOUS
  <2>1. conn \in 0..(MaxFailures + 1)
    BY BoundsAssumption DEF LinkInv, LinkType, Paid, Owed
  <2>2. LinkType /\ DataType
    BY DEF LinkInv, DataInv
  <2> QED
    BY <2>1, <2>2 DEF TypeOK, LinkType, DataType, FlagType
<1> QED
  BY LinkInit, LinkNext, DataInit, DataNext, FlagInit, FlagNext, <1>1, PTL DEF Spec
-----------------------------------------------------------------------------
(* The transport implements MessageChannel *)

\* A message without a uuid is on one wire, once, and then has not arrived.
Single ==
  \A c \in Connections : \A k \in DOMAIN wires[c] :
    wires[c][k] \notin lasting =>
      /\ wires[c][k] \notin got
      /\ \A d \in Connections : \A l \in DOMAIN wires[d] :
           wires[d][l] = wires[c][k] => d = c /\ l = k

OnceInv == Msgs(buffer) \subseteq lasting /\ Single

LEMMA OnceInit == Init => OnceInv
  BY DEF Init, OnceInv, Single, Msgs

LEMMA OnceQuiet ==
  ASSUME OnceInv, UNCHANGED <<writerVars, wires, got>>
  PROVE  OnceInv'
  BY DEF OnceInv, Single, writerVars

\* What a replay puts on the wire has a uuid.
LEMMA OnceOpen ==
  ASSUME LinkInv, DataInv, OnceInv, UNCHANGED <<writerVars, got>>, socket = "opening",
         NEW w \in Seq(Messages), Len(w) <= Len(buffer), \A k \in 1..Len(w) : w[k] = buffer[k],
         wires' = [wires EXCEPT ![conn] = w]
  PROVE  OnceInv'
<1>0. conn \in Connections /\ wires \in [Connections -> Seq(Messages)] /\ buffer \in Seq(Messages)
  BY ConnBound DEF DataInv, DataType
<1>1. wires'[conn] = w /\ \A c \in Connections : c # conn => wires'[c] = wires[c]
  BY <1>0
<1>2. \A k \in DOMAIN w : w[k] \in lasting
  <2>1. \A k \in DOMAIN w : k \in 1..Len(w) /\ k \in DOMAIN buffer
    BY <1>0
  <2> QED
    BY <2>1 DEF OnceInv, Msgs
<1>3. buffer' = buffer /\ lasting' = lasting
  BY DEF writerVars
<1> QED
  BY <1>1, <1>2, <1>3 DEF OnceInv, Single

\* A message that is written goes on the open connection, or nowhere.
LEMMA WriteSends ==
  ASSUME LinkInv, DataInv, NEW hasUuid \in BOOLEAN, Write(hasUuid)
  PROVE  \A c \in Connections : wires'[c] = wires[c] \/ (c = conn /\ wires'[c] = Append(wires[c], written + 1))
<1>1. wires \in [Connections -> Seq(Messages)]
  BY DEF DataInv, DataType
<1> QED
  BY <1>1 DEF Write

LEMMA OnceWrite ==
  ASSUME LinkInv, DataInv, OnceInv, NEW hasUuid \in BOOLEAN, Write(hasUuid)
  PROVE  OnceInv'
<1> DEFINE n == written + 1
<1>0. /\ wires \in [Connections -> Seq(Messages)] /\ buffer \in Seq(Messages)
      /\ Len(buffer) <= Capacity /\ Increasing(buffer)
      /\ n \in Messages /\ written \in Nat /\ got' = got
      /\ lasting' = IF hasUuid THEN lasting \union {n} ELSE lasting
      /\ buffer' = IF hasUuid THEN Buffered(n) ELSE buffer
  BY BoundsAssumption DEF DataInv, DataType, Past, Write, Messages, serverVars
<1>1. \A i \in got : i < n
  BY <1>0, MessagesAreNumbers DEF DataInv, DataType, Past
<1>2. \A c \in Connections : \A k \in DOMAIN wires[c] : wires[c][k] < n
  <2> SUFFICES ASSUME NEW c \in Connections, NEW k \in DOMAIN wires[c] PROVE wires[c][k] < n
    OBVIOUS
  <2>1. wires[c][k] \in Messages
    BY <1>0
  <2>2. wires[c][k] \in Nat /\ wires[c][k] <= written
    BY <2>1, MessagesAreNumbers DEF DataInv, Past
  <2> QED
    BY <2>2, <1>0
<1>3. \A i \in Msgs(buffer) : i < n
  <2> SUFFICES ASSUME NEW k \in DOMAIN buffer PROVE buffer[k] < n
    BY DEF Msgs
  <2>1. buffer[k] \in Messages
    BY <1>0
  <2>2. buffer[k] \in Nat /\ buffer[k] <= written
    BY <2>1, MessagesAreNumbers DEF DataInv, Past, Msgs
  <2> QED
    BY <2>2, <1>0
<1>4. n \in Nat
  BY <1>0
<1>5. Msgs(buffer') \subseteq lasting'
  <2>1. CASE hasUuid
    <3>1. Msgs(Buffered(n)) \subseteq Msgs(buffer) \union {n}
      BY <1>0, <1>3, BufferedFacts
    <3> QED
      BY <2>1, <3>1, <1>0 DEF OnceInv
  <2>2. CASE ~hasUuid
    BY <2>2, <1>0 DEF OnceInv
  <2> QED
    BY <2>1, <2>2
<1>6. \A c \in Connections : wires'[c] = wires[c] \/ (c = conn /\ wires'[c] = Append(wires[c], n))
  BY WriteSends
<1> HIDE DEF n
\* What is on a wire was there before, or is n at the end of the current one.
<1>7. \A c \in Connections : \A k \in DOMAIN wires'[c] :
        \/ k \in DOMAIN wires[c] /\ wires'[c][k] = wires[c][k]
        \/ c = conn /\ k = Len(wires[c]) + 1 /\ wires'[c][k] = n
  <2> SUFFICES ASSUME NEW c \in Connections, NEW k \in DOMAIN wires'[c],
                      c = conn, wires'[c] = Append(wires[c], n)
               PROVE  \/ k \in DOMAIN wires[c] /\ wires'[c][k] = wires[c][k]
                      \/ k = Len(wires[c]) + 1 /\ wires'[c][k] = n
    BY <1>6
  <2>1. wires[c] \in Seq(Messages)
    BY <1>0
  <2> DEFINE s == wires[c]
  <2>2. DOMAIN Append(s, n) = 1..(Len(s) + 1) /\ DOMAIN s = 1..Len(s) /\ Len(s) \in Nat
    BY <2>1
  <2>3. Append(s, n)[Len(s) + 1] = n /\ \A j \in 1..Len(s) : Append(s, n)[j] = s[j]
    BY <2>1
  <2>4. k \in 1..Len(s) \/ k = Len(s) + 1
    BY <2>2
  <2> QED
    BY <2>2, <2>3, <2>4
<1>8. \A c \in Connections : \A k \in DOMAIN wires[c] : wires[c][k] # n
  <2> SUFFICES ASSUME NEW c \in Connections, NEW k \in DOMAIN wires[c], wires[c][k] = n PROVE FALSE
    OBVIOUS
  <2>1. n < n
    BY <1>2
  <2> QED
    BY <2>1, <1>4
<1>9. n \notin got
  BY <1>1, <1>4
<1>10. Single'
  <2> SUFFICES ASSUME NEW c \in Connections, NEW k \in DOMAIN wires'[c], wires'[c][k] \notin lasting'
               PROVE  /\ wires'[c][k] \notin got
                      /\ \A d \in Connections : \A l \in DOMAIN wires'[d] :
                           wires'[d][l] = wires'[c][k] => d = c /\ l = k
    BY <1>0 DEF Single
  <2>1. CASE k \in DOMAIN wires[c] /\ wires'[c][k] = wires[c][k]
    <3>1. wires[c][k] \notin lasting
      BY <2>1, <1>0
    <3>2. /\ wires[c][k] \notin got
          /\ \A d \in Connections : \A l \in DOMAIN wires[d] :
               wires[d][l] = wires[c][k] => d = c /\ l = k
      BY <2>1, <3>1 DEF OnceInv, Single
    <3>3. wires[c][k] # n
      BY <2>1, <1>8
    <3> QED
      BY <2>1, <3>2, <3>3, <1>7
  <2>2. CASE c = conn /\ k = Len(wires[c]) + 1 /\ wires'[c][k] = n
    <3>1. \A d \in Connections : \A l \in DOMAIN wires'[d] :
            wires'[d][l] = n => d = conn /\ l = Len(wires[d]) + 1
      BY <1>7, <1>8
    <3> QED
      BY <2>2, <3>1, <1>9
  <2> QED
    BY <2>1, <2>2, <1>7
<1> QED
  BY <1>5, <1>10 DEF OnceInv

LEMMA OnceDeliver ==
  ASSUME DataInv, OnceInv, NEW c \in Connections, Deliver(c)
  PROVE  OnceInv'
<1> DEFINE w == wires[c]
           m == Head(wires[c])
<1>0. /\ wires \in [Connections -> Seq(Messages)]
      /\ w \in Seq(Messages) /\ w # << >> /\ m = w[1] /\ 1 \in DOMAIN w
      /\ UNCHANGED <<buffer, lasting>> /\ got' = got \union {m}
  BY DEF DataInv, DataType, Deliver, writerVars
<1>1. /\ wires'[c] = Tail(w)
      /\ \A d \in Connections : d # c => wires'[d] = wires[d]
  BY <1>0 DEF Deliver
<1>2. \A k \in DOMAIN Tail(w) : k \in Nat /\ k + 1 \in DOMAIN w /\ Tail(w)[k] = w[k + 1] /\ k + 1 # 1
  BY <1>0
<1> HIDE DEF w, m
\* Where a message was before the head was taken.
<1> DEFINE At(d, k) == IF d = c THEN k + 1 ELSE k
<1>3. \A d \in Connections : \A k \in DOMAIN wires'[d] :
        /\ At(d, k) \in DOMAIN wires[d]
        /\ wires'[d][k] = wires[d][At(d, k)]
        /\ d = c => At(d, k) # 1 /\ k \in Nat
  BY <1>1, <1>2 DEF w
<1>4. Single'
  <2> SUFFICES ASSUME NEW d \in Connections, NEW k \in DOMAIN wires'[d], wires'[d][k] \notin lasting
               PROVE  /\ wires'[d][k] \notin got \union {m}
                      /\ \A e \in Connections : \A l \in DOMAIN wires'[e] :
                           wires'[e][l] = wires'[d][k] => e = d /\ l = k
    BY <1>0 DEF Single
  <2>1. /\ wires[d][At(d, k)] \notin got
        /\ \A e \in Connections : \A l \in DOMAIN wires[e] :
             wires[e][l] = wires[d][At(d, k)] => e = d /\ l = At(d, k)
    BY <1>3 DEF OnceInv, Single
  <2>2. wires'[d][k] # m
    <3> SUFFICES ASSUME wires[d][At(d, k)] = wires[c][1] PROVE FALSE
      BY <1>0, <1>3 DEF w
    <3>1. 1 \in DOMAIN wires[c]
      BY <1>0 DEF w
    <3>2. c = d /\ 1 = At(d, k)
      BY <2>1, <3>1
    <3> QED
      BY <3>2, <1>3
  <2>3. ASSUME NEW e \in Connections, NEW l \in DOMAIN wires'[e], wires'[e][l] = wires'[d][k]
        PROVE  e = d /\ l = k
    <3>1. At(e, l) \in DOMAIN wires[e] /\ wires[e][At(e, l)] = wires[d][At(d, k)]
      BY <2>3, <1>3
    <3>2. e = d /\ At(e, l) = At(d, k)
      BY <3>1, <2>1
    <3>3. d = c => k \in Nat /\ l \in Nat
      BY <3>2, <1>3
    <3> QED
      BY <3>2, <3>3
  <2> QED
    BY <1>3, <2>1, <2>2, <2>3
<1> QED
  BY <1>0, <1>4 DEF OnceInv

LEMMA OnceLose ==
  ASSUME DataInv, OnceInv, NEW c \in Connections, Lose(c)
  PROVE  OnceInv'
<1>0. wires \in [Connections -> Seq(Messages)] /\ UNCHANGED <<buffer, lasting, got>>
  BY DEF DataInv, DataType, Lose, writerVars, serverVars
<1>1. wires'[c] = << >> /\ \A d \in Connections : d # c => wires'[d] = wires[d]
  BY <1>0 DEF Lose
<1>2. \A d \in Connections : \A k \in DOMAIN wires'[d] :
        k \in DOMAIN wires[d] /\ wires'[d][k] = wires[d][k]
  BY <1>1
<1> QED
  BY <1>0, <1>2 DEF OnceInv, Single

LEMMA OnceNext == LinkInv /\ DataInv /\ OnceInv /\ [Next]_vars => OnceInv'
<1> SUFFICES ASSUME LinkInv, DataInv, OnceInv, [Next]_vars PROVE OnceInv'
  OBVIOUS
<1>1. CASE FirstConnect \/ ReconnectTimer
  BY <1>1, OnceQuiet DEF FirstConnect, ReconnectTimer, Connect, serverVars
<1>2. CASE Open
  <2>1. buffer \in Seq(Messages) /\ Len(buffer) <= Len(buffer)
    BY DEF DataInv, DataType
  <2> QED
    BY <1>2, <2>1, OnceOpen DEF Open, serverVars
<1>3. CASE OpenAndFail
  <2>1. PICK n \in 0..(Len(buffer) - 1) : wires' = [wires EXCEPT ![conn] = SubSeq(buffer, 1, n)]
    BY <1>3 DEF OpenAndFail
  <2>2. buffer \in Seq(Messages)
    BY DEF DataInv, DataType
  <2>3. /\ SubSeq(buffer, 1, n) \in Seq(Messages)
        /\ Len(SubSeq(buffer, 1, n)) <= Len(buffer)
        /\ \A k \in 1..Len(SubSeq(buffer, 1, n)) : SubSeq(buffer, 1, n)[k] = buffer[k]
    BY <2>2
  <2> QED
    BY <1>3, <2>1, <2>3, OnceOpen DEF OpenAndFail, serverVars
<1>4. ASSUME NEW hasUuid \in BOOLEAN, Write(hasUuid) PROVE OnceInv'
  BY <1>4, OnceWrite
<1>5. CASE Die \/ PermanentClose \/ Ping \/ Pong \/ Close
  BY <1>5, OnceQuiet DEF Die, PermanentClose, Ping, Pong, Close, serverVars
<1>6. CASE CloseEvent \/ PingTimeout
  BY <1>6, OnceQuiet DEF CloseEvent, PingTimeout, serverVars
<1>7. ASSUME NEW c \in Connections, Deliver(c) PROVE OnceInv'
  BY <1>7, OnceDeliver
<1>8. ASSUME NEW c \in Connections, Lose(c) PROVE OnceInv'
  BY <1>8, OnceLose
<1>9. CASE UNCHANGED vars
  BY <1>9, OnceQuiet DEF vars, serverVars
<1> QED
  BY <1>1, <1>2, <1>3, <1>4, <1>5, <1>6, <1>7, <1>8, <1>9 DEF Next

LEMMA ChannelWrite ==
  ASSUME NEW hasUuid \in BOOLEAN, Write(hasUuid)
  PROVE  Channel!WriteLasting \/ Channel!WritePassing
<1>1. CASE hasUuid
  <2>1. buffer' = Append(IF Len(buffer) = Capacity THEN Tail(buffer) ELSE buffer, written')
    BY <1>1 DEF Write, Buffered
  <2> QED
    BY <1>1, <2>1 DEF Write, serverVars, Channel!WriteLasting, Channel!readerVars
<1>2. CASE ~hasUuid
  BY <1>2 DEF Write, serverVars, Channel!WritePassing, Channel!readerVars
<1> QED
  BY <1>1, <1>2

\* The head of a wire is the next that may come: what the buffer has of older
\* messages would stand before it.
LEMMA ChannelDeliver ==
  ASSUME DataInv, OnceInv, NEW c \in Connections, Deliver(c)
  PROVE  Channel!Next
<1> DEFINE m == Head(wires[c])
<1>0. /\ wires[c] \in Seq(Messages) /\ wires[c] # << >> /\ m = wires[c][1] /\ 1 \in DOMAIN wires[c]
      /\ UNCHANGED <<buffer, written, lasting>> /\ got' = got \union {m}
      /\ twice' = IF m \in got THEN twice \union {m} ELSE twice
  BY DEF DataInv, DataType, Deliver, writerVars
<1>1. m \in 1..written
  <2>1. m \in Messages
    BY <1>0
  <2>2. m <= written /\ written \in Nat
    BY <1>0, BoundsAssumption DEF DataInv, DataType, Past
  <2> QED
    BY <2>1, <2>2 DEF Messages
<1>2. Channel!NoneMissing(m)
  <2> SUFFICES ASSUME NEW i \in DOMAIN buffer, buffer[i] < m PROVE buffer[i] \in got
    BY DEF Channel!NoneMissing
  <2>1. buffer[i] \in got \/ \E l \in DOMAIN wires[c] : l < 1 /\ wires[c][l] = buffer[i]
    BY <1>0 DEF DataInv, Orderly, Ordered, Msgs
  <2>2. \A l \in DOMAIN wires[c] : ~(l < 1)
    BY <1>0
  <2> QED
    BY <2>1, <2>2
<1>3. m \notin lasting => m \notin got
  BY <1>0 DEF OnceInv, Single
<1> HIDE DEF m
<1>4. CASE m \notin got
  <2>1. Channel!Get(m)
    BY <1>0, <1>2, <1>4 DEF Channel!Get, Channel!writerVars
  <2> QED
    BY <1>1, <2>1 DEF Channel!Next
<1>5. CASE m \in got
  <2>1. Channel!GetAgain(m)
    BY <1>0, <1>3, <1>5 DEF Channel!GetAgain, Channel!writerVars
  <2> QED
    BY <1>1, <2>1 DEF Channel!Next
<1> QED
  BY <1>4, <1>5

LEMMA ChannelStep ==
  ASSUME DataInv, OnceInv, [Next]_vars
  PROVE  [Channel!Next]_(Channel!channelVars)
<1>1. ASSUME NEW hasUuid \in BOOLEAN, Write(hasUuid) PROVE Channel!Next
  BY <1>1, ChannelWrite DEF Channel!Next
<1>2. ASSUME NEW c \in Connections, Deliver(c) PROVE Channel!Next
  BY <1>2, ChannelDeliver
<1>3. ASSUME UNCHANGED <<writerVars, serverVars>> PROVE UNCHANGED Channel!channelVars
  BY <1>3 DEF writerVars, serverVars, Channel!channelVars, Channel!writerVars, Channel!readerVars
<1>4. CASE FirstConnect \/ ReconnectTimer \/ Open \/ OpenAndFail
  BY <1>3, <1>4 DEF FirstConnect, ReconnectTimer, Connect, Open, OpenAndFail
<1>5. CASE Die \/ CloseEvent \/ PermanentClose \/ Ping \/ Pong \/ PingTimeout \/ Close
  BY <1>3, <1>5 DEF Die, CloseEvent, PermanentClose, Ping, Pong, PingTimeout, Close
<1>6. ASSUME NEW c \in Connections, Lose(c) PROVE UNCHANGED Channel!channelVars
  BY <1>3, <1>6 DEF Lose
<1>7. CASE UNCHANGED vars
  BY <1>3, <1>7 DEF vars
<1> QED
  BY <1>1, <1>2, <1>4, <1>5, <1>6, <1>7 DEF Next

\* The transport implements MessageChannel, for a buffer of any size and any
\* number of failures: however connections overlap, the server gets nothing
\* before an older message that is still buffered, and a message without a uuid
\* (a request to be asked for a permission) at most once.
THEOREM MessagesCarried == Spec => CarriesMessages
<1>1. Init => Channel!Init
  BY DEF Init, Channel!Init
<1>2. DataInv /\ OnceInv /\ [Next]_vars => [Channel!Next]_(Channel!channelVars)
  BY ChannelStep
<1> QED
  BY LinkInit, LinkNext, DataInit, DataNext, OnceInit, OnceNext, <1>1, <1>2, PTL
     DEF Spec, CarriesMessages, Channel!Spec
=============================================================================
