-------------------------- MODULE WebSocketTransport --------------------------
(***************************************************************************)
(* The way back from a CLI to the server: WebSocketTransport of            *)
(* src/cli/transports, over Bun's WebSocket, and the server's end of it,   *)
(* handleSdkPayload() of conversationService.ts.                           *)
(*                                                                         *)
(* write() keeps each message that has a uuid in a circular buffer and     *)
(* sends it if a connection is up.  A connection that closes, or is found  *)
(* dead by a ping without a pong, is replaced after a delay, and when the  *)
(* new one opens the whole buffer is sent again.  A message without a uuid *)
(* (a control request or response) is sent or dropped.                     *)
(*                                                                         *)
(* Messages are numbered as they are written, connections as they are      *)
(* asked for.  Lines sent on a connection arrive in order or, once it is   *)
(* given up or dead, not at all; the last lines of an old connection may   *)
(* arrive after the first of a new one, for the server keeps reading both. *)
(*                                                                         *)
(* Left out: the way to the CLI (see ConversationService), delays, and the *)
(* sessions the server no longer knows.                                    *)
(***************************************************************************)
EXTENDS Integers, Sequences, SequencesExt

CONSTANTS
  Capacity,     \* of the buffer; DEFAULT_MAX_BUFFER_SIZE
  MaxMessages,  \* bound: messages written
  MaxFailures   \* bound: failures of connections

ASSUME CapacityAssumption == Capacity \in Nat \ {0}
ASSUME BoundsAssumption == MaxMessages \in Nat /\ MaxFailures \in Nat

Messages == 1..MaxMessages
Connections == 1..(MaxFailures + 1)

VARIABLES
  state,     \* of the transport
  socket,    \* this.ws: none, being opened, open, or dead without our knowing
  timers,    \* reconnection timers running
  failing,   \* reconnectStartTime is set
  pong,      \* pongReceived
  buffer,    \* messageBuffer
  written,   \* messages written so far
  lasting,   \* history: those with a uuid
  conn,      \* connections asked for so far
  wires,     \* lines on their way, by connection
  failures,  \* failures so far
  got,       \* messages the server has handed to the session's callbacks
  twice      \* history: those it has handed to them more than once

linkVars == <<state, socket, timers, failing, pong>>
writerVars == <<buffer, written, lasting>>
serverVars == <<got, twice>>
vars == <<linkVars, writerVars, conn, wires, failures, serverVars>>

TypeOK ==
  /\ state \in {"idle", "reconnecting", "connected", "closing", "closed"}
  /\ socket \in {"none", "opening", "open", "dead"}
  /\ timers \in Nat
  /\ failing \in BOOLEAN
  /\ pong \in BOOLEAN
  /\ buffer \in Seq(Messages) /\ Len(buffer) <= Capacity
  /\ written \in 0..MaxMessages
  /\ lasting \subseteq Messages
  /\ conn \in 0..(MaxFailures + 1)
  /\ wires \in [Connections -> Seq(Messages)]
  /\ failures \in 0..MaxFailures
  /\ got \subseteq Messages
  /\ twice \subseteq Messages

Init ==
  /\ state = "idle"
  /\ socket = "none"
  /\ timers = 0
  /\ failing = FALSE
  /\ pong = TRUE
  /\ buffer = << >>
  /\ written = 0
  /\ lasting = {}
  /\ conn = 0
  /\ wires = [c \in Connections |-> << >>]
  /\ failures = 0
  /\ got = {}
  /\ twice = {}

-----------------------------------------------------------------------------
(* Connecting *)

\* connect() does nothing in other states, which have no timer (OneAttempt).
Connect ==
  /\ state \in {"idle", "reconnecting"}
  /\ state' = "reconnecting"
  /\ socket' = "opening"
  /\ conn' = conn + 1
  /\ UNCHANGED <<failing, pong, writerVars, wires, failures, serverVars>>

FirstConnect ==
  /\ state = "idle"
  /\ Connect
  /\ UNCHANGED timers

ReconnectTimer ==
  /\ timers > 0
  /\ timers' = timers - 1
  /\ Connect

\* Mutant of Rearmed: an earlier timer goes on running.
RearmedWithoutClearing(running) == running + 1

\* The timers after scheduling a reconnection: one that runs is cleared.
Rearmed(running) == 1

\* handleConnectionError(), for anything but a permanent close code: try again,
\* or give up when the reconnections have gone on for too long.
HandleConnectionError ==
  /\ socket' = "none"
  /\ \/ state' = "reconnecting" /\ failing' = TRUE /\ timers' = Rearmed(timers)
     \/ failing /\ state' = "closed" /\ UNCHANGED <<failing, timers>>
  /\ UNCHANGED pong

Fail ==
  /\ failures < MaxFailures
  /\ failures' = failures + 1

\* Mutant of Open: only what was written last is sent again.
OpenSendingLast ==
  /\ socket = "opening"
  /\ socket' = "open"
  /\ state' = "connected"
  /\ failing' = FALSE
  /\ pong' = TRUE
  /\ wires' = [wires EXCEPT ![conn] = IF buffer = << >> THEN << >> ELSE <<Last(buffer)>>]
  /\ UNCHANGED <<timers, writerVars, conn, failures, serverVars>>

\* Mutant of Open: nothing is sent again.
OpenWithoutReplay ==
  /\ socket = "opening"
  /\ socket' = "open"
  /\ state' = "connected"
  /\ failing' = FALSE
  /\ pong' = TRUE
  /\ UNCHANGED <<timers, writerVars, conn, wires, failures, serverVars>>

\* The connection opens: the budget for reconnections is reset, and the whole
\* buffer goes out.
Open ==
  /\ socket = "opening"
  /\ socket' = "open"
  /\ state' = "connected"
  /\ failing' = FALSE
  /\ pong' = TRUE
  /\ wires' = [wires EXCEPT ![conn] = buffer]
  /\ UNCHANGED <<timers, writerVars, conn, failures, serverVars>>

\* The same, with a send that throws: sendLine() and the replay both handle it,
\* one after the other, and the time that takes exhausts no budget.
OpenAndFail ==
  /\ socket = "opening"
  /\ Fail
  /\ \E n \in 0..(Len(buffer) - 1) : wires' = [wires EXCEPT ![conn] = SubSeq(buffer, 1, n)]
  /\ socket' = "none"
  /\ state' = "reconnecting"
  /\ failing' = TRUE
  /\ pong' = TRUE
  /\ timers' = Rearmed(Rearmed(timers))
  /\ UNCHANGED <<writerVars, conn, serverVars>>

-----------------------------------------------------------------------------
(* Writing *)

\* Mutant of Buffered: one message more than the capacity is kept.
BufferedOneMore(n) ==
  IF Len(buffer) > Capacity THEN Append(Tail(buffer), n) ELSE Append(buffer, n)

\* CircularBuffer.add(): a full buffer forgets its oldest message.
Buffered(n) ==
  IF Len(buffer) = Capacity THEN Append(Tail(buffer), n) ELSE Append(buffer, n)

\* Only a message with a uuid is buffered.  What is sent on a dead connection
\* reaches nobody.
Write(hasUuid) ==
  /\ written < MaxMessages
  /\ written' = written + 1
  /\ buffer' = IF hasUuid THEN Buffered(written + 1) ELSE buffer
  /\ lasting' = IF hasUuid THEN lasting \union {written + 1} ELSE lasting
  /\ \/ /\ wires' = IF state = "connected" /\ socket = "open"
                      THEN [wires EXCEPT ![conn] = Append(@, written + 1)] ELSE wires
        /\ UNCHANGED <<linkVars, failures>>
     \/ /\ state = "connected"
        /\ Fail
        /\ HandleConnectionError
        /\ UNCHANGED wires
  /\ UNCHANGED <<conn, serverVars>>

-----------------------------------------------------------------------------
(* Losing a connection *)

\* It dies, and nobody says so.
Die ==
  /\ socket = "open"
  /\ Fail
  /\ socket' = "dead"
  /\ UNCHANGED <<state, timers, failing, pong, writerVars, conn, wires, serverVars>>

\* A close event, of a dead connection or of one that had been good.
CloseEvent ==
  /\ \/ socket = "dead" /\ UNCHANGED failures
     \/ socket \in {"opening", "open"} /\ Fail
  /\ HandleConnectionError
  /\ UNCHANGED <<writerVars, conn, wires, serverVars>>

\* A close code that says the session is over: no reconnection, end of input.
PermanentClose ==
  /\ socket # "none"
  /\ Fail
  /\ socket' = "none"
  /\ state' = "closed"
  /\ UNCHANGED <<timers, failing, pong, writerVars, conn, wires, serverVars>>

Ping ==
  /\ state = "connected"
  /\ pong
  /\ pong' = FALSE
  /\ UNCHANGED <<state, socket, timers, failing, writerVars, conn, wires, failures, serverVars>>

Pong ==
  /\ socket = "open"
  /\ ~pong
  /\ pong' = TRUE
  /\ UNCHANGED <<state, socket, timers, failing, writerVars, conn, wires, failures, serverVars>>

\* No pong since the last ping, or the process was suspended since: the
\* connection is taken for dead, which it may not be.
PingTimeout ==
  /\ state = "connected"
  /\ \/ ~pong /\ socket = "dead" /\ UNCHANGED failures
     \/ Fail
  /\ HandleConnectionError
  /\ UNCHANGED <<writerVars, conn, wires, serverVars>>

Close ==
  /\ state' = "closing"
  /\ socket' = "none"
  /\ timers' = 0
  /\ state # "closing"
  /\ UNCHANGED <<failing, pong, writerVars, conn, wires, failures, serverVars>>

-----------------------------------------------------------------------------
(* The network and the server *)

Alive(c) == c = conn /\ socket \in {"opening", "open"}

\* handleSdkPayload(): the line goes to the callbacks, whichever it is.
Deliver(c) ==
  /\ wires[c] # << >>
  /\ wires' = [wires EXCEPT ![c] = Tail(@)]
  /\ got' = got \union {Head(wires[c])}
  /\ twice' = IF Head(wires[c]) \in got THEN twice \union {Head(wires[c])} ELSE twice
  /\ UNCHANGED <<linkVars, writerVars, conn, failures>>

Lose(c) ==
  /\ wires[c] # << >>
  /\ ~Alive(c)
  /\ wires' = [wires EXCEPT ![c] = << >>]
  /\ UNCHANGED <<linkVars, writerVars, conn, failures, serverVars>>

-----------------------------------------------------------------------------

Next ==
  \/ FirstConnect \/ ReconnectTimer
  \/ Open \/ OpenAndFail
  \/ \E hasUuid \in BOOLEAN : Write(hasUuid)
  \/ Die \/ CloseEvent \/ PermanentClose
  \/ Ping \/ Pong \/ PingTimeout
  \/ Close
  \/ \E c \in Connections : Deliver(c) \/ Lose(c)

Spec == Init /\ [][Next]_vars

\* Timers fire, a connection that is asked for opens or fails, and what arrives
\* is read.  Nothing is owed by connections that are alive but slow.
Fairness ==
  /\ WF_vars(FirstConnect) /\ WF_vars(ReconnectTimer)
  /\ WF_vars(Open)
  /\ WF_vars(Ping) /\ WF_vars(PingTimeout /\ socket = "dead")
  /\ \A c \in Connections : WF_vars(Deliver(c))

FairSpec == Spec /\ Fairness

-----------------------------------------------------------------------------
(* Properties *)

Elements(s) == {s[i] : i \in DOMAIN s}

\* The server never sees a message before an older one that is still in the
\* buffer: over any number of connections that overlap, the messages with a
\* uuid first arrive in the order they were written and without a gap, but for
\* those the buffer had to forget (write(), onBunOpen and
\* replayBufferedMessages()).
GapsOnlyByOverflow ==
  \A i \in Elements(buffer) : (\E j \in got : i < j) => i \in got

Channel == INSTANCE MessageChannel WITH window <- buffer

\* However connections fail, overlap and replay, the transport is a channel in
\* order whose only loss is what left the buffer, and which repeats nothing but
\* messages with a uuid.  (It includes GapsOnlyByOverflow.)
CarriesMessages == Channel!Spec

\* While the transport is reconnecting, one attempt is under way, and never
\* two: a timer or a socket being opened.  In no other state does a timer run
\* (the replay and sendLine() both handle a failed send; "Clear any existing
\* reconnection timer to avoid duplicates").
OneAttempt ==
  /\ timers <= 1
  /\ timers = 1 => state = "reconnecting" /\ socket = "none"
  /\ state = "reconnecting" => timers = 1 \/ socket = "opening"

\* A buffered message arrives in the end, whatever connections are lost on the
\* way, unless it is forgotten or the transport closes.
BufferedArrives ==
  \A n \in Messages :
    n \in Elements(buffer) ~>
      (n \in got \/ n \notin Elements(buffer) \/ state \in {"closing", "closed"})

\* WebSocketTransport.ts:204, "replay all buffered messages. The server
\* deduplicates by UUID."  handleSdkPayload() does not: after a reconnection
\* the callbacks get messages, results among them, a second time.
NoMessageTwice == twice = {}
=============================================================================
