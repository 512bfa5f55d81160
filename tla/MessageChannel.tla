---------------------------- MODULE MessageChannel ----------------------------
(***************************************************************************)
(* What the way from a CLI to the server promises.  Lasting messages (those *)
(* with a uuid) are kept in a window of the newest ones.  The server gets  *)
(* no message before an older one that is in the window; so lasting        *)
(* messages first come in the order they were written, and none is missed  *)
(* but those that left the window.  A message may come again, but only a   *)
(* lasting one: a request to be asked for a permission comes once or never. *)
(*                                                                         *)
(* Connections, pings, replays and lines that are still on an old          *)
(* connection: that is WebSocketTransport, which implements this.          *)
(***************************************************************************)
EXTENDS Integers, Sequences

CONSTANT Capacity   \* of the window

VARIABLES
  written,   \* messages written: they are the numbers up to it
  lasting,   \* those that are kept
  window,    \* the newest of these
  got,       \* messages the server has got
  twice      \* those it has got more than once

writerVars == <<written, lasting, window>>
readerVars == <<got, twice>>
channelVars == <<writerVars, readerVars>>

Init ==
  /\ written = 0
  /\ lasting = {}
  /\ window = << >>
  /\ got = {}
  /\ twice = {}

WritePassing ==
  /\ written' = written + 1
  /\ UNCHANGED <<lasting, window, readerVars>>

WriteLasting ==
  /\ written' = written + 1
  /\ lasting' = lasting \union {written'}
  /\ window' = Append(IF Len(window) = Capacity THEN Tail(window) ELSE window, written')
  /\ UNCHANGED readerVars

\* Nothing older is missing that is in the window.
NoneMissing(n) == \A i \in DOMAIN window : window[i] < n => window[i] \in got

Get(n) ==
  /\ NoneMissing(n)
  /\ n \notin got
  /\ got' = got \union {n}
  /\ UNCHANGED <<writerVars, twice>>

GetAgain(n) ==
  /\ n \in got \intersect lasting
  /\ twice' = twice \union {n}
  /\ UNCHANGED <<writerVars, got>>

Next ==
  \/ WritePassing
  \/ WriteLasting
  \/ \E n \in 1..written : Get(n) \/ GetAgain(n)

Spec == Init /\ [][Next]_channelVars
=============================================================================
