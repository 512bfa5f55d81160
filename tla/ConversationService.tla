------------------------- MODULE ConversationService -------------------------
(***************************************************************************)
(* One session id of src/server/services/conversationService.ts: the map   *)
(* from the id to its current session, the CLI processes started for it,   *)
(* and their socket connections back to the server.                        *)
(*                                                                         *)
(* Every handler runs to its next await without interruption; the awaits   *)
(* of startSession() are its program counter here, and those of the exit   *)
(* handler the state `exit` of the process.  Sessions are numbered in the  *)
(* order they are spawned, a session object and its process having the     *)
(* same number: the map is asked by id, so whatever a handler finds after  *)
(* an await may belong to a later session than the one it began with.      *)
(*                                                                         *)
(* A connection has two ends.  The CLI's is up or down; the server's is    *)
(* closed by an event of its own, later or never, and until then is a      *)
(* socket like any other: what is written to it is lost, and nobody looks  *)
(* at what send() returns.  The event does not tell which connection of    *)
(* the id it was.                                                          *)
(*                                                                         *)
(* Left out: the contents of messages, output callbacks, permission        *)
(* requests, the captured output, and requestControl(), which polls and    *)
(* sends as the others do.                                                 *)
(***************************************************************************)
EXTENDS Integers, Sequences, FiniteSets

CONSTANTS
  Starters,        \* callers of startSession(): the main loop, the handlers of ws
  MaxSpawns,       \* bound: processes spawned
  MaxMessages,     \* bound: messages accepted by sendSdkMessage()
  MaxConnections   \* bound: connections open at a time, as the server sees it

ASSUME BoundsAssumption == MaxSpawns \in Nat /\ MaxMessages \in Nat /\ MaxConnections \in Nat

Lives == 1..MaxSpawns
None == 0

VARIABLES
  current,     \* sessions.get(id); None if there is no entry
  deleted,     \* the id is in deletedSessions
  spawned,     \* sessions spawned so far
  pc,          \* of each starter: "idle", or the await it is at
  mine,        \* the session a starter has spawned, until it is done
  process,     \* of each life; "killed" until it exits, once sent a signal
  startup,     \* session.startupPending
  exit,        \* how far handleProcessExit() is
  connected,   \* the process has a connection to the server that works
  attached,    \* session.sdkSocket: none, that connection's, or one that is dead
  closing,     \* connections that are over and whose close() has not been called
  outbound,    \* session.pendingOutbound
  flying,      \* messages written to the connection and not read
  got,         \* messages that reached the process
  accepted,    \* messages accepted so far
  thrown,      \* history: lives whose exit startSession() reported
  told         \* history: lives whose exit the callbacks were told of

mapVars == <<current, deleted>>
startVars == <<spawned, pc, mine, startup, thrown>>
exitVars == <<exit, told>>
linkVars == <<connected, attached, closing>>
messageVars == <<outbound, flying, got, accepted>>
wireVars == <<linkVars, messageVars>>
vars == <<mapVars, startVars, process, exitVars, wireVars>>

TypeOK ==
  /\ current \in {None} \union Lives
  /\ deleted \in BOOLEAN
  /\ spawned \in 0..MaxSpawns
  /\ pc \in [Starters -> {"idle", "info", "prepare", "grace", "drain", "metadata"}]
  /\ mine \in [Starters -> {None} \union Lives]
  /\ process \in [Lives -> {"none", "running", "killed", "exited"}]
  /\ startup \in [Lives -> BOOLEAN]
  /\ exit \in [Lives -> {"unseen", "draining", "handled"}]
  /\ connected \in [Lives -> BOOLEAN]
  /\ attached \in [Lives -> {"none", "live", "dead"}]
  /\ closing \in Nat
  /\ outbound \in [Lives -> Seq(1..MaxMessages)]
  /\ flying \in [Lives -> Seq(1..MaxMessages)]
  /\ got \in [Lives -> Seq(1..MaxMessages)]
  /\ accepted \in 0..MaxMessages
  /\ thrown \subseteq Lives
  /\ told \subseteq Lives

Init ==
  /\ current = None
  /\ deleted = FALSE
  /\ spawned = 0
  /\ pc = [s \in Starters |-> "idle"]
  /\ mine = [s \in Starters |-> None]
  /\ process = [g \in Lives |-> "none"]
  /\ startup = [g \in Lives |-> FALSE]
  /\ exit = [g \in Lives |-> "unseen"]
  /\ connected = [g \in Lives |-> FALSE]
  /\ attached = [g \in Lives |-> "none"]
  /\ closing = 0
  /\ outbound = [g \in Lives |-> << >>]
  /\ flying = [g \in Lives |-> << >>]
  /\ got = [g \in Lives |-> << >>]
  /\ accepted = 0
  /\ thrown = {}
  /\ told = {}

-----------------------------------------------------------------------------
(* startSession() *)

At(s, point) == pc' = [pc EXCEPT ![s] = point]

Leave(s, point) ==
  /\ At(s, point)
  /\ mine' = [mine EXCEPT ![s] = None]

\* What startSession() does on being called: a deleted id is refused, a
\* session that is there is used.
Guarded(s) == At(s, IF deleted \/ current # None THEN "idle" ELSE "info")

StartSession(s) ==
  /\ pc[s] = "idle"
  /\ Guarded(s)
  /\ UNCHANGED <<mapVars, spawned, mine, startup, thrown, process, exitVars, wireVars>>

\* getSessionLaunchInfo() has answered: the deletion is looked at again, the
\* session is not.  An invalid working directory ends the start.
LaunchInfo(s) ==
  /\ pc[s] = "info"
  /\ \/ ~deleted /\ At(s, "prepare")
     \/ At(s, "idle")
  /\ UNCHANGED <<mapVars, spawned, mine, startup, thrown, process, exitVars, wireVars>>

\* The transcript, the workspace and the environment are ready.
Spawn(s) ==
  /\ pc[s] = "prepare"
  /\ spawned < MaxSpawns
  /\ LET g == spawned + 1
     IN  /\ spawned' = g
         /\ current' = g
         /\ mine' = [mine EXCEPT ![s] = g]
         /\ process' = [process EXCEPT ![g] = "running"]
         /\ startup' = [startup EXCEPT ![g] = TRUE]
  /\ At(s, "grace")
  /\ UNCHANGED <<deleted, thrown, exitVars, wireVars>>

SpawnFails(s) ==
  /\ pc[s] = "prepare"
  /\ At(s, "idle")
  /\ UNCHANGED <<mapVars, spawned, mine, startup, thrown, process, exitVars, wireVars>>

\* The process has exited, and its exit handler, which is called first, has
\* run; or the grace period is over.  Metadata are written for new sessions.
GraceEnds(s) ==
  /\ pc[s] = "grace"
  /\ LET g == mine[s]
     IN  IF exit[g] # "unseen"
           THEN At(s, "drain") /\ UNCHANGED <<mine, startup>>
           ELSE /\ startup' = [startup EXCEPT ![g] = FALSE]
                /\ Leave(s, "metadata") \/ Leave(s, "idle")
  /\ UNCHANGED <<mapVars, spawned, thrown, process, exitVars, wireVars>>

\* The output of the dead process is drained; the entry of the id goes,
\* whosever it is by now, and startSession() throws.
StartFails(s) ==
  /\ pc[s] = "drain"
  /\ current' = None
  /\ thrown' = thrown \union {mine[s]}
  /\ Leave(s, "idle")
  /\ UNCHANGED <<deleted, spawned, startup, process, exitVars, wireVars>>

\* The same with a stale lock found and removed: startSession() calls itself.
StartRetries(s) ==
  /\ pc[s] = "drain"
  /\ current' = None
  /\ Leave(s, IF deleted THEN "idle" ELSE "info")
  /\ UNCHANGED <<deleted, spawned, startup, thrown, process, exitVars, wireVars>>

\* The metadata are written or not: in either case the session stays.
MetadataDone(s) ==
  /\ pc[s] = "metadata"
  /\ At(s, "idle")
  /\ UNCHANGED <<mapVars, spawned, mine, startup, thrown, process, exitVars, wireVars>>

Starting(s) ==
  \/ LaunchInfo(s) \/ SpawnFails(s) \/ GraceEnds(s)
  \/ StartFails(s) \/ StartRetries(s) \/ MetadataDone(s)

-----------------------------------------------------------------------------
(* Processes and their exit handlers *)

\* The connection of a process, if it has one, is over: what was on its way is
\* lost, and the server does not know.
Drops(g) ==
  /\ connected' = [connected EXCEPT ![g] = FALSE]
  /\ attached' = [attached EXCEPT ![g] = IF @ = "live" THEN "dead" ELSE @]
  /\ closing' = IF connected[g] THEN closing + 1 ELSE closing
  /\ flying' = [flying EXCEPT ![g] = << >>]
  /\ UNCHANGED <<outbound, got, accepted>>

Exit(g) ==
  /\ process[g] \in {"running", "killed"}
  /\ process' = [process EXCEPT ![g] = "exited"]
  /\ Drops(g)
  /\ UNCHANGED <<mapVars, startVars, exitVars>>

\* Mutant of HandleProcessExit: an exit during the startup is not left to it.
HandleEveryExit(g) ==
  /\ process[g] = "exited"
  /\ exit[g] = "unseen"
  /\ exit' = [exit EXCEPT ![g] = IF current = g THEN "draining" ELSE "handled"]
  /\ UNCHANGED <<mapVars, startVars, process, told, wireVars>>

\* handleProcessExit(): an exit during the startup is left to startSession(),
\* that of a process whose session is gone is nobody's business.
HandleProcessExit(g) ==
  /\ process[g] = "exited"
  /\ exit[g] = "unseen"
  /\ exit' = [exit EXCEPT ![g] =
                IF current = g /\ ~startup[g] THEN "draining" ELSE "handled"]
  /\ UNCHANGED <<mapVars, startVars, process, told, wireVars>>

\* Mutant of ExitDrained: only the callbacks are told.
ExitDrainedKeepingEntry(g) ==
  /\ exit[g] = "draining"
  /\ exit' = [exit EXCEPT ![g] = "handled"]
  /\ told' = told \union {g}
  /\ UNCHANGED <<mapVars, startVars, process, wireVars>>

\* Mutant of ExitDrained: the session is looked up again after the drain.
ExitDrainedOfCurrent(g) ==
  /\ exit[g] = "draining"
  /\ exit' = [exit EXCEPT ![g] = "handled"]
  /\ told' = told \union {current}
  /\ current' = None
  /\ UNCHANGED <<deleted, startVars, process, wireVars>>

\* Its output drained: the callbacks of the session are told, and the entry of
\* the id goes, whosever it is by now.
ExitDrained(g) ==
  /\ exit[g] = "draining"
  /\ exit' = [exit EXCEPT ![g] = "handled"]
  /\ told' = told \union {g}
  /\ current' = None
  /\ UNCHANGED <<deleted, startVars, process, wireVars>>

\* stopSession() and stopSessionAndWait().
Stop ==
  /\ current # None
  /\ current' = None
  /\ process' = [process EXCEPT ![current] = IF @ = "running" THEN "killed" ELSE @]

StopSession ==
  /\ Stop
  /\ UNCHANGED <<deleted, startVars, exitVars, wireVars>>

MarkSessionDeleted ==
  /\ ~deleted
  /\ deleted' = TRUE
  /\ Stop \/ (current = None /\ UNCHANGED <<current, process>>)
  /\ UNCHANGED <<startVars, exitVars, wireVars>>

\* The files of the session could not be deleted.
UnmarkSessionDeleted ==
  /\ deleted
  /\ deleted' = FALSE
  /\ UNCHANGED <<current, startVars, process, exitVars, wireVars>>

-----------------------------------------------------------------------------
(* The wire *)

Open == closing + Cardinality({g \in Lives : connected[g]})

\* Mutant of Connect: what waits for the socket is forgotten.
ConnectWithoutFlush(g) ==
  /\ process[g] = "running"
  /\ ~connected[g]
  /\ current = g
  /\ Open < MaxConnections
  /\ connected' = [connected EXCEPT ![g] = TRUE]
  /\ attached' = [attached EXCEPT ![g] = "live"]
  /\ UNCHANGED <<mapVars, startVars, process, exitVars, closing, messageVars>>

\* A CLI connects, or connects again: only the token of the current session
\* is let in, and is sent what has been waiting.  A connection it had before
\* is not closed, only forgotten.
Connect(g) ==
  /\ process[g] = "running"
  /\ ~connected[g]
  /\ current = g
  /\ Open < MaxConnections
  /\ connected' = [connected EXCEPT ![g] = TRUE]
  /\ attached' = [attached EXCEPT ![g] = "live"]
  /\ flying' = [flying EXCEPT ![g] = outbound[g]]
  /\ outbound' = [outbound EXCEPT ![g] = << >>]
  /\ UNCHANGED <<mapVars, startVars, process, exitVars, closing, got, accepted>>

\* A CLI with another token is turned away: its connection closes, too.
Reject(g) ==
  /\ process[g] \in {"running", "killed"}
  /\ ~connected[g]
  /\ current # g
  /\ Open < MaxConnections
  /\ closing' = closing + 1
  /\ UNCHANGED <<mapVars, startVars, process, exitVars, connected, attached, messageVars>>

\* The connection breaks.
Break(g) ==
  /\ connected[g]
  /\ Drops(g)
  /\ UNCHANGED <<mapVars, startVars, process, exitVars>>

\* close() of a connection: detachSdkConnection() takes the socket of the
\* current session, whosever connection it was.
Disconnect ==
  /\ closing > 0
  /\ closing' = closing - 1
  /\ attached' = IF current = None THEN attached ELSE [attached EXCEPT ![current] = "none"]
  /\ UNCHANGED <<mapVars, startVars, process, exitVars, connected, messageVars>>

Receive(g) ==
  /\ flying[g] # << >>
  /\ got' = [got EXCEPT ![g] = Append(@, Head(flying[g]))]
  /\ flying' = [flying EXCEPT ![g] = Tail(@)]
  /\ UNCHANGED <<mapVars, startVars, process, exitVars, linkVars, outbound, accepted>>

\* sendSdkMessage(): a message is accepted only if there is a session, and then
\* in any case.  What is written to a dead socket is lost.
SendSdkMessage ==
  /\ current # None
  /\ accepted < MaxMessages
  /\ accepted' = accepted + 1
  /\ \/ /\ attached[current] = "none"
        /\ outbound' = [outbound EXCEPT ![current] = Append(@, accepted')]
        /\ UNCHANGED flying
     \/ /\ attached[current] = "live"
        /\ flying' = [flying EXCEPT ![current] = Append(@, accepted')]
        /\ UNCHANGED outbound
     \/ /\ attached[current] = "dead"
        /\ UNCHANGED <<outbound, flying>>
  /\ UNCHANGED <<mapVars, startVars, process, exitVars, linkVars, got>>

-----------------------------------------------------------------------------

Life(g) ==
  \/ Exit(g) \/ HandleProcessExit(g) \/ ExitDrained(g)
  \/ Connect(g) \/ Reject(g) \/ Break(g) \/ Receive(g)

Next ==
  \/ \E s \in Starters : StartSession(s) \/ Spawn(s) \/ Starting(s)
  \/ \E g \in Lives : Life(g)
  \/ StopSession
  \/ MarkSessionDeleted
  \/ UnmarkSessionDeleted
  \/ Disconnect
  \/ SendSdkMessage

Spec == Init /\ [][Next]_vars

\* Awaits come back: startSession() goes on, and an exit is handled.
Fairness ==
  /\ \A s \in Starters : WF_vars(Spawn(s) \/ Starting(s))
  /\ \A g \in Lives : WF_vars(HandleProcessExit(g)) /\ WF_vars(ExitDrained(g))

FairSpec == Spec /\ Fairness

-----------------------------------------------------------------------------
(* Properties *)

\* The exit of a process is reported in one way: startSession() throws, or the
\* callbacks are told.  The two handlers of an exit never both act on it,
\* wherever in the startup it falls.
ReportedOnce == thrown \intersect told = {}

\* What a process got, what is on its way and what waits for it is in the order
\* it was accepted, across connections that come, go and come again.
MessagesInOrder ==
  \A g \in Lives :
    LET all == got[g] \o flying[g] \o outbound[g]
    IN  \A i, j \in DOMAIN all : i < j => all[i] < all[j]

\* Starts and exits that overlap, sockets that come and go, entries removed for
\* another and connections closed for another: all of it keeps what SessionPort
\* promises.  A message reaches the life it was accepted for only, once and in
\* order; what waits is lost with its life only, and what was written only by a
\* connection that breaks, or has broken without the server's notice; a life's
\* end is reported once, and only after it (conversationService.ts:347,
\* :664-686, :925-939, :950).
Port == INSTANCE SessionPort WITH
          born <- spawned,
          open <- current,
          gone <- {g \in Lives : process[g] = "exited"},
          reported <- thrown \union told,
          cut <- {g \in Lives : attached[g] = "dead"},
          waiting <- outbound
ServesSession == Port!Spec

\* A dead session does not stay in the map, where it would be used for ever:
\* either the startup or the exit handler removes it, or it is replaced.
DeadSessionLeaves ==
  \A g \in Lives : current = g /\ process[g] = "exited" ~> current # g

\* conversations.test.ts:52, "should block startup after a session is deleted
\* during prewarm", and the message of the error, "Session was deleted before
\* startup completed".  The last look at the deletion is before the transcript
\* is cleared, the workspace prepared and the environment built.
DeletedStaysDown == deleted => current = None
=============================================================================
