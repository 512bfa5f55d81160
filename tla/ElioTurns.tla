------------------------------ MODULE ElioTurns ------------------------------
(***************************************************************************)
(* Elio's loop and its CLI together: MainLoop writes interrupts and        *)
(* worldviews on the wire TurnLoop reads, and onOutput() gets the results  *)
(* TurnLoop emits, one by one and in order (conversationService passes     *)
(* both on unchanged).                                                     *)
(*                                                                         *)
(* MainLoop knows of the CLI's turn only what it infers: `processing` for  *)
(* "a turn is on", `expectStaleResult` for "the next result is that of the *)
(* turn I interrupted".  Results carry no name of the turn they end.       *)
(*                                                                         *)
(* This module adds the CLI to MainLoop's own.  One life of one CLI        *)
(* process, started by MainLoop, is modelled: no session is lost, started  *)
(* elsewhere or shut down, its one connection does not break, and the CLI  *)
(* has no background tasks.                                                *)
(***************************************************************************)
EXTENDS MainLoop

CONSTANTS MaxPrompts, MaxWire   \* of TurnLoop

ASSUME CliAssumption == MaxPrompts \in Nat /\ MaxWire \in Nat

VARIABLES
  wire, sent, inputClosed, queued, notices, phase, turn, taken, aborted, seen,
  task, held, output, dropped, late,
  delivered   \* results read from the CLI's output and given to onOutput()

Cli == INSTANCE TurnLoop WITH Agents <- {}, Shells <- {}

cliVars == <<wire, sent, inputClosed, queued, notices, phase, turn, taken, aborted,
             seen, task, held, output, dropped, late>>
elioVars == <<vars, cliVars, delivered>>

ElioInit == Init /\ Cli!Init /\ delivered = 0

-----------------------------------------------------------------------------
(* What a slice writes: an interrupt when a turn is believed to be on, then  *)
(* the worldview, numbered.                                                  *)

\* Mutant of Interrupts: the worldview is sent into the running turn.
NoInterrupts == << >>

Interrupts == IF processing THEN <<Cli!Interrupt>> ELSE << >>

WriteSlice ==
  /\ sent < MaxPrompts
  /\ Len(wire) < MaxWire
  /\ sent' = sent + 1
  /\ wire' = wire \o Append(Interrupts, sent + 1)
  /\ UNCHANGED <<inputClosed, queued, notices, phase, turn, taken, aborted, seen,
                 task, held, output, dropped, late, delivered>>

PresentSlice ==
  /\ StepWithSession \/ (BootstrapReturns /\ session)
  /\ WriteSlice

\* The other steps of MainLoop write nothing.
LoopOnly ==
  /\ \/ \E p \in Percepts : Push(p)
     \/ StepWhileStarting \/ StepBootstraps \/ Spawn \/ Connect \/ Timers
  /\ UNCHANGED <<cliVars, delivered>>

\* A bootstrap (a spawn and a grace period of three seconds) takes no tick, nor
\* do the first connection and the pipes: the reader is not held up by run(), the
\* server by nothing.
TimePasses ==
  /\ boot = "none"
  /\ wire = << >>
  /\ delivered = Len(output)
  /\ Tick
  /\ UNCHANGED <<cliVars, delivered>>

Deliver ==
  /\ delivered < Len(output)
  /\ delivered' = delivered + 1
  /\ OnOutput
  /\ UNCHANGED cliVars

\* What waits for the CLI to connect is on the wire and not read.
CliStep ==
  /\ (socket = "open" /\ Cli!Reader) \/ Cli!Run
  /\ UNCHANGED <<vars, delivered>>

ElioNext == PresentSlice \/ LoopOnly \/ TimePasses \/ Deliver \/ CliStep

ElioSpec == ElioInit /\ [][ElioNext]_elioVars

-----------------------------------------------------------------------------
(* The assumption under which the two views agree: within one tick the CLI   *)
(* starts the turn a worldview calls for, and winds up an interrupted turn   *)
(* and goes on.  A turn that is not interrupted may take as long as it likes. *)

Settled ==
  /\ wire = << >>
  /\ delivered = Len(output)
  /\ queued = {}
  /\ phase \in {"idle", "waiting"} \/ (phase = "turn" /\ ~aborted)

PromptNext == PresentSlice \/ LoopOnly \/ (Settled /\ TimePasses) \/ Deliver \/ CliStep

PromptSpec == ElioInit /\ [][PromptNext]_elioVars

-----------------------------------------------------------------------------
(* Properties *)

\* MainLoop.ts:37, "Elio is mid-turn (worldview sent, no result yet)": whenever
\* nothing is under way between the two, MainLoop believes that a turn is on
\* exactly when one is, and waits for no stale result.
ViewsAgree ==
  Settled => (processing <=> phase = "turn") /\ ~expectStaleResult

\* MainLoop.ts:42-44: "absorbs that first (stale) result so it doesn't
\* prematurely clear `processing`".  Only a result that answers the newest
\* worldview clears `processing`.  So it is with a prompt CLI; not with an
\* interrupted turn that takes longer than StaleTimeout to wind up.
StaleResultAbsorbed ==
  [][processing /\ ~processing' /\ delivered' = delivered + 1
       => sent \in output[delivered'].prompts]_elioVars
=============================================================================
