----------------------------- MODULE TurnDriver -----------------------------
(***************************************************************************)
(* One opp run whose turns execute in detached drive_turn processes: the   *)
(* subprocess path of apps/sessions (turn_driver.py, drive_turn, the       *)
(* heartbeat of cli_backend.py), and the deploy that kills the processes   *)
(* and then posts one resume sweep.                                        *)
(*                                                                         *)
(* Every assistant turn 1..n has at most one driver process.  A driver is  *)
(* a state machine over the awaits of drive_assistant_turn; in between,    *)
(* resumes, the sweep, kills and interrupts may happen.                    *)
(***************************************************************************)
EXTENDS Naturals, SessionRows

CONSTANTS
  Requests,     \* web requests in flight at the same time
  MaxTurns,     \* bound on assistant turns of the run
  MaxFaults,    \* bound on kills, interrupts, failures and deploys
  Clicks,       \* may somebody click Resume on a run that is still driven
  MissedBeats,  \* may a live driver go 90 s without a beat (slow start, DB blips)
  SetupFails,   \* may what precedes the try block raise
  TailFails     \* may the query that follows _mark_complete raise

ASSUME TurnDriverAssumption ==
  /\ MaxTurns \in Nat \ {0} /\ MaxFaults \in Nat
  /\ {Clicks, MissedBeats, SetupFails, TailFails} \subseteq BOOLEAN

VARIABLES
  n,        \* assistant turns created so far
  status,   \* Message.status of turn m
  detail,   \* Message.error_detail of turn m, by prefix
  aged,     \* turns completed before the resume window
  beat,     \* Session.driver_heartbeat_at
  drv,      \* the driver process of turn m
  req,      \* web request r: its next step, and the turn it launches
  faults

rowVars == <<n, status, detail, aged, beat>>
vars    == <<rowVars, drv, req, faults>>

Turns == 1..MaxTurns

\* launched: process started; loaded: the row was read and is to be driven;
\* streaming: inside the try; tail: terminal_persisted, follow-up work to do;
\* ended by itself, or killed.
DriverStates == {"none", "launched", "loaded", "streaming", "tail", "ended", "killed"}
Live         == {"launched", "loaded", "streaming", "tail"}

Handlers == [pc : {"idle", "resume", "launch"}, msg : 0..MaxTurns]
Idle     == [pc |-> "idle", msg |-> 0]

Fault == faults < MaxFaults /\ faults' = faults + 1

-----------------------------------------------------------------------------
(* Row updates of the driver: filter(pk=...).update(...), unconditional.   *)

MarkStreaming(m) ==
  /\ status' = [status EXCEPT ![m] = "streaming"]
  /\ beat' = "fresh"
  /\ UNCHANGED <<n, detail, aged>>

MarkComplete(m) ==
  /\ status' = [status EXCEPT ![m] = "complete"]
  /\ aged' = aged \ {m}
  /\ UNCHANGED <<n, detail, beat>>

NothingMarked(m, d) == UNCHANGED rowVars

MarkError(m, d) ==
  /\ status' = [status EXCEPT ![m] = "error"]
  /\ detail' = [detail EXCEPT ![m] = d]
  /\ aged' = aged \ {m}
  /\ UNCHANGED <<n, beat>>

Becomes(m, s) == drv' = [drv EXCEPT ![m] = s]

-----------------------------------------------------------------------------
(* Requests.                                                               *)

Launching(r, m) == req' = [req EXCEPT ![r] = [pc |-> "launch", msg |-> m]]

\* seed_run_for_opp: the first turn.  The beacon stays null.
SeedRun(r) ==
  /\ req[r].pc = "idle" /\ n = 0
  /\ n' = 1
  /\ status' = [status EXCEPT ![1] = "pending"]
  /\ Launching(r, 1)
  /\ UNCHANGED <<detail, aged, beat, drv, faults>>

AppendRows(gone) ==
  /\ n \in 1..(MaxTurns - 1)
  /\ n' = n + 1
  /\ status' = [m \in Turns |-> IF m = n + 1 THEN "pending"
                                ELSE IF m \in gone THEN "error"
                                ELSE status[m]]
  /\ detail' = [m \in Turns |-> IF m \in gone THEN "superseded" ELSE detail[m]]
  /\ aged' = aged \ gone

AppendUnstamped == AppendRows(Retired(status, detail)) /\ UNCHANGED beat

\* resume_session_run: retire what is unfinished or cancelled, append a turn,
\* stamp the beacon.
AppendResumeTurn == AppendRows(Retired(status, detail)) /\ beat' = "fresh"

\* POST /{slug}/resume, whether or not the run is interrupted.
ClickResume(r) ==
  /\ Clicks /\ req[r].pc = "idle"
  /\ AppendResumeTurn
  /\ Launching(r, n + 1)
  /\ UNCHANGED <<drv, faults>>

\* resume_interrupted: posted once by the deploy workflow when the rollout is
\* complete, and by an operator at any time.
SweepSelect(r) ==
  /\ req[r].pc = "idle" /\ n > 0
  /\ req' = IF Resumable(status, detail, aged, beat)
            THEN [req EXCEPT ![r].pc = "resume"] ELSE req
  /\ UNCHANGED <<rowVars, drv, faults>>

SweepResume(r) ==
  /\ req[r].pc = "resume"
  /\ AppendResumeTurn
  /\ Launching(r, n + 1)
  /\ UNCHANGED <<drv, faults>>

\* The bound MaxTurns: a sweep with no turn left to append is not followed.
SweepOutOfTurns(r) ==
  /\ req[r].pc = "resume" /\ n = MaxTurns
  /\ req' = [req EXCEPT ![r] = Idle]
  /\ UNCHANGED <<rowVars, drv, faults>>

\* start_turn_subprocess.
Launch(r) ==
  /\ req[r].pc = "launch"
  /\ Becomes(req[r].msg, "launched")
  /\ req' = [req EXCEPT ![r] = Idle]
  /\ UNCHANGED <<rowVars, faults>>

\* The request is killed, or Popen raises: no process, and nobody is told.
Killed(r) ==
  /\ req[r].pc # "idle"
  /\ Fault
  /\ req' = [req EXCEPT ![r] = Idle]
  /\ UNCHANGED <<rowVars, drv>>

-----------------------------------------------------------------------------
(* drive_assistant_turn.                                                   *)

\* A row that is already driven, finished or superseded is left alone.
Load(m) ==
  /\ drv[m] = "launched"
  /\ Becomes(m, IF status[m] = "pending" THEN "loaded" ELSE "ended")
  /\ UNCHANGED <<rowVars, req, faults>>

\* _load_last_user_text or the backend selection raises, outside the try.
SetupRaises(m) ==
  /\ SetupFails /\ drv[m] = "loaded"
  /\ Fault
  /\ Becomes(m, "ended")
  /\ UNCHANGED <<rowVars, req>>

Start(m) ==
  /\ drv[m] = "loaded"
  /\ MarkStreaming(m)
  /\ Becomes(m, "streaming")
  /\ UNCHANGED <<req, faults>>

\* The heartbeat task beside the claude subprocess.
Heartbeat(m) ==
  /\ drv[m] = "streaming" /\ beat # "fresh"
  /\ beat' = "fresh"
  /\ UNCHANGED <<n, status, detail, aged, drv, req, faults>>

\* DONE, or the stream exhausted without a terminal event.
Done(m) ==
  /\ drv[m] = "streaming"
  /\ MarkComplete(m)
  /\ Becomes(m, "tail")
  /\ UNCHANGED <<req, faults>>

\* An ERROR event, or an exception out of the backend.
Fail(m) ==
  /\ drv[m] = "streaming"
  /\ Fault
  /\ MarkError(m, "failed")
  /\ Becomes(m, "ended")
  /\ UNCHANGED <<req>>

\* After _mark_complete: auto-title, opp.updated, cost.  Their failures are
\* swallowed, but for the query of _collect_tool_uses_for_turn.
FollowUp(m) ==
  /\ drv[m] = "tail"
  /\ \/ UNCHANGED <<rowVars, faults>>
     \/ TailFails /\ Fault /\ MarkError(m, "failed")
  /\ Becomes(m, "ended")
  /\ UNCHANGED <<req>>

\* CancelledError: an interrupt, or asyncio.run shutting down.
CancelAlways(m) == MarkError(m, "cancelled")

CancelRow(m) ==
  IF drv[m] = "tail" THEN UNCHANGED rowVars ELSE MarkError(m, "cancelled")

Cancel(m) ==
  /\ drv[m] \in {"streaming", "tail"}
  /\ Fault
  /\ CancelRow(m)
  /\ Becomes(m, "ended")
  /\ UNCHANGED <<req>>

\* SIGKILL, or a SIGTERM (nothing handles it): the process is gone.
Kill(m) ==
  /\ drv[m] \in Live
  /\ Fault
  /\ Becomes(m, "killed")
  /\ UNCHANGED <<rowVars, req>>

-----------------------------------------------------------------------------
(* The deploy and the clock.                                               *)

\* The old tasks are stopped, with every process in them.
Rollout ==
  /\ Fault
  /\ drv' = [m \in Turns |-> IF drv[m] \in Live THEN "killed" ELSE drv[m]]
  /\ req' = [r \in Requests |-> Idle]
  /\ UNCHANGED rowVars

\* A driver beats three times in the 90 s grace, and reaches its first beat
\* within it, unless MissedBeats.
BeatAges ==
  /\ beat \in {"fresh", "stale"}
  /\ beat = "fresh" /\ ~MissedBeats =>
       /\ \A m \in Turns : drv[m] \notin {"launched", "loaded", "streaming"}
       /\ \A r \in Requests : req[r].pc # "launch"
  /\ beat' = Older(beat)
  /\ UNCHANGED <<n, status, detail, aged, drv, req, faults>>

CompletionAges(m) ==
  /\ status[m] = "error" /\ detail[m] = "cancelled" /\ m \notin aged
  /\ aged' = aged \cup {m}
  /\ UNCHANGED <<n, status, detail, beat, drv, req, faults>>

\* Nothing runs and nobody asks for anything.
Rest ==
  /\ n > 0 /\ \A m \in Turns : drv[m] \notin Live
  /\ \A r \in Requests : req[r] = Idle
  /\ UNCHANGED vars

-----------------------------------------------------------------------------

Init ==
  /\ n = 0
  /\ status = [m \in Turns |-> "none"]
  /\ detail = [m \in Turns |-> "blank"]
  /\ aged = {} /\ beat = "null"
  /\ drv = [m \in Turns |-> "none"]
  /\ req = [r \in Requests |-> Idle]
  /\ faults = 0

RequestStep(r) ==
  \/ SeedRun(r) \/ ClickResume(r) \/ SweepSelect(r) \/ SweepResume(r)
  \/ SweepOutOfTurns(r) \/ Launch(r) \/ Killed(r)

\* What a driver does by itself.
DriverStep(m) == Load(m) \/ SetupRaises(m) \/ Start(m) \/ Done(m) \/ Fail(m) \/ FollowUp(m)

Next ==
  \/ \E r \in Requests : RequestStep(r)
  \/ \E m \in Turns : \/ DriverStep(m) \/ Heartbeat(m) \/ Cancel(m) \/ Kill(m)
                      \/ CompletionAges(m)
  \/ Rollout \/ BeatAges \/ Rest

Spec == Init /\ [][Next]_vars

\* claude answers or fails in the end, so a driver that is not killed goes on.
FairSpec == Spec /\ \A m \in Turns : WF_vars(DriverStep(m))

-----------------------------------------------------------------------------
(* Properties.                                                             *)

\* Types; exactly the turns 1..n exist, and only they have drivers.
TypeOK ==
  /\ n \in 0..MaxTurns
  /\ status \in [Turns -> Statuses] /\ detail \in [Turns -> Details]
  /\ \A m \in Turns : status[m] # "none" <=> m <= n
  /\ aged \subseteq 1..n /\ beat \in Beats
  /\ drv \in [Turns -> DriverStates]
  /\ \A m \in Turns : drv[m] # "none" => m <= n
  /\ req \in [Requests -> Handlers]
  /\ faults \in 0..MaxFaults

\* resume_interrupted: "no double-spawn race".  Two processes never drive the
\* run at the same time when only the sweep resumes it.
OneDriver ==
  \A a, b \in Turns : drv[a] \in Live /\ drv[b] \in Live => a = b

\* resume_session_run retires the dead turns so that the resume scope stops
\* matching them: only the newest turn is ever unfinished.
OlderTurnsAreOver ==
  \A m \in Turns : m < n => status[m] \notin NonTerminal

\* sessions/models.py: a row is never edited after status "complete"; nothing
\* that follows a finished turn turns it into an error.
CompleteIsFinal ==
  [][\A m \in Turns : status[m] = "complete" => status'[m] = "complete"]_vars

\* Session.interrupted lists runs that "should still be running" but are not:
\* never one a process is driving, unless its first beat is still to come.
InterruptedMeansDead ==
  Interrupted(status, beat) /\ beat # "null" =>
    \A m \in Turns : drv[m] \notin {"launched", "loaded", "streaming"}

\* A driver that was started settles its row, unless it is killed.
Settles ==
  \A m \in Turns : drv[m] \in Live ~> (drv[m] = "killed" \/ status[m] \in {"complete", "error"})

=============================================================================
