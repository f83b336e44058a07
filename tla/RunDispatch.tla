---------------------------- MODULE RunDispatch ----------------------------
(***************************************************************************)
(* One opp run whose turns execute on canopy: apps/canopy/run_dispatch.py, *)
(* apps/canopy/run_state.py and the resume half of apps/sessions/api.py.   *)
(*                                                                         *)
(* The run is one ace-web Session.  Its assistant turns are numbered       *)
(* 1..MaxTurns in creation order.  A canopy session is named by the turn   *)
(* whose dispatch created it, and a canopy turn by the assistant turn it   *)
(* executes (the send is keyed by client_id acerun:<pk>, so there is at    *)
(* most one).  Every HTTP request of ace-web that touches the run is a     *)
(* member of Requests and moves in the steps the code takes between its    *)
(* database statements and its outbound calls; requests interleave freely. *)
(***************************************************************************)
EXTENDS Naturals, SessionRows

CONSTANTS
  People,      \* who may click Resume; all of them canopy users (preflight)
  Owner,       \* the run's owner
  Nobody,      \* a blank canopy_session_actor
  Requests,    \* request handlers in flight at the same time
  MaxTurns,    \* bound on assistant turns of the run
  MaxFaults,   \* bound on failed canopy calls and killed requests
  StopFails    \* may a stop call fail (the code logs it and goes on)

ASSUME RunDispatchAssumption ==
  /\ Owner \in People
  /\ Nobody \notin People
  /\ MaxTurns \in Nat \ {0}
  /\ MaxFaults \in Nat
  /\ StopFails \in BOOLEAN

VARIABLES
  n,           \* assistant turns created so far; n is the latest one
  status,      \* Message.status of turn m
  detail,      \* Message.error_detail of turn m, by prefix
  who,         \* sender_user of turn m's command: whose authority it runs with
  tid,         \* turns with a recorded Message.canopy_turn_id
  aged,        \* turns completed before the resume window
  beat,        \* Session.driver_heartbeat_at
  csid,        \* Session.canopy_session_id, 0 when blank
  cactor,      \* Session.canopy_session_actor, Nobody when blank
  holder,      \* canopy: the creator of canopy session c, Nobody if none
  turn,        \* canopy: status of the turn of assistant turn m
  tsess,       \* canopy: the session that turn was sent into
  req,         \* the local state of each request handler
  faults       \* faults that happened so far

rowVars    == <<n, status, detail, who, tid, aged, beat>>
sessVars   == <<csid, cactor>>
canopyVars == <<holder, turn, tsess>>
vars       == <<rowVars, sessVars, canopyVars, req, faults>>

Turns == 1..MaxTurns

PCs   == {"idle", "look", "read", "again", "write", "resume",
          "load", "stop", "create", "send", "record"}

\* Turn.status in canopy; claimed, running and needs_human are "running".
AliveTurn    == {"queued", "running"}
TurnError    == {"failed", "lost", "missed", "cancelled"}
TurnStatuses == {"none", "done"} \cup AliveTurn \cup TurnError

-----------------------------------------------------------------------------
(* Steps of a request and shared effects.                                  *)

\* What a handler keeps: its next step, whether it is the sweep, the assistant
\* turn it dispatches or looked up, its copy of canopy_session_id, whether its
\* actor holds that session, and the turn status canopy answered.
Handlers == [pc : PCs, sweep : BOOLEAN, msg : 0..MaxTurns, loc : 0..MaxTurns,
             mine : BOOLEAN, seen : TurnStatuses]

Idle == [pc |-> "idle", sweep |-> FALSE, msg |-> 0, loc |-> 0,
         mine |-> FALSE, seen |-> "none"]

At(r, step)     == req[r].pc = step
Goto(r, to)     == req' = [req EXCEPT ![r].pc = to]
End(r)          == req' = [req EXCEPT ![r] = Idle]
Dispatching(r, m) == req' = [req EXCEPT ![r] = [Idle EXCEPT !.pc = "load", !.msg = m]]

Fault == faults < MaxFaults /\ faults' = faults + 1

\* resume_session_run's transaction: retire what is dead, append the command
\* and a pending assistant turn, stamp the beacon.  p is recorded as sender.
AppendResumeTurn(p) ==
  /\ n \in 1..(MaxTurns - 1)
  /\ n' = n + 1
  /\ LET gone == Retired(status, detail) IN
     /\ status' = [m \in Turns |-> IF m = n + 1 THEN "pending"
                                   ELSE IF m \in gone THEN "error"
                                   ELSE status[m]]
     /\ detail' = [m \in Turns |-> IF m \in gone THEN "superseded" ELSE detail[m]]
     /\ aged' = aged \ gone
  /\ who' = [who EXCEPT ![n + 1] = p]
  /\ beat' = "fresh"
  /\ UNCHANGED tid

\* run_dispatch._fail
FailTurn(m) ==
  /\ status' = [status EXCEPT ![m] = "error"]
  /\ detail' = [detail EXCEPT ![m] = "dispatch"]
  /\ aged' = aged \ {m}
  /\ UNCHANGED <<n, who, tid, beat>>

\* Session.canopy_session_actor: blank stands for the owner ...
ActorForgotten(p) == Nobody

RecordedActor(p) == IF p = Owner THEN Nobody ELSE p

\* ... and is read so by _canopy_session_holder.
RowHolder == IF cactor = Nobody THEN Owner ELSE cactor

\* What canopy does with a stop of session c.
NothingStopped(c) == turn

Stopped(c) == [m \in Turns |-> IF tsess[m] = c /\ turn[m] \in AliveTurn
                               THEN "cancelled" ELSE turn[m]]

-----------------------------------------------------------------------------
(* Requests that start a turn.                                             *)

\* seed_run_for_opp: the run's first turn, owned by the person who asked.
SeedRun(r) ==
  /\ At(r, "idle") /\ n = 0
  /\ n' = 1
  /\ status' = [status EXCEPT ![1] = "pending"]
  /\ who' = [who EXCEPT ![1] = Owner]
  /\ Dispatching(r, 1)
  /\ UNCHANGED <<detail, tid, aged, beat, sessVars, canopyVars, faults>>

\* POST /{slug}/resume by p, whatever the state of the run.
ClickResume(r, p) ==
  /\ At(r, "idle")
  /\ AppendResumeTurn(p)
  /\ Dispatching(r, n + 1)
  /\ UNCHANGED <<sessVars, canopyVars, faults>>

\* POST /resume-interrupted: the candidates are materialised first.
SweepSelect(r) ==
  /\ At(r, "idle")
  /\ Resumable(status, detail, aged, beat)
  /\ req' = [req EXCEPT ![r].pc = IF csid # 0 THEN "look" ELSE "resume",
                        ![r].sweep = TRUE]
  /\ UNCHANGED <<rowVars, sessVars, canopyVars, faults>>

\* The sweep resumes a candidate it did not skip, as the run's owner.
SweepResume(r) ==
  /\ At(r, "resume")
  /\ AppendResumeTurn(Owner)
  /\ Dispatching(r, n + 1)
  /\ UNCHANGED <<sessVars, canopyVars, faults>>

\* The bound MaxTurns: a sweep with no turn left to append is not followed.
SweepOutOfTurns(r) ==
  /\ At(r, "resume") /\ n = MaxTurns
  /\ End(r)
  /\ UNCHANGED <<rowVars, sessVars, canopyVars, faults>>

-----------------------------------------------------------------------------
(* dispatch_turn, one step per outbound call or database statement.        *)

\* Which session may be sent into: the actor's own, never merely the run's.
AnySession(r) == csid # 0

OwnSession(r) == csid # 0 /\ RowHolder = who[req[r].msg]

\* The assistant row and its session row are read once, at the start.
Load(r) ==
  /\ At(r, "load")
  /\ req' = [req EXCEPT ![r].pc = IF csid # 0 THEN "stop" ELSE "create",
                        ![r].loc = csid,
                        ![r].mine = OwnSession(r)]
  /\ UNCHANGED <<rowVars, sessVars, canopyVars, faults>>

\* Stop the turns of the run's canopy session, as whoever holds it.  A failed
\* stop is logged and the dispatch goes on.
Stop(r) ==
  /\ At(r, "stop")
  /\ \/ turn' = Stopped(req[r].loc) /\ UNCHANGED faults
     \/ StopFails /\ Fault /\ UNCHANGED turn
  /\ Goto(r, IF req[r].mine THEN "send" ELSE "create")
  /\ UNCHANGED <<rowVars, sessVars, holder, tsess>>

\* A canopy session of the actor's own, recorded on the session row.
Create(r) ==
  LET m == req[r].msg IN
  /\ At(r, "create")
  /\ holder' = [holder EXCEPT ![m] = who[m]]
  /\ csid' = m
  /\ cactor' = RecordedActor(who[m])
  /\ req' = [req EXCEPT ![r].pc = "send", ![r].loc = m]
  /\ UNCHANGED <<rowVars, turn, tsess, faults>>

\* canopy refuses or cannot be reached (act_as before the stop, create_session
\* or send): nothing was sent, and a session created unseen is never used.
CallFails(r) ==
  /\ \E step \in {"stop", "create", "send"} : At(r, step)
  /\ Fault
  /\ FailTurn(req[r].msg)
  /\ End(r)
  /\ UNCHANGED <<sessVars, canopyVars>>

\* canopy enqueues the turn.  The answer may be lost (or come without a
\* turn_id), in which case the dispatcher reports a failure all the same.
Send(r) ==
  LET m == req[r].msg IN
  /\ At(r, "send")
  /\ turn' = [turn EXCEPT ![m] = "queued"]
  /\ tsess' = [tsess EXCEPT ![m] = req[r].loc]
  /\ \/ Goto(r, "record") /\ UNCHANGED <<rowVars, faults>>
     \/ Fault /\ FailTurn(m) /\ End(r)
  /\ UNCHANGED <<sessVars, holder>>

\* The turn id is written on the message, the beacon on the session.
Record(r) ==
  /\ At(r, "record")
  /\ tid' = tid \cup {req[r].msg}
  /\ beat' = "fresh"
  /\ End(r)
  /\ UNCHANGED <<n, status, detail, who, aged, sessVars, canopyVars, faults>>

\* The worker serving r is killed (a deploy), or a call times out with an
\* exception the dispatcher does not catch: the request just ends.
Killed(r) ==
  /\ ~At(r, "idle")
  /\ Fault
  /\ End(r)
  /\ UNCHANGED <<rowVars, sessVars, canopyVars>>

-----------------------------------------------------------------------------
(* reconcile_session: GET /{slug}/execution, the management command, and   *)
(* the sweep's check before it resumes.                                    *)

Reconcile(r) ==
  /\ At(r, "idle") /\ n > 0
  /\ Goto(r, "look")
  /\ UNCHANGED <<rowVars, sessVars, canopyVars, faults>>

\* execution_state picks the newest assistant turn.  Without a recorded turn
\* id the state is not_dispatched or dispatch_failed and nothing is written.
Look(r) ==
  /\ At(r, "look")
  /\ \/ n \in tid /\ req' = [req EXCEPT ![r].pc = "read", ![r].msg = n]
     \/ n \notin tid /\ req[r].sweep /\ Goto(r, "resume")
     \/ n \notin tid /\ ~req[r].sweep /\ End(r)
  /\ UNCHANGED <<rowVars, sessVars, canopyVars, faults>>

\* ... asks canopy for its turn.  Unreachable is "unknown": the reconcile
\* writes nothing and the sweep skips the run.
ReadTurn(r) ==
  /\ At(r, "read")
  /\ \/ /\ req' = [req EXCEPT ![r].pc = "again", ![r].seen = turn[req[r].msg]]
        /\ UNCHANGED faults
     \/ Fault /\ End(r)
  /\ UNCHANGED <<rowVars, sessVars, canopyVars>>

\* What a turn's status makes of the assistant message that ran it.
WrittenOverIsDone(s) == CASE s = "running" -> "streaming"
                          [] s = "queued"  -> "pending"
                          [] OTHER         -> "complete"

WrittenDoneIsLive(s) == CASE s \in {"running", "done"} -> "streaming"
                          [] s = "queued"  -> "pending"
                          [] OTHER         -> "error"

Written(s) == CASE s = "running"   -> "streaming"
                [] s = "queued"    -> "pending"
                [] s = "done"      -> "complete"
                [] s \in TurnError -> "error"

\* _canopy_state_for_sweep: only a run canopy does not own any more.
SweepSparesRunning(s) == s # "running"

SweepGoesOn(s) == s \notin AliveTurn

Reconciled(r) ==
  IF req[r].sweep /\ SweepGoesOn(req[r].seen) THEN Goto(r, "resume") ELSE End(r)

\* ... looks the newest assistant turn up a second time.  A turn that is alive
\* refreshes the beacon and writes only a status that differs.
LookAgain(r) ==
  LET s == req[r].seen IN
  /\ At(r, "again")
  /\ beat' = IF s \in AliveTurn THEN "fresh" ELSE beat
  /\ IF s \in AliveTurn /\ status[n] = Written(s)
     THEN Reconciled(r)
     ELSE req' = [req EXCEPT ![r].pc = "write", ![r].msg = n]
  /\ UNCHANGED <<n, status, detail, who, tid, aged, sessVars, canopyVars, faults>>

\* ... and writes what canopy's status means onto it.
WriteBack(r) ==
  LET m == req[r].msg
      s == req[r].seen IN
  /\ At(r, "write")
  /\ status' = [status EXCEPT ![m] = Written(s)]
  /\ detail' = IF s \in TurnError THEN [detail EXCEPT ![m] = "canopy"] ELSE detail
  /\ aged' = IF s \in AliveTurn THEN aged ELSE aged \ {m}
  /\ Reconciled(r)
  /\ UNCHANGED <<n, who, tid, beat, sessVars, canopyVars, faults>>

-----------------------------------------------------------------------------
(* canopy and the clock.                                                   *)

\* A runner claims a turn; canopy's one_executing_turn_per_session.
Claim(m) ==
  /\ turn[m] = "queued"
  /\ \A k \in Turns : ~(turn[k] = "running" /\ tsess[k] = tsess[m])
  /\ turn' = [turn EXCEPT ![m] = "running"]
  /\ UNCHANGED <<holder, tsess, rowVars, sessVars, req, faults>>

Finish(m) ==
  /\ turn[m] = "running"
  /\ \E s \in {"done", "failed", "lost"} : turn' = [turn EXCEPT ![m] = s]
  /\ UNCHANGED <<holder, tsess, rowVars, sessVars, req, faults>>

\* A queued turn nobody claimed in time.
Miss(m) ==
  /\ turn[m] = "queued"
  /\ turn' = [turn EXCEPT ![m] = "missed"]
  /\ UNCHANGED <<holder, tsess, rowVars, sessVars, req, faults>>

BeatAges ==
  /\ beat \in {"fresh", "stale"}
  /\ beat' = Older(beat)
  /\ UNCHANGED <<n, status, detail, who, tid, aged,
                 sessVars, canopyVars, req, faults>>

CompletionAges(m) ==
  /\ status[m] = "error" /\ detail[m] = "cancelled" /\ m \notin aged
  /\ aged' = aged \cup {m}
  /\ UNCHANGED <<n, status, detail, who, tid, beat,
                 sessVars, canopyVars, req, faults>>

-----------------------------------------------------------------------------

\* A run that canopy has not seen yet: not started, or started on the
\* subprocess path and killed there before run execution was switched on
\* (both kill modes of resumable_after_deploy).
FirstTurn(s, d, b) ==
  /\ status = [m \in Turns |-> IF m = 1 THEN s ELSE "none"]
  /\ detail = [m \in Turns |-> IF m = 1 THEN d ELSE "blank"]
  /\ beat = b

Init ==
  /\ \/ n = 0 /\ FirstTurn("none", "blank", "null")
     \/ n = 1 /\ FirstTurn("streaming", "blank", "fresh")
     \/ n = 1 /\ FirstTurn("error", "cancelled", "fresh")
  /\ who = [m \in Turns |-> IF m = 1 /\ n = 1 THEN Owner ELSE Nobody]
  /\ tid = {} /\ aged = {}
  /\ csid = 0 /\ cactor = Nobody
  /\ holder = [c \in Turns |-> Nobody]
  /\ turn = [m \in Turns |-> "none"]
  /\ tsess = [m \in Turns |-> 0]
  /\ req = [r \in Requests |-> Idle]
  /\ faults = 0

DispatchStep(r) ==
  Load(r) \/ Stop(r) \/ Create(r) \/ CallFails(r) \/ Send(r) \/ Record(r)

ReconcileStep(r) == Look(r) \/ ReadTurn(r) \/ LookAgain(r) \/ WriteBack(r)

CanopyStep(m) == Claim(m) \/ Finish(m) \/ Miss(m)

Next ==
  \/ \E r \in Requests :
       \/ SeedRun(r) \/ SweepSelect(r) \/ SweepResume(r) \/ SweepOutOfTurns(r) \/ Reconcile(r)
       \/ \E p \in People : ClickResume(r, p)
       \/ DispatchStep(r) \/ ReconcileStep(r) \/ Killed(r)
  \/ \E m \in Turns : CanopyStep(m) \/ CompletionAges(m)
  \/ BeatAges

Spec == Init /\ [][Next]_vars

-----------------------------------------------------------------------------
(* Properties.                                                             *)

\* Every variable keeps its type, canopy session ids name the turn that made
\* the session, and exactly the turns 1..n exist.
TypeOK ==
  /\ n \in 0..MaxTurns
  /\ status \in [Turns -> Statuses] /\ detail \in [Turns -> Details]
  /\ \A m \in Turns : status[m] # "none" <=> m <= n
  /\ who \in [Turns -> People \cup {Nobody}]
  /\ tid \subseteq 1..n /\ aged \subseteq Turns
  /\ beat \in Beats
  /\ csid \in 0..MaxTurns /\ cactor \in People \cup {Nobody}
  /\ holder \in [Turns -> People \cup {Nobody}]
  /\ turn \in [Turns -> TurnStatuses] /\ tsess \in [Turns -> 0..MaxTurns]
  /\ req \in [Requests -> Handlers] /\ \A r \in Requests : req[r].msg <= n
  /\ faults \in 0..MaxFaults

\* dispatch_turn: "the actor never borrows the owner's canopy session".  A turn
\* sent to canopy runs in a session its own requester created, whoever resumed
\* the run before and however the requests interleave.
NoBorrowedSession ==
  \A m \in Turns : turn[m] # "none" => tsess[m] # 0 /\ holder[tsess[m]] = who[m]

\* run_dispatch: "one turn at a time within a run".  No two canopy turns of the
\* run are queued or executing, in whichever canopy sessions.
OneLiveTurn ==
  \A a, b \in Turns : turn[a] \in AliveTurn /\ turn[b] \in AliveTurn => a = b

\* resume_interrupted: the sweep does not resume a run canopy still owns, its
\* newest turn being recorded and queued or executing.
SweepSparesLiveRuns ==
  [][\A r \in Requests : SweepResume(r) => ~(n \in tid /\ turn[n] \in AliveTurn)]_vars

\* reconcile_session writes the state of the run's canopy turn onto its own
\* message: what a message says of its turn is what became of that turn.
VerdictMatchesTurn ==
  \A m \in Turns :
    /\ status[m] = "complete" => turn[m] = "done"
    /\ status[m] = "error" /\ detail[m] = "canopy" => turn[m] \in TurnError

\* A resume retires every dead turn, so only the newest turn of a run is ever
\* unfinished; an older one would put the run back in every resume scope.
OlderTurnsAreOver ==
  \A m \in Turns : m < n => status[m] \notin NonTerminal

\* sessions/models.py: a row is never edited after status "complete".
CompleteIsFinal ==
  [][\A m \in Turns : status[m] = "complete" => status'[m] = "complete"]_vars

\* A turn canopy finished is reported finished, unless a resume replaced it.
Settles ==
  \A m \in Turns :
    (n = m /\ m \in tid /\ turn[m] = "done") ~> (n > m \/ status[m] = "complete")

\* Somebody polls /execution (or the reconcile command runs), and a request
\* that is being served goes on.  Nobody has to click, canopy need not act.
FairSpec ==
  /\ Spec
  /\ \A r \in Requests :
       WF_vars(\/ Reconcile(r) \/ DispatchStep(r) \/ ReconcileStep(r)
               \/ SweepResume(r) \/ SweepOutOfTurns(r))

=============================================================================
