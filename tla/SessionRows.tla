---------------------------- MODULE SessionRows ----------------------------
(***************************************************************************)
(* The database rows of one ACE run, as far as execution and self-heal     *)
(* depend on them: the assistant Message rows of a Session, and the        *)
(* heartbeat beacon of the Session row.  Pure definitions, shared by the   *)
(* two execution paths (RunDispatch: canopy; TurnDriver: subprocess).      *)
(*                                                                         *)
(* Timestamps are kept as the classes the queries distinguish:             *)
(*   driver_heartbeat_at   "null", "fresh" (younger than the 90 s grace),  *)
(*                         "stale" (past the grace, inside the 30 min      *)
(*                         resume window) or "ancient"                     *)
(*   completed_at          inside the resume window or not (`aged`)        *)
(***************************************************************************)

Statuses == {"none", "pending", "streaming", "complete", "error"}

\* What error_detail says, by the prefix the code matches on.
Details == {"blank", "cancelled", "superseded", "dispatch", "canopy", "failed"}

Beats == {"null", "fresh", "stale", "ancient"}

NonTerminal == {"pending", "streaming"}

\* A beat that has gone one class older; a null beacon has no age.
Older(b) == CASE b = "fresh" -> "stale"
              [] b = "stale" -> "ancient"
              [] OTHER       -> b

\* Session.interrupted(): a non-terminal assistant turn and no live beat.
Interrupted(status, beat) ==
  /\ \E m \in DOMAIN status : status[m] \in NonTerminal
  /\ beat # "fresh"

\* Leg (A) of Session.resumable_after_deploy(): hard kill.
HardKillAnyBeat(status, beat) == \E m \in DOMAIN status : status[m] \in NonTerminal

HardKill(status, beat) ==
  /\ \E m \in DOMAIN status : status[m] \in NonTerminal
  /\ beat = "stale"

\* Leg (B): a turn that was marked cancelled, inside the window.
GracefulCancel(status, detail, aged) ==
  \E m \in DOMAIN status :
    status[m] = "error" /\ detail[m] = "cancelled" /\ m \notin aged

Resumable(status, detail, aged, beat) ==
  HardKill(status, beat) \/ GracefulCancel(status, detail, aged)

\* The rows resume_session_run retires before it appends the new turn.

RetiredCancelled(status, detail) ==
  {m \in DOMAIN status : status[m] = "error" /\ detail[m] = "cancelled"}

RetiredAll(status, detail) == {m \in DOMAIN status : status[m] # "none"}

Retired(status, detail) ==
  {m \in DOMAIN status :
     \/ status[m] \in NonTerminal
     \/ status[m] = "error" /\ detail[m] = "cancelled"}

=============================================================================
