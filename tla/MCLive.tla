------------------------------- MODULE MCLive -------------------------------
(***************************************************************************)
(* What has to recover by itself, for TLC: two instances of TurnDriver,    *)
(* one where only deploys and sweeps resume a run and one where people     *)
(* click Resume and beats are missed, and Presence.  They share no state;  *)
(* `part` says which one moves.                                            *)
(***************************************************************************)
EXTENDS TurnDriver, Presence, TLC

CONSTANTS r1, r2, Clickers, MaxClickedTurns, MaxClickedFaults
VARIABLES cn, cstatus, cdetail, caged, cbeat, cdrv, creq, cfaults
clickVars == <<cn, cstatus, cdetail, caged, cbeat, cdrv, creq, cfaults>>

C == INSTANCE TurnDriver WITH
       Requests <- Clickers, MaxTurns <- MaxClickedTurns, MaxFaults <- MaxClickedFaults,
       Clicks <- TRUE, MissedBeats <- TRUE, SetupFails <- FALSE, TailFails <- FALSE,
       n <- cn, status <- cstatus, detail <- cdetail, aged <- caged, beat <- cbeat,
       drv <- cdrv, req <- creq, faults <- cfaults

CONSTANTS c1, c2, ann, bob, home, opp

\* One connection each of two users.
TwoUsers == (c1 :> ann) @@ (c2 :> bob)

-----------------------------------------------------------------------------
VARIABLE part

LiveInit == Init /\ C!Init /\ PresenceInit /\ part \in {"sweeps", "clicks", "presence"}

LiveNext ==
  \/ part = "sweeps" /\ Next /\ UNCHANGED <<clickVars, presenceVars, part>>
  \/ part = "clicks" /\ C!Next /\ UNCHANGED <<vars, presenceVars, part>>
  \/ part = "presence" /\ PresenceNext /\ UNCHANGED <<vars, clickVars, part>>

LiveSpec ==
  /\ LiveInit /\ [][LiveNext]_<<vars, clickVars, presenceVars, part>>
  /\ \A m \in 1..MaxClickedTurns : WF_clickVars(part = "clicks" /\ C!DriverStep(m))
  /\ part = "presence" => Fairness

\* A row that is complete stays so, and a driver that nobody kills settles its
\* row: stated in TurnDriver, of resumes clicked while drivers run.
CompleteIsFinalUnderClicks == C!CompleteIsFinal
SettlesUnderClicks         == C!Settles

=============================================================================
