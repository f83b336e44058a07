------------------------------ MODULE MCShared ------------------------------
(***************************************************************************)
(* What hosts and requests share, for TLC: the video of a run, and the     *)
(* members of a workspace; and the reports that are made of a transcript,  *)
(* SpendReports.  They share no state; `part` says which one moves.        *)
(***************************************************************************)
EXTENDS Membership, VideoRuns, TLC

\* a1 and a2 are two of whatever acts, or of phases.
CONSTANTS mac, labs, a1, a2, ann, bob, eve, unknown

Two == {a1, a2}

SameActors == Permutations(Two)

\* Each host has a Redis of its own.
OneEach == [h \in {mac, labs} |-> h]

-----------------------------------------------------------------------------
CONSTANTS MaxLines, MaxUses
VARIABLES parent, awaited, used, tree, breakdown, nested, plain, due
reportVars == <<parent, awaited, used, tree, breakdown, nested, plain, due>>

S == INSTANCE SpendReports WITH Phases <- Two, Unknown <- unknown

-----------------------------------------------------------------------------
VARIABLE part

SharedInit == Init /\ VideoInit /\ S!Init /\ part \in {"video", "members", "reports"}

SharedNext ==
  \/ part = "video" /\ VideoNext /\ UNCHANGED <<vars, reportVars, part>>
  \/ part = "members" /\ Next /\ UNCHANGED <<videoVars, reportVars, part>>
  \/ part = "reports" /\ S!Next /\ UNCHANGED <<vars, videoVars, part>>

SharedSpec == SharedInit /\ [][SharedNext]_<<vars, videoVars, reportVars, part>>

\* Stated and explained in SpendReports.
ReportsHold == part = "reports" => S!ReportsHold
SpendStays  == [][part = "reports" => S!Stay]_reportVars

=============================================================================
