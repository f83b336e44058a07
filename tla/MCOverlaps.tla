----------------------------- MODULE MCOverlaps -----------------------------
(***************************************************************************)
(* Two of whatever acts, for TLC: two requests to one run's chat, two      *)
(* workers on one session's transcript, two comments on one run's summary. *)
(* The three share no state; `part` says which one moves.                  *)
(***************************************************************************)
EXTENDS MCRunDispatch, SummaryPage, CostLedger

CONSTANTS page, run, row

\* What a reviewer is called is the slug.
OwnSlug == [by \in {own} |-> by]

-----------------------------------------------------------------------------
VARIABLE part

\* The cost and the comments start from one state of the dispatch.
OverlapsInit ==
  /\ Init /\ CostInit /\ CommentsInit /\ part \in {"dispatch", "cost", "comments"}
  /\ part # "dispatch" => n = 0

OverlapsNext ==
  \/ part = "dispatch" /\ Next /\ UNCHANGED <<costVars, commentVars, part>>
  \/ part = "cost" /\ CostNext /\ UNCHANGED <<vars, commentVars, part>>
  \/ part = "comments" /\ CommentsNext /\ UNCHANGED <<vars, costVars, part>>

OverlapsSpec ==
  OverlapsInit /\ [][OverlapsNext]_<<vars, costVars, commentVars, part>>

\* Neither two requests nor two workers or comments differ in anything.
Interchangeable == Permutations(Two)

=============================================================================
