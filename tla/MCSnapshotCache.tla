-------------------------- MODULE MCSnapshotCache --------------------------
(***************************************************************************)
(* The caches of pages, for TLC: two instances of SnapshotCache, requests  *)
(* one after the other that ask for everything, and a fleet of two workers *)
(* that share the token while calls fail and workers die; and SummaryPage. *)
(* They share no state; `part` says which one moves.                       *)
(***************************************************************************)
EXTENDS SnapshotCache, TLC

CONSTANTS w0, w1, w2, MaxFleetRuns
VARIABLES fruns, fver, ffeed, ftoken, fsnap, fidx, fknown, fmarker,
          freq, fshown, fhandled, ffaults

fleetVars == <<fruns, fver, ffeed, ftoken, fsnap, fidx, fknown, fmarker,
               freq, fshown, fhandled, ffaults>>

\* Anywhere but between the store of a token and what it obliges to.
Elsewhere == Steps \ {"invalidate", "clear"}

F == INSTANCE SnapshotCache WITH
       Workers <- {w1, w2}, Asks <- {<<0, FALSE>>}, MaxRuns <- MaxFleetRuns,
       FeedFails <- TRUE, Evictions <- TRUE, CrashAt <- Elsewhere, ParentReports <- BOOLEAN,
       runs <- fruns, ver <- fver, feed <- ffeed, token <- ftoken, snap <- fsnap,
       idx <- fidx, known <- fknown, marker <- fmarker, req <- freq, shown <- fshown,
       handled <- fhandled, faults <- ffaults

-----------------------------------------------------------------------------
CONSTANTS page, ann, run, other, row
VARIABLES folders, files, cache, payload, comments, task, crossed, commentFaults
commentVars == <<folders, files, cache, payload, comments, task, crossed, commentFaults>>

\* One comment at a time, on two runs, whose records get numbered slugs: with 1,
\* the run is full before a record is, and with 2 a record before the run.
S(k) == INSTANCE SummaryPage WITH
          Writers <- {w0}, Readers <- {page}, Reviewers <- {ann}, SlugOf <- [by \in {ann} |-> by],
          Runs <- {run, other}, Decisions <- {row}, MaxPerRecord <- 3 - k, MaxPerRun <- k,
          MaxComments <- 2, MaxCommentFaults <- k - 1

-----------------------------------------------------------------------------
VARIABLE part

Fleet      == Permutations({w1, w2})
Everything == (0..MaxRuns) \X BOOLEAN
Reported   == {TRUE}

SnapInit ==
  Init /\ F!Init /\ S(1)!CommentsInit /\ part \in {"serial", "fleet", "full run", "full record"}

SnapNext ==
  \/ part = "serial" /\ Next /\ UNCHANGED <<fleetVars, commentVars, part>>
  \/ part = "fleet" /\ F!Next /\ UNCHANGED <<vars, commentVars, part>>
  \/ part = "full run" /\ S(1)!CommentsNext /\ UNCHANGED <<vars, fleetVars, part>>
  \/ part = "full record" /\ S(2)!CommentsNext /\ UNCHANGED <<vars, fleetVars, part>>

SnapSpec == SnapInit /\ [][SnapNext]_<<vars, fleetVars, commentVars, part>>

\* NothingSkipped of SnapshotCache, of the fleet: the token never passes a
\* change that no worker has acted on or holds.
FleetSkipsNothing == F!NothingSkipped

\* Stated and explained in SummaryPage: comments are kept, numbered and capped,
\* and shown.
CommentsHold ==
  /\ part = "full run" => S(1)!CommentsHold
  /\ part = "full record" => S(2)!CommentsHold

=============================================================================
