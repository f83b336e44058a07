----------------------------- MODULE MCRecords -----------------------------
(***************************************************************************)
(* DecisionEdits, RunClone, RunFork and RunPhases, for TLC.  They share no *)
(* state, so a behaviour is one of either: `part` says which one moves.    *)
(***************************************************************************)
EXTENDS DecisionEdits, RunClone, RunFork, RunPhases, TwoPhases, TLC

CONSTANTS w1, w2, x, y, ai, a, none, state, doc, sheet, forker

TwoWorkers == Permutations(Workers)

-----------------------------------------------------------------------------
\* Every file has a name of its own.
OwnName == [f \in Files |-> f]

-----------------------------------------------------------------------------
\* The phases the decisions of RunFork belong to.
InOrder == (x :> 1) @@ (y :> 2)

-----------------------------------------------------------------------------
VARIABLE part

RecordsInit ==
  /\ DInit /\ CloneInit /\ ForkInit /\ PhasesInit
  /\ part \in {"decisions", "clone", "fork", "phases"}

\* Of decisions, what follows a write that undid another says nothing more.
RecordsNext ==
  \/ /\ part = "decisions" /\ ~spoiled /\ DNext
     /\ UNCHANGED <<cloneVars, forkVars, phaseVars, part>>
  \/ /\ part = "clone" /\ CloneNext
     /\ UNCHANGED <<dvars, forkVars, phaseVars, part>>
  \/ /\ part = "fork" /\ ForkNext
     /\ UNCHANGED <<dvars, cloneVars, phaseVars, part>>
  \/ /\ part = "phases" /\ PhasesNext
     /\ UNCHANGED <<dvars, cloneVars, forkVars, part>>

RecordsSpec ==
  RecordsInit /\ [][RecordsNext]_<<dvars, cloneVars, forkVars, phaseVars, part>>

=============================================================================
