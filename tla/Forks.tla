-------------------------------- MODULE Forks --------------------------------
(***************************************************************************)
(* What the forking of runs (opps/opp_forker.py) is about, for RunFork,    *)
(* which follows their decisions, and RunPhases, which follows their       *)
(* phases.                                                                 *)
(***************************************************************************)
EXTENDS Naturals

CONSTANTS
  Forkers,  \* fork requests in flight
  Phases    \* phase ordinals

ASSUME PhasesAreOrdinals == Phases \subseteq Nat

=============================================================================
