----------------------------- MODULE MCRunPhases -----------------------------
(***************************************************************************)
(* RunPhases by itself, for TLC; MCRecords has the same instance.          *)
(***************************************************************************)
EXTENDS RunPhases, TwoPhases

CONSTANT forker

=============================================================================
