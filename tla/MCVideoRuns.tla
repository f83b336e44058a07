---------------------------- MODULE MCVideoRuns ----------------------------
(***************************************************************************)
(* Two deployments for TLC: one that renders and serves, and labs, which   *)
(* only serves; each has a Redis and a disk of its own.                    *)
(***************************************************************************)
EXTENDS VideoRuns, TLC

CONSTANTS mac, labs, c1, c2

OneEach == [h \in {mac, labs} |-> h]

=============================================================================
