--------------------------- MODULE MCProcessPool ---------------------------
(***************************************************************************)
(* Instances of ProcessPool for TLC.                                       *)
(***************************************************************************)
EXTENDS ProcessPool

CONSTANTS s1, s2, s3, c1, c2, reaper, none

TwoSessions   == {s1, s2}
ThreeSessions == {s1, s2, s3}
OneCall  == {c1}
TwoCalls == {c1, c2}

=============================================================================
