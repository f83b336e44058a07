--------------------------- MODULE MCRunDispatch ---------------------------
(***************************************************************************)
(* Instances of RunDispatch for TLC: the owner and one other member, one   *)
(* or two requests in flight, a handful of turns and faults.               *)
(***************************************************************************)
EXTENDS RunDispatch, TLC

CONSTANTS own, oth, nob, r1, r2

MCPeople == {own, oth}
Serial   == {r1}
Two      == {r1, r2}

=============================================================================
