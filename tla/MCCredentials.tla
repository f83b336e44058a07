--------------------------- MODULE MCCredentials ---------------------------
(***************************************************************************)
(* The credentials that all tasks share, for TLC: two instances of         *)
(* NovaRefresh, one where Redis answers and no answer of the authorization *)
(* server is lost and one where everything fails, and two of               *)
(* ClaudeCredential, turns beside one request and requests beside each     *)
(* other.  They share no state; `part` says which one moves.               *)
(***************************************************************************)
EXTENDS NovaRefresh, TLC

CONSTANTS w1, w2, w3, t1, t2, t3, t4, t5
VARIABLES dblob, dlock, dspent, dtask

Two   == {w1, w2}
Three == {w1, w2, w3}

Few   == {t1, t2, t3}
Some  == {t1, t2, t3, t4, t5}

Either == BOOLEAN

\* Failures that lose no token, and the stall that is harmless.
NotStoring == Steps \ {"store"}
Releasing  == {"release"}

degraded == <<dblob, dlock, dspent, dtask>>

D == INSTANCE NovaRefresh WITH
       Tasks <- Two, Tokens <- Few, RedisFails <- TRUE, FailAt <- Steps, StallsAt <- Holding,
       blob <- dblob, lock <- dlock, spent <- dspent, task <- dtask

-----------------------------------------------------------------------------
CONSTANTS v1, v2, c1, r1, r2, MaxBlobs, MaxUploads
VARIABLES row, persisted, mem, saved, user, minted, used, muddled, uploads, faults
claudeVars == <<row, persisted, mem, saved, user, minted, used, muddled, uploads, faults>>

\* Turns of everybody, a request, and what fails.
T == INSTANCE ClaudeCredential WITH
       Workers <- {v1, v2}, Chats <- {c1}, Requests <- {r1}, Scopes <- {"global"},
       MaxFaults <- 1, task <- user, spent <- used

\* Two requests, about the credential of a person or of everybody.
R == INSTANCE ClaudeCredential WITH
       Workers <- {v1, v2}, Chats <- {}, Requests <- {r1, r2}, Scopes <- {"user", "global"},
       MaxFaults <- 0, task <- user, spent <- used

SameWorkers == Permutations({v1, v2})

-----------------------------------------------------------------------------
VARIABLE part

CredInit ==
  /\ Init /\ D!Init
  /\ \/ part \in {"answers", "fails", "turns"} /\ T!Init
     \/ part = "checks" /\ R!Init

\* Of Claude, what follows when every credential is in two HOMEs says nothing more.
CredNext ==
  \/ part = "answers" /\ Next /\ UNCHANGED <<degraded, claudeVars, part>>
  \/ part = "fails" /\ D!Next /\ UNCHANGED <<vars, claudeVars, part>>
  \/ part = "turns" /\ muddled = {} /\ T!Next /\ UNCHANGED <<vars, degraded, part>>
  \/ part = "checks" /\ muddled # {"user", "global"} /\ R!Next /\ UNCHANGED <<vars, degraded, part>>

CredSpec == CredInit /\ [][CredNext]_<<vars, degraded, claudeVars, part>>

\* A caller's step takes away no other caller's lock: stated in NovaRefresh, of
\* callers that die and outlive the lock at any step, with a Redis that fails.
OnlyHolderReleasesInFailure == D!OnlyHolderReleases

\* Stated and explained in ClaudeCredential: a refresh is kept, and a verdict is
\* given of the credential it came from.
RefreshIsKept ==
  /\ part = "turns" => T!RefreshIsKept
  /\ part = "checks" => R!RefreshIsKept

VerdictsAreTheirs ==
  /\ part = "turns" => T!VerdictsAreTheirs
  /\ part = "checks" => R!VerdictsAreTheirs

=============================================================================
