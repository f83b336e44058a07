---------------------------- MODULE NovaRefresh ----------------------------
(***************************************************************************)
(* common/nova_auth_flow.py: the one Nova credential all ECS tasks share.  *)
(* Its authorization server rotates the refresh token on every refresh and *)
(* refuses one that was spent, so callers of get_fresh_token serialize     *)
(* through a Redis lock that expires.                                      *)
(*                                                                         *)
(* Tokens are taken from a finite set: the server issues one nobody holds. *)
(***************************************************************************)

CONSTANTS
  Tasks,       \* callers of get_fresh_token, in any process
  Tokens,      \* refresh tokens
  NoToken,     \* no refresh token
  Free,        \* the lock is not held
  Rotates,     \* may a refresh answer with a new refresh token (TRUE), without
  RedisFails,  \* may a call to Redis fail
  FailAt,      \* the steps at which a caller may die, or raise
  StallsAt     \* the steps at which a holder may outlive its lock

VARIABLES
  blob,   \* SystemConfig['nova_credentials_blob']; `fresh` is _is_token_fresh
  lock,   \* nova:refresh-lock
  spent,  \* refresh tokens the server no longer accepts
  task    \* caller w of get_fresh_token

vars == <<blob, lock, spent, task>>

\* "store": the server has answered; an answer that is lost is lost there.
Holding == {"reread", "post", "store", "release"}
Steps   == {"check", "lock", "wait"} \cup Holding

ASSUME NovaRefreshAssumption ==
  /\ NoToken \notin Tokens /\ Free \notin Tasks
  /\ Rotates \in (SUBSET BOOLEAN) \ {{}} /\ RedisFails \in BOOLEAN
  /\ FailAt \subseteq Steps /\ StallsAt \subseteq Holding

\* `rt` is the refresh token read from the blob, `got` the one answered.
Callers == [pc : Steps \cup {"idle"}, holds : BOOLEAN,
            rt : Tokens \cup {NoToken}, got : Tokens \cup {NoToken}]
Idle    == [pc |-> "idle", holds |-> FALSE, rt |-> NoToken, got |-> NoToken]

NoBlob     == [rt |-> NoToken, fresh |-> FALSE]
Blob(t)    == [rt |-> t, fresh |-> TRUE]
Usable     == blob # NoBlob /\ ~blob.fresh

At(w, p)   == task[w].pc = p
Becomes(w, c) == task' = [task EXCEPT ![w] = c]
Goto(w, p) == Becomes(w, [task[w] EXCEPT !.pc = p])

\* return or raise: a holder passes through the finally clause.
Finally  == [Idle EXCEPT !.pc = "release", !.holds = TRUE]
Leave(w) == Becomes(w, IF task[w].holds THEN Finally ELSE Idle)

Unheld(t) == t # blob.rt /\ \A w \in Tasks : t # task[w].rt /\ t # task[w].got

-----------------------------------------------------------------------------
(* get_fresh_token and _refresh_with_lock.                                 *)

\* A blob that is absent or fresh is answered at once.
Ask(w) ==
  /\ At(w, "idle") /\ Usable
  /\ Goto(w, "check")
  /\ UNCHANGED <<blob, lock, spent>>

\* The head of the polling loop.
Check(w) ==
  /\ At(w, "check")
  /\ Becomes(w, IF Usable THEN [task[w] EXCEPT !.pc = "lock", !.rt = blob.rt] ELSE Idle)
  /\ UNCHANGED <<blob, lock, spent>>

\* SET NX EX.
Acquire(w) ==
  /\ At(w, "lock") /\ lock = Free
  /\ lock' = w
  /\ Becomes(w, [Idle EXCEPT !.pc = "reread", !.holds = TRUE])
  /\ UNCHANGED <<blob, spent>>

Taken(w) ==
  /\ At(w, "lock") /\ lock # Free
  /\ Becomes(w, [Idle EXCEPT !.pc = "wait"])
  /\ UNCHANGED <<blob, lock, spent>>

\* SET raises, having set the lock or not: refresh without it.
SetFails(w) ==
  /\ RedisFails /\ At(w, "lock")
  /\ lock' \in IF lock = Free THEN {Free, w} ELSE {lock}
  /\ Goto(w, "post")
  /\ UNCHANGED <<blob, spent>>

\* 0.2 s later; or past the deadline of 5 s, with whatever the blob holds.
Poll(w) ==
  /\ At(w, "wait")
  /\ Goto(w, "check") \/ Becomes(w, Idle)
  /\ UNCHANGED <<blob, lock, spent>>

RereadFreshToo(w) ==
  IF blob # NoBlob THEN Becomes(w, [task[w] EXCEPT !.pc = "post", !.rt = blob.rt])
                   ELSE Leave(w)

Reread(w) ==
  IF Usable THEN Becomes(w, [task[w] EXCEPT !.pc = "post", !.rt = blob.rt])
            ELSE Leave(w)

\* Inside the lock, the blob is read once more.
RereadInLock(w) ==
  /\ At(w, "reread")
  /\ Reread(w)
  /\ UNCHANGED <<blob, lock, spent>>

-----------------------------------------------------------------------------
(* _refresh_blob_then_store.                                               *)

\* The server takes the refresh token and answers with new tokens; _refresh
\* keeps the refresh token when the answer has none.
Refresh(w) ==
  /\ At(w, "post") /\ task[w].rt \notin spent
  /\ \/ /\ TRUE \in Rotates
        /\ \E t \in Tokens :
             /\ Unheld(t)
             /\ spent' = (spent \ {t}) \cup {task[w].rt}
             /\ Becomes(w, [task[w] EXCEPT !.pc = "store", !.got = t])
     \/ /\ FALSE \in Rotates
        /\ Becomes(w, [task[w] EXCEPT !.pc = "store", !.got = task[w].rt])
        /\ UNCHANGED spent
  /\ UNCHANGED <<blob, lock>>

\* The server is not reached, or refuses.
RefreshFails(w) ==
  /\ At(w, "post")
  /\ Leave(w)
  /\ UNCHANGED <<blob, lock, spent>>

StoreNothing(w) == UNCHANGED blob

StoreBlob(w) == blob' = Blob(task[w].got)

Store(w) ==
  /\ At(w, "store")
  /\ StoreBlob(w)
  /\ Leave(w)
  /\ UNCHANGED <<lock, spent>>

DeleteLock(w) == lock' = Free

\* The Lua script: delete the lock if it is still this caller's.
CompareAndDelete(w) == lock' = IF lock = w THEN Free ELSE lock

Release(w) ==
  /\ At(w, "release")
  /\ CompareAndDelete(w) \/ (RedisFails /\ UNCHANGED lock)
  /\ Becomes(w, Idle)
  /\ UNCHANGED <<blob, spent>>

-----------------------------------------------------------------------------
(* What happens to callers, and to the credential.                         *)

\* The database raises: the finally clause still runs.
Raises(w) ==
  /\ task[w].pc \in FailAt \ {"release"}
  /\ Leave(w)
  /\ UNCHANGED <<blob, lock, spent>>

Dies(w) ==
  /\ task[w].pc \in FailAt
  /\ Becomes(w, Idle)
  /\ UNCHANGED <<blob, lock, spent>>

\* The lock's TTL of 30 s.
Expires(w) == lock = w /\ (task[w].holds => task[w].pc \in StallsAt)

Expire(w) ==
  /\ Expires(w)
  /\ lock' = Free
  /\ UNCHANGED <<blob, spent, task>>

\* The access token comes within 300 s of its expiry.
Ages ==
  /\ blob.fresh
  /\ blob' = [blob EXCEPT !.fresh = FALSE]
  /\ UNCHANGED <<lock, spent, task>>

\* nova_oauth_callback stores the tokens of a new grant, nova_auth_disconnect
\* clears the blob; neither takes the lock.
Authorize ==
  \E t \in Tokens :
    /\ Unheld(t)
    /\ spent' = spent \ {t}
    /\ blob' = Blob(t)
    /\ UNCHANGED <<lock, task>>

Disconnect ==
  /\ blob # NoBlob
  /\ blob' = NoBlob
  /\ UNCHANGED <<lock, spent, task>>

-----------------------------------------------------------------------------

Init ==
  /\ blob = NoBlob /\ lock = Free /\ spent = {}
  /\ task = [w \in Tasks |-> Idle]

\* What a caller does by itself, once it has begun.
TaskStep(w) ==
  \/ Check(w) \/ Acquire(w) \/ Taken(w) \/ Poll(w) \/ RereadInLock(w)
  \/ Refresh(w) \/ RefreshFails(w) \/ Store(w) \/ Release(w)

Next ==
  \/ \E w \in Tasks : \/ TaskStep(w) \/ Ask(w) \/ SetFails(w) \/ Raises(w) \/ Dies(w)
                      \/ Expire(w)
  \/ Ages \/ Authorize \/ Disconnect

Spec == Init /\ [][Next]_vars

-----------------------------------------------------------------------------
(* Properties.                                                             *)

CallerOK(c) ==
  /\ c.holds => c.pc \in Holding
  /\ c.pc \in {"reread", "release"} => c.holds
  /\ c.pc \in {"lock", "post"} => c.rt # NoToken
  /\ c.pc = "store" => c.got # NoToken

\* Types; a caller that posts has read a token, one that stores has got one,
\* and only one that acquired the lock is in the finally clause.
TypeOK ==
  /\ blob \in {NoBlob} \cup [rt : Tokens, fresh : BOOLEAN]
  /\ lock \in Tasks \cup {Free}
  /\ spent \subseteq Tokens
  /\ task \in [Tasks -> Callers] /\ \A w \in Tasks : CallerOK(task[w])

\* nova_auth_flow.py: racing tasks do not "burn each other's tokens".  No
\* caller ever posts a refresh token that another one has spent.
NoneBurned ==
  \A w \in Tasks : At(w, "post") => task[w].rt \notin spent

\* The shared credential is never lost: the stored refresh token is live, or
\* its live successor is on its way to the store.
StoredIsLive ==
  blob.rt \in spent => \E w \in Tasks : At(w, "store") /\ task[w].got \notin spent

\* _refresh_with_lock, "only POST /token if we still need to": what a caller is
\* about to refresh has not been refreshed since.
RefreshesWhatIsStale ==
  \A w \in Tasks : At(w, "post") /\ task[w].rt = blob.rt => ~blob.fresh

\* "a stuck holder whose TTL expires can't accidentally delete a newer holder's
\* lock": a caller's step takes away no lock but its own.
OnlyHolderReleases ==
  [][\A w \in Tasks : task'[w] # task[w] /\ lock # Free => lock' \in {lock, Free}
                      /\ (lock' = Free => lock = w)]_vars

=============================================================================
