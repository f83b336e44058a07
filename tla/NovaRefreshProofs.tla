------------------------- MODULE NovaRefreshProofs -------------------------
(***************************************************************************)
(* What the refresh lock guarantees for any number of callers and tokens,  *)
(* as long as Redis answers, a holder outlives its lock only once it has   *)
(* stored, and no caller fails between the server's answer and the store.  *)
(***************************************************************************)
EXTENDS NovaRefresh, TLAPS

\* The conditions of the instance of the run nova where Redis answers.
Guarded == RedisFails = FALSE /\ StallsAt \subseteq {"release"} /\ "store" \notin FailAt

\* The holder of the lock is the only caller that refreshes.
Inside       == {"reread", "post", "store"}
HoldersInside == \A w \in Tasks : At(w, "reread") \/ At(w, "post") \/ At(w, "store") =>
                                    lock = w /\ task[w].holds

\* What the server answered is live until it is stored.
AnswersAreLive == \A w \in Tasks : At(w, "store") => task[w].got \notin spent

LockInv == TypeOK /\ HoldersInside /\ AnswersAreLive
           /\ NoneBurned /\ StoredIsLive /\ RefreshesWhatIsStale

-----------------------------------------------------------------------------
(* The type invariant, which needs no condition.                           *)

\* There are no calls and no credential.
LEMMA TypeInit == Init => TypeOK
BY DEF Init, TypeOK, CallerOK, Idle, NoBlob, Callers, Steps, Holding

\* The callers that come and go are well typed.
LEMMA TypeIdle ==
  /\ Idle \in Callers /\ CallerOK(Idle) /\ Finally \in Callers /\ CallerOK(Finally)
<1>1. Idle \in Callers /\ CallerOK(Idle)
  BY DEF Idle, Callers, CallerOK
<1>2. Finally \in Callers /\ Finally.pc = "release" /\ Finally.holds = TRUE
  BY <1>1 DEF Finally, Callers, Steps, Holding
<1>3. QED
  BY <1>1, <1>2 DEF CallerOK, Holding

\* A caller's step yields a caller that is well typed.
LEMMA TypeCaller ==
  ASSUME TypeOK, NEW w \in Tasks, TaskStep(w) \/ Ask(w) \/ SetFails(w) \/ Raises(w) \/ Dies(w)
  PROVE  \E c \in Callers : CallerOK(c) /\ Becomes(w, c)
<1> DEFINE c == task[w]
<1>0. /\ c \in Callers /\ CallerOK(c)
      /\ blob.rt \in Tokens \cup {NoToken} /\ (Usable => blob.rt \in Tokens)
      /\ NoToken \notin Tokens
  BY NovaRefreshAssumption DEF NovaRefreshAssumption, TypeOK, NoBlob, Usable
<1>1. CASE Becomes(w, Idle) \/ Leave(w)
  BY <1>1, TypeIdle DEF Leave
<1>2. CASE Ask(w) \/ SetFails(w)
  <2>1. PICK p \in {"check", "post"} :
          /\ p = "check" => c.pc = "idle"
          /\ p = "post" => c.pc = "lock"
          /\ Goto(w, p)
    BY <1>2 DEF Ask, SetFails, At
  <2> DEFINE d == [c EXCEPT !.pc = p]
  <2>2. d \in Callers /\ d.pc = p /\ d.holds = c.holds /\ d.rt = c.rt /\ d.got = c.got
    BY <1>0 DEF Callers, Steps, Holding
  <2>3. CallerOK(d)
    BY <1>0, <2>1, <2>2 DEF CallerOK, Holding
  <2>4. QED
    BY <2>1, <2>2, <2>3 DEF Goto
<1>3. CASE Check(w) /\ Usable
  <2> DEFINE d == [c EXCEPT !.pc = "lock", !.rt = blob.rt]
  <2>1. d \in Callers /\ d.pc = "lock" /\ d.holds = c.holds /\ d.rt = blob.rt
    BY <1>0 DEF Callers, Steps, Holding
  <2>2. CallerOK(d)
    BY <1>0, <1>3, <2>1 DEF Check, At, CallerOK, Holding
  <2>3. QED
    BY <1>3, <2>1, <2>2 DEF Check
<1>4. CASE Acquire(w)
  <2> DEFINE d == [Idle EXCEPT !.pc = "reread", !.holds = TRUE]
  <2>1. d \in Callers /\ d.pc = "reread" /\ d.holds = TRUE
    BY TypeIdle DEF Callers, Steps, Holding
  <2>2. CallerOK(d)
    BY <2>1 DEF CallerOK, Holding
  <2>3. QED
    BY <1>4, <2>1, <2>2 DEF Acquire
<1>5. CASE Taken(w)
  <2> DEFINE d == [Idle EXCEPT !.pc = "wait"]
  <2>1. d \in Callers /\ d.pc = "wait" /\ d.holds = Idle.holds
    BY TypeIdle DEF Callers, Steps
  <2>2. CallerOK(d)
    BY <2>1 DEF CallerOK, Idle
  <2>3. QED
    BY <1>5, <2>1, <2>2 DEF Taken
<1>6. CASE At(w, "wait") /\ Goto(w, "check")
  <2> DEFINE d == [c EXCEPT !.pc = "check"]
  <2>1. d \in Callers /\ d.pc = "check" /\ d.holds = c.holds
    BY <1>0 DEF Callers, Steps, Holding
  <2>2. CallerOK(d)
    BY <1>0, <1>6, <2>1 DEF At, CallerOK, Holding
  <2>3. QED
    BY <1>6, <2>1, <2>2 DEF Goto
<1>7. CASE RereadInLock(w) /\ Usable
  <2> DEFINE d == [c EXCEPT !.pc = "post", !.rt = blob.rt]
  <2>1. d \in Callers /\ d.pc = "post" /\ d.holds = c.holds /\ d.rt = blob.rt
    BY <1>0 DEF Callers, Steps, Holding
  <2>2. CallerOK(d)
    BY <1>0, <1>7, <2>1 DEF CallerOK, Holding
  <2>3. QED
    BY <1>7, <2>1, <2>2 DEF RereadInLock, Reread
<1>8. CASE Refresh(w)
  <2>1. PICK t \in Tokens : Becomes(w, [c EXCEPT !.pc = "store", !.got = t])
    BY <1>0, <1>8 DEF Refresh, At, CallerOK, Callers
  <2> DEFINE d == [c EXCEPT !.pc = "store", !.got = t]
  <2>2. d \in Callers /\ d.pc = "store" /\ d.holds = c.holds /\ d.got = t
    BY <1>0 DEF Callers, Steps, Holding
  <2>3. CallerOK(d)
    BY <1>0, <2>2 DEF CallerOK, Holding
  <2>4. QED
    BY <2>1, <2>2, <2>3
<1>9. QED
  BY <1>1, <1>2, <1>3, <1>4, <1>5, <1>6, <1>7, <1>8
     DEF TaskStep, Check, Poll, RereadInLock, Reread, RefreshFails, Store, Release, Raises, Dies

\* A blob that is stored has its type.
LEMMA TypeBlob == \A t \in Tokens : Blob(t) \in [rt : Tokens, fresh : BOOLEAN]
BY DEF Blob

\* No step breaks the types.
LEMMA TypeNext == TypeOK /\ [Next]_vars => TypeOK'
<1> SUFFICES ASSUME TypeOK, [Next]_vars PROVE TypeOK'
  OBVIOUS
<1>1. ASSUME NEW w \in Tasks, TaskStep(w) \/ Ask(w) \/ SetFails(w) \/ Raises(w) \/ Dies(w)
      PROVE  TypeOK'
  <2>1. PICK c \in Callers : CallerOK(c) /\ Becomes(w, c)
    BY <1>1, TypeCaller
  <2>2. task' \in [Tasks -> Callers] /\ \A v \in Tasks : CallerOK(task'[v])
    BY <2>1 DEF TypeOK, Becomes
  <2>3. blob' = blob \/ (At(w, "store") /\ blob' = Blob(task[w].got))
    BY <1>1 DEF TaskStep, Ask, SetFails, Raises, Dies, Check, Acquire, Taken, Poll, RereadInLock,
                Refresh, RefreshFails, Store, StoreBlob, Release
  <2>4. lock' \in {lock, Free, w}
    BY <1>1 DEF TaskStep, Ask, SetFails, Raises, Dies, Check, Acquire, Taken, Poll, RereadInLock,
                Refresh, RefreshFails, Store, Release, CompareAndDelete
  <2>5. \/ spent' = spent
        \/ At(w, "post") /\ \E t \in Tokens : spent' = (spent \ {t}) \cup {task[w].rt}
    BY <1>1 DEF TaskStep, Ask, SetFails, Raises, Dies, Check, Acquire, Taken, Poll, RereadInLock,
                Refresh, RefreshFails, Store, Release
  <2>6. (At(w, "store") => task[w].got \in Tokens) /\ (At(w, "post") => task[w].rt \in Tokens)
    BY DEF TypeOK, CallerOK, Callers, At
  <2>7. blob' \in {NoBlob} \cup [rt : Tokens, fresh : BOOLEAN]
    BY <2>3, <2>6, TypeBlob DEF TypeOK
  <2>8. lock' \in Tasks \cup {Free} /\ spent' \subseteq Tokens
    BY <2>4, <2>5, <2>6 DEF TypeOK
  <2>9. QED
    BY <2>2, <2>7, <2>8 DEF TypeOK
<1>2. CASE Ages \/ Authorize \/ Disconnect
  <2>1. task' = task /\ lock' = lock
    BY <1>2 DEF Ages, Authorize, Disconnect
  <2>2. spent' \subseteq Tokens
    BY <1>2 DEF TypeOK, Ages, Authorize, Disconnect
  <2>3. blob' \in {NoBlob} \cup [rt : Tokens, fresh : BOOLEAN]
    <3>1. CASE Ages
      <4>1. blob \in [rt : Tokens, fresh : BOOLEAN]
        BY <3>1 DEF TypeOK, Ages, NoBlob
      <4>2. QED
        BY <3>1, <4>1 DEF Ages
    <3>2. CASE Authorize \/ Disconnect
      BY <3>2, TypeBlob DEF Authorize, Disconnect
    <3>3. QED
      BY <1>2, <3>1, <3>2
  <2>4. QED
    BY <2>1, <2>2, <2>3 DEF TypeOK
<1>3. CASE (\E w \in Tasks : Expire(w)) \/ UNCHANGED vars
  BY <1>3 DEF TypeOK, Expire, vars
<1>4. QED
  BY <1>1, <1>2, <1>3 DEF Next

\* The types, for any number of callers and tokens, whatever fails.
THEOREM TypeCorrect == Spec => []TypeOK
BY TypeInit, TypeNext, PTL DEF Spec

-----------------------------------------------------------------------------
(* The lock protects the credential.                                       *)

\* There is no caller and no credential.
LEMMA LockInit == Init => LockInv
BY TypeInit DEF Init, LockInv, HoldersInside, AnswersAreLive, NoneBurned, StoredIsLive,
                RefreshesWhatIsStale, At, Idle, NoBlob

\* The holder is alone inside, and where nobody stores the blob is live.
LEMMA Alone ==
  ASSUME LockInv
  PROVE  /\ \A v, w \in Tasks : task[v].pc \in Inside /\ task[w].pc \in Inside => v = w
         /\ (\A w \in Tasks : ~At(w, "store")) => blob.rt \notin spent
         /\ \A w \in Tasks : task[w].pc \in Inside => lock = w /\ task[w].holds
BY DEF LockInv, HoldersInside, StoredIsLive, Inside, At

\* A caller outside, or one that leaves without having been answered, neither
\* enters nor touches the credential.
LEMMA LockOutside ==
  ASSUME LockInv, TypeOK', NEW w \in Tasks, NEW c, Becomes(w, c), c.pc \notin Inside,
         task[w].pc # "store", UNCHANGED <<blob, spent>>, lock' = lock \/ lock = w
  PROVE  LockInv'
<1>1. \A v \in Tasks : task'[v] = IF v = w THEN c ELSE task[v]
  BY DEF LockInv, TypeOK, Becomes
<1>2. HoldersInside'
  BY <1>1 DEF LockInv, HoldersInside, Inside, At
<1>3. AnswersAreLive' /\ NoneBurned' /\ RefreshesWhatIsStale'
  BY <1>1 DEF LockInv, AnswersAreLive, NoneBurned, RefreshesWhatIsStale, Inside, At
<1>4. StoredIsLive'
  BY <1>1 DEF LockInv, StoredIsLive, At
<1>5. QED
  BY <1>2, <1>3, <1>4 DEF LockInv

\* SET NX succeeds when nobody is inside.
LEMMA LockAcquire ==
  ASSUME LockInv, TypeOK', NEW w \in Tasks, Acquire(w)
  PROVE  LockInv'
<1>1. \A v \in Tasks : task[v].pc \notin Inside
  BY Alone, NovaRefreshAssumption DEF NovaRefreshAssumption, Acquire
<1>2. blob.rt \notin spent
  BY <1>1, Alone DEF At, Inside
<1> DEFINE c == [Idle EXCEPT !.pc = "reread", !.holds = TRUE]
<1>3. c.pc = "reread" /\ c.holds = TRUE
  BY TypeIdle DEF Callers
<1>4. /\ \A v \in Tasks : task'[v] = IF v = w THEN c ELSE task[v]
      /\ lock' = w /\ UNCHANGED <<blob, spent>>
  BY DEF Acquire, Becomes, LockInv, TypeOK
<1> HIDE DEF c
<1>5. HoldersInside'
  BY <1>1, <1>3, <1>4 DEF HoldersInside, Inside, At
<1>6. AnswersAreLive' /\ NoneBurned' /\ RefreshesWhatIsStale'
  BY <1>1, <1>3, <1>4 DEF AnswersAreLive, NoneBurned, RefreshesWhatIsStale, Inside, At
<1>7. QED
  BY <1>2, <1>4, <1>5, <1>6 DEF LockInv, StoredIsLive

\* What the holder is about to post is what the blob holds, live and stale.
LEMMA LockReread ==
  ASSUME LockInv, TypeOK', NEW w \in Tasks, RereadInLock(w), Usable
  PROVE  LockInv'
<1> DEFINE c == [task[w] EXCEPT !.pc = "post", !.rt = blob.rt]
<1>1. c.pc = "post" /\ c.holds = task[w].holds /\ c.rt = blob.rt
  BY DEF LockInv, TypeOK, Callers
<1>2. lock = w /\ task[w].holds /\ \A v \in Tasks : v # w => task[v].pc \notin Inside
  BY Alone DEF RereadInLock, At, Inside
<1>3. blob.rt \notin spent /\ ~blob.fresh
  BY <1>2, Alone DEF RereadInLock, At, Inside, Usable
<1>4. /\ \A v \in Tasks : task'[v] = IF v = w THEN c ELSE task[v]
      /\ UNCHANGED <<blob, lock, spent>>
  BY DEF RereadInLock, Reread, Becomes, LockInv, TypeOK
<1> HIDE DEF c
<1>5. HoldersInside'
  BY <1>1, <1>2, <1>4 DEF HoldersInside, Inside, At
<1>6. AnswersAreLive' /\ NoneBurned' /\ RefreshesWhatIsStale'
  BY <1>1, <1>2, <1>3, <1>4 DEF AnswersAreLive, NoneBurned, RefreshesWhatIsStale, Inside, At
<1>7. QED
  BY <1>3, <1>4, <1>5, <1>6 DEF LockInv, StoredIsLive

\* The refresh spends the holder's token, and its successor is on its way.
LEMMA LockRefresh ==
  ASSUME LockInv, TypeOK', NEW w \in Tasks, Refresh(w)
  PROVE  LockInv'
<1>1. lock = w /\ task[w].holds /\ \A v \in Tasks : v # w => task[v].pc \notin Inside
  BY Alone DEF Refresh, At, Inside
<1>2. PICK t : /\ Becomes(w, [task[w] EXCEPT !.pc = "store", !.got = t])
               /\ \/ spent' = spent /\ t = task[w].rt
                  \/ Unheld(t) /\ spent' = (spent \ {t}) \cup {task[w].rt}
  BY DEF Refresh
<1>3. t \notin spent'
  <2>1. task[w].rt \notin spent
    BY DEF Refresh
  <2>2. Unheld(t) => t # task[w].rt
    BY DEF Unheld
  <2>3. QED
    BY <1>2, <2>1, <2>2
<1> DEFINE c == [task[w] EXCEPT !.pc = "store", !.got = t]
<1>4. c.pc = "store" /\ c.holds = task[w].holds /\ c.got = t
  BY DEF LockInv, TypeOK, Callers
<1>5. /\ \A v \in Tasks : task'[v] = IF v = w THEN c ELSE task[v]
      /\ UNCHANGED <<blob, lock>>
  BY <1>2 DEF Refresh, Becomes, LockInv, TypeOK
<1> HIDE DEF c
<1>6. HoldersInside'
  BY <1>1, <1>4, <1>5 DEF HoldersInside, Inside, At
<1>7. AnswersAreLive' /\ NoneBurned' /\ RefreshesWhatIsStale' /\ StoredIsLive'
  BY <1>1, <1>3, <1>4, <1>5
     DEF AnswersAreLive, NoneBurned, RefreshesWhatIsStale, StoredIsLive, Inside, At
<1>8. QED
  BY <1>6, <1>7 DEF LockInv

\* The store makes the answer the credential.
LEMMA LockStore ==
  ASSUME LockInv, TypeOK', NEW w \in Tasks, Store(w)
  PROVE  LockInv'
<1>1. /\ \A v \in Tasks : v # w => task[v].pc \notin Inside
      /\ blob'.rt = task[w].got /\ task[w].got \notin spent /\ spent' = spent /\ lock' = lock
  BY Alone DEF Store, StoreBlob, Blob, At, Inside, LockInv, AnswersAreLive
<1>2. \A v \in Tasks : (v # w => task'[v] = task[v]) /\ task'[v].pc \notin Inside
  <2>1. PICK c \in {Idle, Finally} : Becomes(w, c)
    BY DEF Store, Leave
  <2>2. Idle.pc \notin Inside /\ Finally.pc \notin Inside
    BY TypeIdle DEF Idle, Finally, Callers, Inside
  <2>3. \A v \in Tasks : task'[v] = IF v = w THEN c ELSE task[v]
    BY <2>1 DEF Becomes, LockInv, TypeOK
  <2>4. QED
    BY <1>1, <2>1, <2>2, <2>3
<1>3. QED
  BY <1>1, <1>2 DEF LockInv, HoldersInside, AnswersAreLive, NoneBurned, RefreshesWhatIsStale,
                    StoredIsLive, Inside, At

\* What happens to lock and credential from outside: an expired lock is one
\* whose holder is no longer inside; an operator's token is held by nobody.
LEMMA LockEnvironment ==
  ASSUME Guarded, LockInv, TypeOK',
         (\E w \in Tasks : Expire(w)) \/ Ages \/ Authorize \/ Disconnect
  PROVE  LockInv'
<1>1. CASE \E w \in Tasks : Expire(w)
  <2>1. PICK w \in Tasks : Expire(w)
    BY <1>1
  <2>2. \A v \in Tasks : task[v].pc \notin Inside
    BY <2>1, Alone DEF Expire, Expires, Guarded, Inside
  <2>3. QED
    BY <2>1, <2>2 DEF Expire, LockInv, HoldersInside, AnswersAreLive, NoneBurned,
                      RefreshesWhatIsStale, StoredIsLive, Inside, At
<1>2. CASE Authorize
  <2>1. PICK t \in Tokens : Unheld(t) /\ spent' = spent \ {t} /\ blob' = Blob(t)
    BY <1>2 DEF Authorize
  <2>2. blob'.rt = t /\ lock' = lock /\ task' = task
    BY <1>2, <2>1 DEF Authorize, Blob
  <2>3. QED
    BY <2>1, <2>2 DEF Unheld, LockInv, HoldersInside, AnswersAreLive, NoneBurned,
                      RefreshesWhatIsStale, StoredIsLive, At
<1>3. CASE Ages \/ Disconnect
  <2>1. /\ spent' = spent /\ lock' = lock /\ task' = task
        /\ blob'.fresh = FALSE /\ (blob'.rt = blob.rt \/ blob'.rt = NoToken)
    BY <1>3 DEF Ages, Disconnect, NoBlob, LockInv, TypeOK
  <2>2. NoToken \notin spent
    BY NovaRefreshAssumption DEF NovaRefreshAssumption, LockInv, TypeOK
  <2>3. QED
    BY <2>1, <2>2 DEF LockInv, HoldersInside, AnswersAreLive, NoneBurned,
                      RefreshesWhatIsStale, StoredIsLive, At
<1>4. QED
  BY <1>1, <1>2, <1>3

\* LockInv is inductive.
LEMMA LockNext == Guarded /\ LockInv /\ [Next]_vars => LockInv'
<1> SUFFICES ASSUME Guarded, LockInv, [Next]_vars PROVE LockInv'
  OBVIOUS
<1>0. TypeOK /\ TypeOK'
  BY TypeNext DEF LockInv
<1>1. ASSUME NEW w \in Tasks, Becomes(w, Idle) \/ Leave(w), task[w].pc # "store",
             UNCHANGED <<blob, spent>>, lock' = lock \/ lock = w
      PROVE  LockInv'
  <2>1. Idle.pc \notin Inside /\ Finally.pc \notin Inside
    BY TypeIdle DEF Idle, Finally, Callers, Inside
  <2>2. QED
    BY <1>0, <1>1, <2>1, LockOutside DEF Leave
<1>2. ASSUME NEW w \in Tasks, NEW p \in {"check", "wait", "lock"}, task[w].pc # "store",
             \/ Goto(w, p)
             \/ Becomes(w, [task[w] EXCEPT !.pc = p, !.rt = blob.rt])
             \/ Becomes(w, [Idle EXCEPT !.pc = p]),
             UNCHANGED <<blob, spent, lock>>
      PROVE  LockInv'
  <2>1. /\ [task[w] EXCEPT !.pc = p].pc \notin Inside
        /\ [task[w] EXCEPT !.pc = p, !.rt = blob.rt].pc \notin Inside
        /\ [Idle EXCEPT !.pc = p].pc \notin Inside
    BY <1>0, TypeIdle DEF TypeOK, Callers, Inside
  <2>2. QED
    BY <1>0, <1>2, <2>1, LockOutside DEF Goto
<1>3. ASSUME NEW w \in Tasks, Ask(w) \/ Check(w) \/ Taken(w) \/ Poll(w) PROVE LockInv'
  <2>1. UNCHANGED <<blob, spent, lock>> /\ task[w].pc # "store"
    BY <1>3 DEF Ask, Check, Taken, Poll, At
  <2>2. \/ Becomes(w, Idle)
        \/ \E p \in {"check", "wait", "lock"} :
             \/ Goto(w, p)
             \/ Becomes(w, [task[w] EXCEPT !.pc = p, !.rt = blob.rt])
             \/ Becomes(w, [Idle EXCEPT !.pc = p])
    BY <1>3 DEF Ask, Check, Taken, Poll
  <2>3. QED
    BY <1>1, <1>2, <2>1, <2>2
<1>4. ASSUME NEW w \in Tasks, RefreshFails(w) \/ Raises(w) \/ Dies(w) PROVE LockInv'
  <2>1. UNCHANGED <<blob, spent, lock>> /\ task[w].pc # "store" /\ (Becomes(w, Idle) \/ Leave(w))
    BY <1>4 DEF RefreshFails, Raises, Dies, At, Guarded
  <2>2. QED
    BY <1>1, <2>1
<1>5. ASSUME NEW w \in Tasks, Release(w) PROVE LockInv'
  <2>1. UNCHANGED <<blob, spent>> /\ task[w].pc # "store" /\ Becomes(w, Idle)
        /\ (lock' = lock \/ lock = w)
    BY <1>5 DEF Release, CompareAndDelete, At
  <2>2. QED
    BY <1>1, <2>1
<1>6. ASSUME NEW w \in Tasks, RereadInLock(w) PROVE LockInv'
  <2>1. CASE Usable
    BY <1>0, <1>6, <2>1, LockReread
  <2>2. CASE ~Usable
    <3>1. UNCHANGED <<blob, spent, lock>> /\ task[w].pc # "store" /\ Leave(w)
      BY <1>6, <2>2 DEF RereadInLock, Reread, At
    <3>2. QED
      BY <1>1, <3>1
  <2>3. QED
    BY <2>1, <2>2
<1>7. ASSUME NEW w \in Tasks, Acquire(w) \/ Refresh(w) \/ Store(w) PROVE LockInv'
  BY <1>0, <1>7, LockAcquire, LockRefresh, LockStore
<1>8. CASE (\E w \in Tasks : Expire(w)) \/ Ages \/ Authorize \/ Disconnect
  BY <1>0, <1>8, LockEnvironment
<1>9. CASE UNCHANGED vars
  BY <1>0, <1>9 DEF vars, LockInv, HoldersInside, AnswersAreLive, NoneBurned,
                    RefreshesWhatIsStale, StoredIsLive, At
<1>10. QED
  BY <1>3, <1>4, <1>5, <1>6, <1>7, <1>8, <1>9 DEF Next, TaskStep, SetFails, Guarded

\* However many callers race, no refresh token is posted once it is spent.
THEOREM NoTokenIsBurned ==
  ASSUME Guarded
  PROVE  Spec => []NoneBurned
<1>1. LockInv => NoneBurned
  BY DEF LockInv
<1>2. QED
  BY <1>1, LockInit, LockNext, PTL DEF Spec

\* The stored credential is live, or its live successor is about to be stored.
THEOREM CredentialSurvives ==
  ASSUME Guarded
  PROVE  Spec => []StoredIsLive
<1>1. LockInv => StoredIsLive
  BY DEF LockInv
<1>2. QED
  BY <1>1, LockInit, LockNext, PTL DEF Spec

\* Nobody refreshes what has been refreshed since.
THEOREM NoNeedlessRefresh ==
  ASSUME Guarded
  PROVE  Spec => []RefreshesWhatIsStale
<1>1. LockInv => RefreshesWhatIsStale
  BY DEF LockInv
<1>2. QED
  BY <1>1, LockInit, LockNext, PTL DEF Spec

-----------------------------------------------------------------------------
(* Releasing the lock, which needs no condition either.                    *)

\* A step that takes the lock from w leaves every other caller as it was.
ReleasesOwn ==
  \A w \in Tasks : task'[w] # task[w] /\ lock # Free => lock' \in {lock, Free}
                   /\ (lock' = Free => lock = w)

\* A step of caller v changes no other caller.
LEMMA OthersStay ==
  ASSUME TypeOK, NEW v \in Tasks, NEW c, Becomes(v, c), NEW w \in Tasks, w # v
  PROVE  task'[w] = task[w]
BY DEF TypeOK, Becomes

\* Every step of [Next]_vars releases the lock for its own caller at most.
LEMMA StepReleasesOwn == TypeOK /\ [Next]_vars => ReleasesOwn
<1> SUFFICES ASSUME TypeOK, [Next]_vars, NEW w \in Tasks, task'[w] # task[w], lock # Free
             PROVE  lock' \in {lock, Free} /\ (lock' = Free => lock = w)
  BY DEF ReleasesOwn
<1>1. lock \in Tasks /\ Free \notin Tasks
  BY NovaRefreshAssumption DEF NovaRefreshAssumption, TypeOK
<1>2. ASSUME NEW v \in Tasks, TaskStep(v), ~Acquire(v), ~Release(v) PROVE lock' = lock
  BY <1>2 DEF TaskStep, Check, Taken, Poll, RereadInLock, Refresh, RefreshFails, Store
<1>3. ASSUME NEW v \in Tasks, Ask(v) \/ SetFails(v) \/ Raises(v) \/ Dies(v) PROVE lock' = lock
  BY <1>3 DEF Ask, SetFails, Raises, Dies
<1>4. ASSUME NEW v \in Tasks, Release(v) PROVE lock' = lock \/ (lock = v /\ lock' = Free /\ v = w)
  <2>1. Becomes(v, Idle)
    BY <1>4 DEF Release
  <2>2. w = v
    BY <2>1, OthersStay
  <2>3. QED
    BY <1>4, <2>2 DEF Release, CompareAndDelete
<1>5. ASSUME NEW v \in Tasks, Acquire(v) PROVE FALSE
  BY <1>5 DEF Acquire
<1>6. ASSUME (\E v \in Tasks : Expire(v)) \/ Ages \/ Authorize \/ Disconnect \/ UNCHANGED vars
      PROVE FALSE
  BY <1>6 DEF Expire, Ages, Authorize, Disconnect, vars
<1>7. QED
  BY <1>1, <1>2, <1>3, <1>4, <1>5, <1>6 DEF Next

\* Whatever fails and whoever dies or stalls, no caller's step takes away the
\* lock of another.
THEOREM OnlyOwnLockIsReleased == Spec => OnlyHolderReleases
<1>1. TypeOK /\ [Next]_vars => ReleasesOwn
  BY StepReleasesOwn
<1>2. TypeOK /\ [Next]_vars => [ReleasesOwn]_vars
  BY <1>1
<1>3. Spec => [][ReleasesOwn]_vars
  BY <1>2, TypeCorrect, PTL DEF Spec
<1>4. QED
  BY <1>3 DEF OnlyHolderReleases, ReleasesOwn

=============================================================================
