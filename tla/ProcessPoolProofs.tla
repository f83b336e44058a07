-------------------------- MODULE ProcessPoolProofs --------------------------
(***************************************************************************)
(* Theorems about ProcessPool, for any number of sessions, calls, faults   *)
(* and any cap: types, TurnKeepsProcess, PoolBounded and CleansUp.         *)
(*                                                                         *)
(* They rest on what the locks know.  Who has or waits for the lock of a   *)
(* slot is doing what needs it (LocksOK), and a slot is of one session and *)
(* leaves the pool for good (SlotsOK).  The lemmas on these take the       *)
(* actors, the slots and the pool as A, S and P, before a step or after.   *)
(***************************************************************************)
EXTENDS ProcessPool, FiniteSetTheorems, TLAPS

Evicting == {"shed", "kill", "unstage"}
Waiting  == {"wait", "shed"}

\* The slot an actor has, or waits for, the lock of.
Wants(r) == IF r.pc \in Evicting THEN r.on ELSE r.own

InLine(a, q)  == \E k \in 1..Len(q) : q[k] = a
NoneTwice(q)  == \A j, k \in 1..Len(q) : q[j] = q[k] => j = k
Queued(A, a, i) == A[a].pc \in Waiting /\ Wants(A[a]) = i
Has(A, a, i)    == A[a].pc # "idle" /\ Wants(A[a]) = i

\* What a slot knows of the actors, and an actor of the slot it wants.
SlotLock(A, p, i) ==
  /\ p.holder # None => Has(A, p.holder, i)
  /\ \A a \in Actors : InLine(a, p.queue) => Queued(A, a, i) /\ p.holder # a
  /\ NoneTwice(p.queue)

ActorLock(S, a, r) ==
  r.pc # "idle" =>
    /\ Wants(r) \in Slots
    /\ \/ S[Wants(r)].holder = a
       \/ r.pc \in Waiting /\ InLine(a, S[Wants(r)].queue)

LocksOK(A, S) ==
  /\ \A i \in Slots : SlotLock(A, S[i], i)
  /\ \A a \in Actors : ActorLock(S, a, A[a])

Sheds(r, i) == r.on = i /\ r.on # r.own /\ r.on # 0

\* What an actor's record can be, with n slots made so far.
Shape(a, r, n) ==
  /\ r.own <= n /\ r.on <= n
  /\ r.pc = "idle" => r.own = 0 /\ r.on = 0
  /\ a = Reaper => r.own = 0 /\ r.pc \in {"idle", "shed", "unstage"}
  /\ a # Reaper /\ r.pc # "idle" => r.own # 0 /\ r.of # None
  /\ r.pc \in {"wait", "spawn", "stream"} => r.on = 0
  /\ r.pc \in Evicting => r.on # 0
  /\ r.pc = "kill" => r.on = r.own
  /\ r.pc = "shed" => r.on # r.own

SlotsOK(P, A, n) ==
  /\ \A s, t \in Sessions : P[s] = P[t] /\ P[s] # 0 => s = t
  /\ \A a \in Actors : Shape(a, A[a], n)
  /\ \A c \in Callers, s \in Sessions : P[s] = A[c].own /\ P[s] # 0 => A[c].of = s
  /\ \A c, d \in Callers : A[c].own = A[d].own /\ A[c].own # 0 => A[c].of = A[d].of
  /\ \A a \in Actors, s \in Sessions : ~Sheds(A[a], P[s])
  /\ \A a, b \in Actors : Sheds(A[a], A[b].on) /\ Sheds(A[b], A[b].on) => a = b

BaseInv == TypeOK /\ LocksOK(act, slot) /\ SlotsOK(pool, act, calls)

-----------------------------------------------------------------------------
\* A refreshed credential that is not stored yet is that of a turn whose call
\* still has the lock and will store it.
Rotated(a, r, i) ==
  /\ a \in Callers /\ r.own = i
  /\ \/ r.pc = "stream" /\ r.heard
     \/ r.pc \in {"kill", "unstage"} /\ r.on = i

BlobOK(p, i, A) ==
  \/ p.blob = "stored"
  \/ p.blob = "unsaved" /\ p.holder # None /\ Rotated(p.holder, A[p.holder], i)

BlobInv == \A i \in Slots : BlobOK(slot[i], i, act)

-----------------------------------------------------------------------------
\* While calls are orderly: one call of a session at a time; its slot is in the
\* pool, or the actor that took it out waits behind it; and what an eviction
\* has killed stays dead.
Tracked(P, A, S, c) ==
  \/ P[A[c].of] = A[c].own
  \/ /\ P[A[c].of] = 0
     /\ \E a \in Actors : Sheds(A[a], A[c].own)

Behind(A, S, c, a) ==
  Sheds(A[a], A[c].own) =>
    LET p == S[A[c].own] IN
    \/ p.holder = c
    \/ p.holder = None /\ p.queue # <<>> /\ Head(p.queue) = c

Tidy(P, A, S) ==
  /\ \A c, d \in Callers : A[c].pc # "idle" /\ A[d].pc # "idle" /\ A[c].of = A[d].of => c = d
  /\ \A c \in Callers : A[c].pc # "idle" => Tracked(P, A, S, c)
  /\ \A c \in Callers, a \in Actors : A[c].pc # "idle" => Behind(A, S, c, a)

Dead == \A a \in Actors : At(a, "unstage") => slot[act[a].on].proc = "none"

LeakInv == Dead /\ (orderly => Tidy(pool, act, slot)) /\ NothingLeaks

-----------------------------------------------------------------------------
(* The queue of a lock.                                                    *)

LEMMA Constants ==
  /\ Actors = Callers \cup {Reaper} /\ Reaper \notin Callers /\ None \notin Actors
  /\ None \notin Sessions /\ MaxCalls \in Nat /\ MaxFaults \in Nat /\ Cap \in Nat \ {0}
  /\ IsFiniteSet(Callers) /\ IsFiniteSet(Sessions) /\ Slots = 1..MaxCalls
BY ProcessPoolAssumption DEF Actors, Slots

\* Who comes last is behind those who were there.
LEMMA LineAppend ==
  ASSUME NEW q \in Seq(Actors), NEW a \in Actors
  PROVE  /\ Append(q, a) \in Seq(Actors) /\ Append(q, a) # <<>>
         /\ \A b : InLine(b, Append(q, a)) <=> InLine(b, q) \/ b = a
         /\ NoneTwice(q) /\ ~InLine(a, q) => NoneTwice(Append(q, a))
         /\ q # <<>> => Head(Append(q, a)) = Head(q)
<1>1. Append(q, a) \in Seq(Actors) /\ Len(Append(q, a)) = Len(q) + 1 /\ Len(q) \in Nat
  OBVIOUS
<1>2. Append(q, a)[Len(q) + 1] = a /\ \A k \in 1..Len(q) : Append(q, a)[k] = q[k]
  OBVIOUS
<1>3. \A b : InLine(b, Append(q, a)) <=> InLine(b, q) \/ b = a
  <2>1. ASSUME NEW b, InLine(b, Append(q, a)) PROVE InLine(b, q) \/ b = a
    <3>1. PICK k \in 1..(Len(q) + 1) : Append(q, a)[k] = b
      BY <1>1, <2>1 DEF InLine
    <3>2. CASE k = Len(q) + 1
      BY <1>2, <3>1, <3>2
    <3>3. CASE k # Len(q) + 1
      BY <1>1, <1>2, <3>1, <3>3 DEF InLine
    <3>4. QED
      BY <3>2, <3>3
  <2>2. ASSUME NEW b, InLine(b, q) PROVE InLine(b, Append(q, a))
    BY <1>1, <1>2, <2>2 DEF InLine
  <2>3. InLine(a, Append(q, a))
    BY <1>1, <1>2 DEF InLine
  <2>4. QED
    BY <2>1, <2>2, <2>3
<1>4. NoneTwice(q) /\ ~InLine(a, q) => NoneTwice(Append(q, a))
  BY <1>1, <1>2 DEF NoneTwice, InLine
<1>5. Append(q, a) # <<>>
  BY <1>1
<1>6. q # <<>> => Head(Append(q, a)) = Head(q)
  <2> SUFFICES ASSUME q # <<>> PROVE Head(Append(q, a)) = Head(q)
    OBVIOUS
  <2>1. 1 \in 1..Len(q) /\ Head(q) = q[1] /\ Head(Append(q, a)) = Append(q, a)[1]
    BY <1>1, <1>5
  <2>2. QED
    BY <1>2, <2>1
<1>7. QED
  BY <1>1, <1>3, <1>4, <1>5, <1>6

\* The first one goes.
LEMMA LineTail ==
  ASSUME NEW q \in Seq(Actors), q # <<>>, NoneTwice(q)
  PROVE  /\ Tail(q) \in Seq(Actors) /\ Head(q) \in Actors
         /\ \A b : InLine(b, Tail(q)) <=> InLine(b, q) /\ b # Head(q)
         /\ InLine(Head(q), q)
         /\ NoneTwice(Tail(q))
<1>1. /\ Tail(q) \in Seq(Actors) /\ Len(Tail(q)) = Len(q) - 1 /\ Len(q) \in Nat \ {0}
      /\ Head(q) = q[1] /\ Head(q) \in Actors
      /\ \A k \in 1..(Len(q) - 1) : Tail(q)[k] = q[k + 1]
  OBVIOUS
<1>2. ASSUME NEW b, InLine(b, Tail(q)) PROVE InLine(b, q) /\ b # Head(q)
  <2>1. PICK k \in 1..(Len(q) - 1) : Tail(q)[k] = b
    BY <1>1, <1>2 DEF InLine
  <2>2. q[k + 1] = b /\ k + 1 \in 1..Len(q) /\ 1 \in 1..Len(q) /\ k + 1 # 1
    BY <1>1, <2>1
  <2>3. QED
    BY <1>1, <2>2 DEF InLine, NoneTwice
<1>3. ASSUME NEW b, InLine(b, q), b # Head(q) PROVE InLine(b, Tail(q))
  <2>1. PICK k \in 1..Len(q) : q[k] = b
    BY <1>3 DEF InLine
  <2>2. k - 1 \in 1..(Len(q) - 1) /\ (k - 1) + 1 = k
    BY <1>1, <1>3, <2>1
  <2>3. Tail(q)[k - 1] = b
    BY <1>1, <2>1, <2>2
  <2>4. QED
    BY <1>1, <2>2, <2>3 DEF InLine
<1>4. NoneTwice(Tail(q))
  <2> SUFFICES ASSUME NEW j \in 1..(Len(q) - 1), NEW k \in 1..(Len(q) - 1), Tail(q)[j] = Tail(q)[k]
               PROVE  j = k
    BY <1>1 DEF NoneTwice
  <2>1. q[j + 1] = q[k + 1] /\ j + 1 \in 1..Len(q) /\ k + 1 \in 1..Len(q)
    BY <1>1
  <2>2. QED
    BY <2>1 DEF NoneTwice
<1>5. InLine(Head(q), q)
  BY <1>1 DEF InLine
<1>6. QED
  BY <1>1, <1>2, <1>3, <1>4, <1>5

\* One who waited is gone.
LEMMA LineWithout ==
  ASSUME NEW q \in Seq(Actors), NEW a, InLine(a, q), NoneTwice(q)
  PROVE  /\ Without(q, a) \in Seq(Actors)
         /\ \A b : InLine(b, Without(q, a)) <=> InLine(b, q) /\ b # a
         /\ NoneTwice(Without(q, a))
         /\ Without(q, a) # <<>> /\ Head(q) # a => Head(Without(q, a)) = Head(q)
<1>1. PICK k \in DOMAIN q : k = CHOOSE j \in DOMAIN q : q[j] = a
  BY DEF InLine
<1>2. q[k] = a /\ k \in 1..Len(q) /\ Len(q) \in Nat \ {0}
  BY <1>1 DEF InLine
<1>3. PICK w : w = Without(q, a)
  OBVIOUS
<1>4. w = [j \in 1..(Len(q) - 1) |-> IF j < k THEN q[j] ELSE q[j + 1]]
  BY <1>1, <1>3 DEF Without
<1>5. w \in Seq(Actors) /\ Len(w) = Len(q) - 1
  <2>1. Len(q) - 1 \in Nat /\ \A j \in 1..(Len(q) - 1) : j + 1 \in 1..Len(q) /\ j \in 1..Len(q)
    BY <1>2
  <2>2. w \in [1..(Len(q) - 1) -> Actors]
    BY <1>4, <2>1
  <2>3. QED
    BY <2>1, <2>2, SMTT(60)
<1>6. \A j \in 1..(Len(q) - 1) : w[j] = IF j < k THEN q[j] ELSE q[j + 1]
  BY <1>4
<1>7. ASSUME NEW b, InLine(b, w) PROVE InLine(b, q) /\ b # a
  <2>1. PICK j \in 1..(Len(q) - 1) : w[j] = b
    BY <1>5, <1>7 DEF InLine
  <2>2. PICK m \in 1..Len(q) : q[m] = b /\ m # k
    BY <1>2, <1>6, <2>1
  <2>3. QED
    BY <1>2, <2>2 DEF InLine, NoneTwice
<1>8. ASSUME NEW b, InLine(b, q), b # a PROVE InLine(b, w)
  <2>1. PICK m \in 1..Len(q) : q[m] = b
    BY <1>8 DEF InLine
  <2>2. CASE m < k
    <3>1. m \in 1..(Len(q) - 1) /\ w[m] = b
      BY <1>2, <1>6, <2>1, <2>2
    <3>2. QED
      BY <1>5, <3>1 DEF InLine
  <2>3. CASE m > k
    <3>1. m - 1 \in 1..(Len(q) - 1) /\ w[m - 1] = q[(m - 1) + 1]
      BY <1>2, <1>6, <2>3
    <3>2. w[m - 1] = b
      BY <2>1, <3>1
    <3>3. QED
      BY <1>5, <3>1, <3>2 DEF InLine
  <2>4. QED
    BY <1>2, <1>8, <2>1, <2>2, <2>3
<1>9. NoneTwice(w)
  <2> SUFFICES ASSUME NEW i \in 1..(Len(q) - 1), NEW j \in 1..(Len(q) - 1), w[i] = w[j]
               PROVE  i = j
    BY <1>5 DEF NoneTwice
  <2>1. PICK m \in 1..Len(q) : q[m] = w[i] /\ m = IF i < k THEN i ELSE i + 1
    BY <1>2, <1>6
  <2>2. PICK n \in 1..Len(q) : q[n] = w[j] /\ n = IF j < k THEN j ELSE j + 1
    BY <1>2, <1>6
  <2>3. m = n
    BY <2>1, <2>2 DEF NoneTwice
  <2>4. QED
    BY <1>2, <2>1, <2>2, <2>3
<1>10. w # <<>> /\ Head(q) # a => Head(w) = Head(q)
  <2> SUFFICES ASSUME w # <<>>, Head(q) # a PROVE Head(w) = Head(q)
    OBVIOUS
  <2>1. 1 \in 1..(Len(q) - 1) /\ Head(w) = w[1] /\ Head(q) = q[1]
    BY <1>2, <1>5
  <2>2. k # 1
    BY <1>2, <2>1
  <2>3. QED
    BY <1>2, <1>6, <2>1, <2>2
<1>11. QED
  BY <1>3, <1>5, <1>7, <1>8, <1>9, <1>10

-----------------------------------------------------------------------------
(* What the locks know, through each way to take and leave them.           *)

Typed(A, S) == A \in [Actors -> ActStates] /\ S \in [Slots -> SlotStates]

LEMMA SlotTypes ==
  ASSUME NEW p \in SlotStates, NEW a \in Actors
  PROVE  /\ NewSlot \in SlotStates /\ Take(p, a) \in SlotStates
         /\ Persisted(p) \in SlotStates /\ Released(p) \in SlotStates
         /\ Restage(p) \in SlotStates /\ Unstaged(p) \in SlotStates
         /\ p.queue \in Seq(Actors) /\ p.holder \in Actors \cup {None}
<1>1. p.queue \in Seq(Actors) /\ p.holder \in Actors \cup {None} /\ <<>> \in Seq(Actors)
      /\ Append(p.queue, a) \in Seq(Actors)
  BY LineAppend DEF SlotStates
<1>2. NewSlot \in SlotStates
  BY <1>1 DEF NewSlot, SlotStates
<1>3. Take(p, a) \in SlotStates
  BY <1>1 DEF Take, SlotStates
<1>4. Persisted(p) \in SlotStates /\ Released(p) \in SlotStates /\ Restage(p) \in SlotStates
  BY DEF Persisted, Released, Restage, SlotStates
<1>5. Unstaged(p) \in SlotStates
  <2>1. PICK q \in SlotStates : q = Persisted(p)
    BY <1>4
  <2>2. Unstaged(p) = [q EXCEPT !.home = FALSE, !.holder = None,
                                !.blob = IF q.blob = "unsaved" THEN "lost" ELSE q.blob]
    BY <2>1 DEF Unstaged
  <2>3. QED
    BY <2>2 DEF SlotStates
<1>6. QED
  BY <1>1, <1>2, <1>3, <1>4, <1>5

\* Nobody takes, leaves or wants another lock than before.
LEMMA LocksQuiet ==
  ASSUME NEW A, NEW S, NEW B, NEW T, Typed(A, S), LocksOK(A, S),
         \A i \in Slots : T[i].holder = S[i].holder /\ T[i].queue = S[i].queue,
         \A a \in Actors :
           /\ A[a].pc = "idle" <=> B[a].pc = "idle"
           /\ A[a].pc # "idle" => Wants(B[a]) = Wants(A[a])
           /\ \/ B[a].pc = A[a].pc
              \/ Wants(A[a]) \in Slots /\ S[Wants(A[a])].holder = a
  PROVE  LocksOK(B, T)
<1>0. "idle" \notin Waiting
  BY Constants DEF Waiting
<1>1. ASSUME NEW i \in Slots PROVE SlotLock(B, T[i], i)
  <2>1. SlotLock(A, S[i], i)
    BY DEF LocksOK
  <2>2. T[i].holder # None => Has(B, T[i].holder, i)
    <3>1. SUFFICES ASSUME T[i].holder # None, Has(A, T[i].holder, i)
                   PROVE  Has(B, T[i].holder, i)
      BY <2>1 DEF SlotLock
    <3>2. T[i].holder \in Actors
      BY <3>1 DEF Typed, SlotStates
    <3>3. QED
      BY <3>1, <3>2 DEF Has
  <2>3. ASSUME NEW a \in Actors, InLine(a, T[i].queue) PROVE Queued(B, a, i) /\ T[i].holder # a
    BY <2>1, <2>3, <1>0 DEF SlotLock, Queued
  <2>4. QED
    BY <2>1, <2>2, <2>3 DEF SlotLock
<1>2. ASSUME NEW a \in Actors PROVE ActorLock(T, a, B[a])
  BY DEF LocksOK, ActorLock
<1>3. QED
  BY <1>1, <1>2 DEF LocksOK

\* An actor that was idle takes a lock or queues for it.
LEMMA LocksTake ==
  ASSUME NEW A, NEW S, Typed(A, S), LocksOK(A, S),
         NEW a \in Actors, A[a].pc = "idle",
         NEW r \in ActStates, r.pc \in Waiting, NEW i \in Slots, Wants(r) = i
  PROVE  LocksOK([A EXCEPT ![a] = r], [S EXCEPT ![i] = Take(@, a)])
<1>1. PICK B : B = [A EXCEPT ![a] = r]
  OBVIOUS
<1>2. PICK T : T = [S EXCEPT ![i] = Take(@, a)]
  OBVIOUS
<1>3. B[a] = r /\ \A b \in Actors : b # a => B[b] = A[b]
  BY <1>1 DEF Typed
<1>4. T[i] = Take(S[i], a) /\ \A j \in Slots : j # i => T[j] = S[j]
  BY <1>2 DEF Typed
<1>5. "idle" \notin Waiting /\ a # None
  BY Constants DEF Waiting
<1>6. ASSUME NEW j \in Slots
      PROVE  /\ S[j] \in SlotStates /\ SlotLock(A, S[j], j)
             /\ S[j].holder # a /\ ~InLine(a, S[j].queue)
    <2>1. SlotLock(A, S[j], j) /\ S[j] \in SlotStates
      BY DEF LocksOK, Typed
    <2>2. QED
      BY <1>5, <2>1 DEF SlotLock, Has, Queued
<1>7. \/ T[i].holder = a /\ T[i].queue = S[i].queue /\ S[i].queue = <<>> /\ S[i].holder = None
      \/ T[i].holder = S[i].holder /\ T[i].queue = Append(S[i].queue, a)
  BY <1>4, <1>6 DEF Take, SlotStates
<1>8. /\ \A b : InLine(b, Append(S[i].queue, a)) <=> InLine(b, S[i].queue) \/ b = a
      /\ NoneTwice(Append(S[i].queue, a))
  <2>1. S[i].queue \in Seq(Actors) /\ NoneTwice(S[i].queue) /\ ~InLine(a, S[i].queue)
    BY <1>6, SlotTypes DEF SlotLock
  <2>2. QED
    BY <2>1, LineAppend
<1>9. Has(B, a, i) /\ Queued(B, a, i)
  BY <1>3, <1>5 DEF Has, Queued
<1>10. \A b \in Actors, j \in Slots : b # a => (Has(B, b, j) <=> Has(A, b, j))
                                              /\ (Queued(B, b, j) <=> Queued(A, b, j))
  BY <1>3 DEF Has, Queued
<1>11. SlotLock(B, T[i], i)
  <2>1. T[i].holder # None => Has(B, T[i].holder, i)
    BY <1>6, <1>7, <1>9, <1>10, SlotTypes DEF SlotLock
  <2>2. ASSUME NEW b \in Actors, InLine(b, T[i].queue) PROVE Queued(B, b, i) /\ T[i].holder # b
    <3>1. CASE T[i].queue = S[i].queue /\ S[i].queue = <<>>
      BY <2>2, <3>1 DEF InLine
    <3>2. CASE T[i].holder = S[i].holder /\ T[i].queue = Append(S[i].queue, a)
      BY <2>2, <3>2, <1>6, <1>8, <1>9, <1>10 DEF SlotLock
    <3>3. QED
      BY <1>7, <3>1, <3>2
  <2>3. NoneTwice(T[i].queue)
    BY <1>6, <1>7, <1>8 DEF SlotLock
  <2>4. QED
    BY <2>1, <2>2, <2>3 DEF SlotLock
<1>12. ASSUME NEW j \in Slots, j # i PROVE SlotLock(B, T[j], j)
  <2>1. T[j] = S[j]
    BY <1>4, <1>12
  <2>2. QED
    BY <1>6, <1>10, <2>1, SlotTypes DEF SlotLock
<1>13. ActorLock(T, a, B[a])
  <2>1. T[i].holder = a \/ InLine(a, T[i].queue)
    BY <1>7, <1>8
  <2>2. QED
    BY <1>3, <2>1 DEF ActorLock
<1>14. ASSUME NEW b \in Actors, b # a PROVE ActorLock(T, b, B[b])
  <2>1. ActorLock(S, b, A[b]) /\ B[b] = A[b]
    BY <1>3, <1>14 DEF LocksOK
  <2>2. S[i].holder = b => T[i].holder = b
    BY <1>7, Constants
  <2>3. InLine(b, S[i].queue) => InLine(b, T[i].queue)
    BY <1>7, <1>8
  <2>4. QED
    BY <1>4, <2>1, <2>2, <2>3 DEF ActorLock
<1>15. QED
  BY <1>1, <1>2, <1>11, <1>12, <1>13, <1>14 DEF LocksOK

\* An actor that has a lock gives it back and rests.
LEMMA LocksRelease ==
  ASSUME NEW A, NEW S, Typed(A, S), LocksOK(A, S),
         NEW a \in Actors, NEW i \in Slots, Wants(A[a]) = i, S[i].holder = a,
         NEW r \in ActStates, r.pc = "idle",
         NEW p \in SlotStates, p.holder = None, p.queue = S[i].queue
  PROVE  LocksOK([A EXCEPT ![a] = r], [S EXCEPT ![i] = p])
<1>1. PICK B : B = [A EXCEPT ![a] = r]
  OBVIOUS
<1>2. PICK T : T = [S EXCEPT ![i] = p]
  OBVIOUS
<1>3. B[a] = r /\ \A b \in Actors : b # a => B[b] = A[b]
  BY <1>1 DEF Typed
<1>4. T[i] = p /\ \A j \in Slots : j # i => T[j] = S[j]
  BY <1>2 DEF Typed
<1>5. \A j \in Slots : /\ S[j] \in SlotStates /\ SlotLock(A, S[j], j)
                       /\ ~InLine(a, S[j].queue) /\ (S[j].holder = a => j = i)
  BY Constants DEF LocksOK, Typed, SlotLock, Has, Queued
<1>6. \A b \in Actors, j \in Slots : b # a => (Has(B, b, j) <=> Has(A, b, j))
                                              /\ (Queued(B, b, j) <=> Queued(A, b, j))
  BY <1>3 DEF Has, Queued
<1>7. ASSUME NEW j \in Slots PROVE SlotLock(B, T[j], j)
  <2>1. T[j].queue = S[j].queue /\ (T[j].holder = None \/ (T[j].holder = S[j].holder /\ j # i))
    <3>1. CASE j = i
      BY <1>4, <3>1
    <3>2. CASE j # i
      BY <1>4, <3>2
    <3>3. QED
      BY <3>1, <3>2
  <2>2. T[j].holder # None => Has(B, T[j].holder, j)
    BY <1>5, <1>6, <2>1, SlotTypes DEF SlotLock
  <2>3. \A b \in Actors : InLine(b, T[j].queue) => Queued(B, b, j) /\ T[j].holder # b
    BY <1>5, <1>6, <2>1, Constants DEF SlotLock
  <2>4. QED
    BY <1>5, <2>1, <2>2, <2>3 DEF SlotLock
<1>8. ASSUME NEW b \in Actors PROVE ActorLock(T, b, B[b])
  <2>1. CASE b = a
    BY <1>3, <2>1 DEF ActorLock
  <2>2. CASE b # a
    <3>1. ActorLock(S, b, A[b]) /\ B[b] = A[b]
      BY <1>3, <2>2 DEF LocksOK
    <3>2. QED
      BY <1>4, <2>2, <3>1 DEF ActorLock
  <2>3. QED
    BY <2>1, <2>2
<1>9. QED
  BY <1>1, <1>2, <1>7, <1>8 DEF LocksOK

\* The first in line takes a lock that is free.
LEMMA LocksWake ==
  ASSUME NEW A, NEW S, Typed(A, S), LocksOK(A, S),
         NEW i \in Slots, S[i].holder = None, S[i].queue # <<>>
  PROVE  /\ [S EXCEPT ![i].holder = Head(S[i].queue), ![i].queue = Tail(@)] \in [Slots -> SlotStates]
         /\ LocksOK(A, [S EXCEPT ![i].holder = Head(S[i].queue), ![i].queue = Tail(@)])
<1>1. PICK T : T = [S EXCEPT ![i].holder = Head(S[i].queue), ![i].queue = Tail(@)]
  OBVIOUS
<1>2. PICK h \in Actors : h = Head(S[i].queue)
  BY LineTail DEF Typed, LocksOK, SlotLock, SlotStates
<1>3. PICK t \in Seq(Actors) : t = Tail(S[i].queue)
  BY LineTail DEF Typed, LocksOK, SlotLock, SlotStates
<1>4. /\ \A b : InLine(b, t) <=> InLine(b, S[i].queue) /\ b # h
      /\ InLine(h, S[i].queue) /\ NoneTwice(t)
  BY <1>2, <1>3, LineTail DEF Typed, LocksOK, SlotLock, SlotStates
<1>5. T[i] = [S[i] EXCEPT !.holder = h, !.queue = t] /\ \A j \in Slots : j # i => T[j] = S[j]
  BY <1>1, <1>2, <1>3 DEF Typed
<1>6. T[i].holder = h /\ T[i].queue = t /\ T[i] \in SlotStates
  <2>1. PICK p \in SlotStates : p = S[i]
    BY DEF Typed
  <2>2. T[i] = [p EXCEPT !.holder = h, !.queue = t]
    BY <1>5, <2>1
  <2>3. QED
    BY <2>2 DEF SlotStates
<1>7. T \in [Slots -> SlotStates]
  <2>1. \A j \in Slots : T[j] \in SlotStates
    BY <1>5, <1>6 DEF Typed
  <2>2. QED
    BY <1>1, <2>1 DEF Typed
<1>8. SlotLock(A, S[i], i)
  BY DEF LocksOK
<1>9. SlotLock(A, T[i], i)
  BY <1>4, <1>6, <1>8 DEF SlotLock, Has, Queued, Waiting
<1>10. ASSUME NEW j \in Slots PROVE SlotLock(A, T[j], j)
  BY <1>5, <1>9 DEF LocksOK
<1>11. ASSUME NEW a \in Actors PROVE ActorLock(T, a, A[a])
  <2>1. ActorLock(S, a, A[a])
    BY DEF LocksOK
  <2>2. CASE Wants(A[a]) = i
    BY <1>4, <1>6, <2>1, <2>2, Constants DEF ActorLock
  <2>3. CASE Wants(A[a]) # i
    BY <1>5, <2>1, <2>3 DEF ActorLock
  <2>4. QED
    BY <2>2, <2>3
<1>12. QED
  BY <1>1, <1>7, <1>10, <1>11 DEF LocksOK

\* One who waits for a lock does so no more.
LEMMA LocksLeave ==
  ASSUME NEW A, NEW S, Typed(A, S), LocksOK(A, S),
         NEW a \in Actors, A[a].pc \in Waiting,
         NEW i \in Slots, Wants(A[a]) = i, S[i].holder # a,
         NEW r \in ActStates, r.pc = "idle"
  PROVE  /\ [S EXCEPT ![i] = Left(@, a)] \in [Slots -> SlotStates]
         /\ LocksOK([A EXCEPT ![a] = r], [S EXCEPT ![i] = Left(@, a)])
<1>0. "idle" \notin Waiting
  BY DEF Waiting
<1>1. PICK B : B = [A EXCEPT ![a] = r]
  OBVIOUS
<1>2. PICK T : T = [S EXCEPT ![i] = Left(@, a)]
  OBVIOUS
<1>3. B[a] = r /\ \A b \in Actors : b # a => B[b] = A[b]
  BY <1>1 DEF Typed
<1>4. T[i] = Left(S[i], a) /\ \A j \in Slots : j # i => T[j] = S[j]
  BY <1>2 DEF Typed
<1>5. \A j \in Slots : /\ S[j] \in SlotStates /\ SlotLock(A, S[j], j)
                       /\ S[j].holder # a /\ (InLine(a, S[j].queue) => j = i)
  BY <1>0, Constants DEF LocksOK, Typed, SlotLock, Has, Queued
<1>6. InLine(a, S[i].queue)
  BY <1>0 DEF LocksOK, ActorLock
<1>7. PICK w \in Seq(Actors) :
        /\ w = Without(S[i].queue, a) /\ NoneTwice(w)
        /\ \A b : InLine(b, w) <=> InLine(b, S[i].queue) /\ b # a
  BY <1>5, <1>6, LineWithout DEF SlotLock, SlotStates
<1>8. T[i].holder = S[i].holder /\ T[i].queue = w /\ T[i] \in SlotStates
  BY <1>4, <1>5, <1>7 DEF Left, SlotStates
<1>9. T \in [Slots -> SlotStates]
  <2>1. \A j \in Slots : T[j] \in SlotStates
    BY <1>4, <1>5, <1>8
  <2>2. QED
    BY <1>2, <2>1 DEF Typed
<1>10. \A b \in Actors, j \in Slots : b # a => (Has(B, b, j) <=> Has(A, b, j))
                                              /\ (Queued(B, b, j) <=> Queued(A, b, j))
  BY <1>3 DEF Has, Queued
<1>11. SlotLock(B, T[i], i)
  <2>1. T[i].holder # None => Has(B, T[i].holder, i)
    BY <1>5, <1>8, <1>10 DEF SlotLock, SlotStates
  <2>2. \A b \in Actors : InLine(b, T[i].queue) => Queued(B, b, i) /\ T[i].holder # b
    BY <1>5, <1>7, <1>8, <1>10 DEF SlotLock
  <2>3. QED
    BY <1>7, <1>8, <2>1, <2>2 DEF SlotLock
<1>12. ASSUME NEW j \in Slots, j # i PROVE SlotLock(B, T[j], j)
  <2>1. T[j] = S[j] /\ ~InLine(a, S[j].queue)
    BY <1>4, <1>5, <1>12
  <2>2. S[j].holder # None => Has(B, S[j].holder, j)
    BY <1>5, <1>10 DEF SlotLock, SlotStates
  <2>3. \A b \in Actors : InLine(b, S[j].queue) => Queued(B, b, j) /\ S[j].holder # b
    BY <1>5, <1>10, <2>1 DEF SlotLock
  <2>4. QED
    BY <1>5, <2>1, <2>2, <2>3 DEF SlotLock
<1>13. ASSUME NEW b \in Actors PROVE ActorLock(T, b, B[b])
  <2>1. CASE b = a
    BY <1>3, <2>1 DEF ActorLock
  <2>2. CASE b # a
    <3>1. ActorLock(S, b, A[b]) /\ B[b] = A[b]
      BY <1>3, <2>2 DEF LocksOK
    <3>2. CASE Wants(A[b]) = i
      BY <1>7, <1>8, <2>2, <3>1, <3>2 DEF ActorLock
    <3>3. CASE Wants(A[b]) # i
      BY <1>4, <3>1, <3>3 DEF ActorLock
    <3>4. QED
      BY <3>2, <3>3
  <2>3. QED
    BY <2>1, <2>2
<1>14. QED
  BY <1>1, <1>2, <1>9, <1>11, <1>12, <1>13 DEF LocksOK

\* A slot that nobody wants is made anew.
LEMMA LocksFresh ==
  ASSUME NEW A, NEW S, Typed(A, S), LocksOK(A, S),
         NEW i \in Slots, \A a \in Actors : A[a].pc # "idle" => Wants(A[a]) # i
  PROVE  /\ [S EXCEPT ![i] = NewSlot] \in [Slots -> SlotStates]
         /\ LocksOK(A, [S EXCEPT ![i] = NewSlot])
<1>1. PICK T : T = [S EXCEPT ![i] = NewSlot]
  OBVIOUS
<1>2. T[i] = NewSlot /\ \A j \in Slots : j # i => T[j] = S[j]
  BY <1>1 DEF Typed
<1>3. NewSlot \in SlotStates /\ NewSlot.holder = None /\ NewSlot.queue = <<>>
  BY DEF NewSlot, SlotStates
<1>4. T \in [Slots -> SlotStates]
  <2>1. \A j \in Slots : T[j] \in SlotStates
    BY <1>2, <1>3 DEF Typed
  <2>2. QED
    BY <1>1, <2>1 DEF Typed
<1>5. SlotLock(A, NewSlot, i)
  BY <1>3 DEF SlotLock, InLine, NoneTwice
<1>6. \A j \in Slots : SlotLock(A, T[j], j)
  BY <1>2, <1>5 DEF LocksOK
<1>7. \A a \in Actors : ActorLock(T, a, A[a])
  BY <1>2 DEF LocksOK, ActorLock
<1>8. QED
  BY <1>1, <1>4, <1>6, <1>7 DEF LocksOK

-----------------------------------------------------------------------------
(* Slots and their sessions.                                               *)

\* Slots leave the pool, and actors end.
LEMMA SlotsLess ==
  ASSUME NEW P, NEW A, NEW n \in Nat, SlotsOK(P, A, n), NEW Q, NEW B,
         \A a \in Actors : Shape(a, B[a], n),
         \A s \in Sessions : Q[s] \in {P[s], 0},
         \A a \in Actors : \/ B[a].own = A[a].own /\ B[a].of = A[a].of
                           \/ B[a].own = 0,
         \A a \in Actors, i \in Nat : Sheds(B[a], i) => Sheds(A[a], i),
         P \in [Sessions -> Nat], A \in [Actors -> ActStates], B \in [Actors -> ActStates]
  PROVE  SlotsOK(Q, B, n)
<1>1. \A s, t \in Sessions : Q[s] = Q[t] /\ Q[s] # 0 => s = t
  BY DEF SlotsOK
<1>2. \A c \in Callers, s \in Sessions : Q[s] = B[c].own /\ Q[s] # 0 => B[c].of = s
  BY Constants DEF SlotsOK
<1>3. \A c, d \in Callers : B[c].own = B[d].own /\ B[c].own # 0 => B[c].of = B[d].of
  BY Constants DEF SlotsOK
<1>4. \A a \in Actors, s \in Sessions : ~Sheds(B[a], Q[s])
  <2> SUFFICES ASSUME NEW a \in Actors, NEW s \in Sessions, Sheds(B[a], Q[s]) PROVE FALSE
    OBVIOUS
  <2>1. Q[s] # 0 /\ Q[s] = P[s] /\ Q[s] \in Nat
    BY DEF Sheds
  <2>2. QED
    BY <2>1 DEF SlotsOK
<1>5. \A a, b \in Actors : Sheds(B[a], B[b].on) /\ Sheds(B[b], B[b].on) => a = b
  <2> SUFFICES ASSUME NEW a \in Actors, NEW b \in Actors,
                      Sheds(B[a], B[b].on), Sheds(B[b], B[b].on)
               PROVE  a = b
    OBVIOUS
  <2>1. B[b].on \in Nat
    BY Constants DEF ActStates
  <2>2. Sheds(A[a], B[b].on) /\ Sheds(A[b], B[b].on)
    BY <2>1
  <2>3. A[b].on = B[b].on
    BY <2>2 DEF Sheds
  <2>4. QED
    BY <2>2, <2>3 DEF SlotsOK
<1>6. QED
  BY <1>1, <1>2, <1>3, <1>4, <1>5 DEF SlotsOK

\* An idle actor starts on a slot: a pooled one, a new one, or none of its own;
\* and it may take another one out of the pool.
LEMMA SlotsMore ==
  ASSUME NEW P \in [Sessions -> Nat], NEW A \in [Actors -> ActStates], NEW n \in Nat,
         NEW m \in Nat, m >= n, SlotsOK(P, A, n), \A s \in Sessions : P[s] <= n,
         NEW a \in Actors, A[a].pc = "idle", NEW r \in ActStates, Shape(a, r, m),
         NEW Q \in [Sessions -> Nat],
         \A s \in Sessions : \/ Q[s] \in {P[s], 0}
                             \/ Q[s] = n + 1 /\ s = r.of,
         \/ r.own = 0
         \/ r.of \in Sessions /\ Q[r.of] = r.own /\ r.own \in {n + 1, P[r.of]},
         \/ r.on = 0
         \/ \E t \in Sessions : r.on = P[t] /\ P[t] # 0 /\ Q[t] = 0
  PROVE  SlotsOK(Q, [A EXCEPT ![a] = r], m)
<1>1. PICK B : B = [A EXCEPT ![a] = r]
  OBVIOUS
<1>2. B[a] = r /\ \A b \in Actors : b # a => B[b] = A[b]
  BY <1>1
<1>3. \A s, t \in Sessions : Q[s] = Q[t] /\ Q[s] # 0 => s = t
  BY DEF SlotsOK
<1>4. \A b \in Actors : Shape(b, B[b], m) /\ A[b].own <= n /\ A[b].on <= n
                        /\ A[b].own \in Nat /\ A[b].on \in Nat
  <2> SUFFICES ASSUME NEW b \in Actors
               PROVE  Shape(b, B[b], m) /\ A[b].own <= n /\ A[b].on <= n
                      /\ A[b].own \in Nat /\ A[b].on \in Nat
    OBVIOUS
  <2>1. A[b].own \in Nat /\ A[b].on \in Nat /\ Shape(b, A[b], n)
    BY Constants DEF SlotsOK, ActStates
  <2>2. Shape(b, A[b], m)
    BY <2>1 DEF Shape
  <2>3. QED
    BY <1>2, <2>1, <2>2 DEF Shape
<1>5. ASSUME NEW c \in Callers, NEW s \in Sessions, Q[s] = B[c].own, Q[s] # 0
      PROVE  B[c].of = s
  <2>1. CASE c = a
    BY <1>2, <1>3, <1>5, <2>1
  <2>2. CASE c # a
    <3>1. B[c] = A[c] /\ A[c].own <= n /\ c \in Actors
      BY <1>2, <1>4, <2>2, Constants
    <3>2. Q[s] = P[s]
      BY <1>4, <1>5, <3>1
    <3>3. QED
      BY <1>5, <3>1, <3>2 DEF SlotsOK
  <2>3. QED
    BY <2>1, <2>2
<1>6. ASSUME NEW c \in Callers, c # a, a \in Callers, A[c].own = r.own, r.own # 0
      PROVE  A[c].of = r.of
  <2>1. r.own # n + 1
    BY <1>4, <1>6, Constants
  <2>2. QED
    BY <1>6, <2>1 DEF SlotsOK
<1>7. \A c, d \in Callers : B[c].own = B[d].own /\ B[c].own # 0 => B[c].of = B[d].of
  <2> SUFFICES ASSUME NEW c \in Callers, NEW d \in Callers, B[c].own = B[d].own, B[c].own # 0
               PROVE  B[c].of = B[d].of
    OBVIOUS
  <2>1. c \in Actors /\ d \in Actors
    BY Constants
  <2>2. CASE c # a /\ d # a
    BY <1>2, <2>1, <2>2 DEF SlotsOK
  <2>3. CASE c # a /\ d = a
    BY <1>2, <1>6, <2>1, <2>3
  <2>4. CASE c = a /\ d # a
    BY <1>2, <1>6, <2>1, <2>4
  <2>5. QED
    BY <2>2, <2>3, <2>4
<1>8. \A b \in Actors, s \in Sessions : ~Sheds(B[b], Q[s])
  <2> SUFFICES ASSUME NEW b \in Actors, NEW s \in Sessions, Sheds(B[b], Q[s]) PROVE FALSE
    OBVIOUS
  <2>1. Q[s] # 0 /\ B[b].on = Q[s]
    BY DEF Sheds
  <2>2. CASE b = a
    <3>1. PICK t \in Sessions : r.on = P[t] /\ P[t] # 0 /\ Q[t] = 0
      BY <1>2, <2>1, <2>2
    <3>2. Q[s] = P[t] /\ P[t] <= n /\ P[t] \in Nat
      BY <1>2, <2>1, <2>2, <3>1
    <3>3. P[s] = P[t]
      BY <2>1, <3>2
    <3>4. QED
      BY <2>1, <3>1, <3>3 DEF SlotsOK
  <2>3. CASE b # a
    <3>1. B[b] = A[b] /\ A[b].on <= n /\ A[b].on \in Nat
      BY <1>2, <1>4, <2>3
    <3>2. Q[s] = P[s]
      BY <2>1, <3>1
    <3>3. QED
      BY <3>1, <3>2 DEF SlotsOK
  <2>4. QED
    BY <2>2, <2>3
<1>9. ASSUME NEW b \in Actors, b # a, A[b].on = r.on, Sheds(A[b], r.on) PROVE FALSE
  <2>1. PICK t \in Sessions : r.on = P[t]
    BY <1>9 DEF Sheds
  <2>2. QED
    BY <1>9, <2>1 DEF SlotsOK
<1>10. \A b, d \in Actors : Sheds(B[b], B[d].on) /\ Sheds(B[d], B[d].on) => b = d
  <2> SUFFICES ASSUME NEW b \in Actors, NEW d \in Actors,
                      Sheds(B[b], B[d].on), Sheds(B[d], B[d].on), b # d
               PROVE  FALSE
    OBVIOUS
  <2>1. CASE b # a /\ d # a
    BY <1>2, <2>1 DEF SlotsOK
  <2>2. CASE b # a /\ d = a
    BY <1>2, <1>9, <2>2 DEF Sheds
  <2>3. CASE b = a /\ d # a
    BY <1>2, <1>9, <2>3 DEF Sheds
  <2>4. QED
    BY <2>1, <2>2, <2>3
<1>11. QED
  BY <1>1, <1>3, <1>4, <1>5, <1>7, <1>8, <1>10 DEF SlotsOK

-----------------------------------------------------------------------------
(* What every step starts from.                                            *)

Types ==
  /\ pool \in [Sessions -> 0..calls]
  /\ slot \in [Slots -> SlotStates]
  /\ cli \subseteq Sessions /\ stale \subseteq Sessions
  /\ act \in [Actors -> ActStates]
  /\ calls \in 0..MaxCalls /\ faults \in 0..MaxFaults
  /\ orderly \in BOOLEAN

LEMMA LocksHeld ==
  ASSUME NEW A, NEW S, LocksOK(A, S)
  PROVE  /\ \A c \in Callers : A[c].pc = "spawn" \/ A[c].pc = "stream" => S[A[c].own].holder = c
         /\ \A a \in Actors : A[a].pc = "kill" \/ A[a].pc = "unstage" => S[A[a].on].holder = a
<1>1. ASSUME NEW c \in Callers, A[c].pc = "spawn" \/ A[c].pc = "stream"
      PROVE  S[A[c].own].holder = c
  <2>1. ActorLock(S, c, A[c])
    BY Constants DEF LocksOK
  <2>2. Wants(A[c]) = A[c].own /\ A[c].pc # "idle" /\ A[c].pc \notin Waiting
    BY <1>1 DEF Wants, Evicting, Waiting
  <2>3. QED
    BY <2>1, <2>2 DEF ActorLock
<1>2. ASSUME NEW a \in Actors, A[a].pc = "kill" \/ A[a].pc = "unstage"
      PROVE  S[A[a].on].holder = a
  <2>1. ActorLock(S, a, A[a])
    BY DEF LocksOK
  <2>2. Wants(A[a]) = A[a].on /\ A[a].pc # "idle" /\ A[a].pc \notin Waiting
    BY <1>2 DEF Wants, Evicting, Waiting
  <2>3. QED
    BY <2>1, <2>2 DEF ActorLock
<1>3. QED
  BY <1>1, <1>2

LEMMA BaseNow == Types /\ LocksOK(act, slot) /\ SlotsOK(pool, act, calls) => BaseInv
BY LocksHeld DEF BaseInv, TypeOK, Types, At, Holds

LEMMA BaseThen == Types' /\ LocksOK(act', slot') /\ SlotsOK(pool', act', calls') => BaseInv'
BY LocksHeld DEF BaseInv, TypeOK, Types, At, Holds

\* The facts about an actor and the slot it wants.
LEMMA Wanted ==
  ASSUME BaseInv, NEW a \in Actors
  PROVE  /\ act[a] \in ActStates /\ Shape(a, act[a], calls) /\ Typed(act, slot)
         /\ act[a].own \in 0..calls /\ act[a].on \in 0..calls /\ calls \in 0..MaxCalls
         /\ act[a].pc # "idle" => Wants(act[a]) \in Slots /\ Wants(act[a]) <= calls
         /\ act[a].pc \notin {"idle", "wait", "shed"} => slot[Wants(act[a])].holder = a
         /\ \A i \in Slots : slot[i] \in SlotStates
         /\ \A i \in Slots : slot[i].holder = a => act[a].pc # "idle" /\ Wants(act[a]) = i
<1>1. act[a] \in ActStates /\ Shape(a, act[a], calls) /\ Typed(act, slot) /\ calls \in 0..MaxCalls
  BY DEF BaseInv, TypeOK, SlotsOK, Typed
<1>2. act[a].own \in 0..calls /\ act[a].on \in 0..calls
  BY <1>1, Constants DEF ActStates, Shape
<1>3. ActorLock(slot, a, act[a]) /\ \A i \in Slots : SlotLock(act, slot[i], i) /\ slot[i] \in SlotStates
  BY <1>1 DEF BaseInv, LocksOK, Typed
<1>4. act[a].pc # "idle" => Wants(act[a]) \in Slots /\ Wants(act[a]) <= calls
  BY <1>2, <1>3 DEF ActorLock, Wants
<1>5. act[a].pc \notin {"idle", "wait", "shed"} => slot[Wants(act[a])].holder = a
  BY <1>3 DEF ActorLock, Waiting
<1>6. \A i \in Slots : slot[i].holder = a => act[a].pc # "idle" /\ Wants(act[a]) = i
  BY <1>3, Constants DEF SlotLock, Has
<1>7. QED
  BY <1>1, <1>2, <1>3, <1>4, <1>5, <1>6

LEMMA BaseInit == Init => BaseInv
<1> SUFFICES ASSUME Init PROVE BaseInv
  OBVIOUS
<1>1. Resting \in ActStates /\ NewSlot \in SlotStates
  BY Constants DEF Resting, ActStates, Steps, NewSlot, SlotStates
<1>2. Types
  BY <1>1, Constants DEF Init, Types
<1>3. LocksOK(act, slot)
  BY Constants DEF Init, LocksOK, SlotLock, ActorLock, NewSlot, Resting, InLine, NoneTwice
<1>4. SlotsOK(pool, act, calls)
  BY Constants DEF Init, SlotsOK, Shape, Sheds, Resting, Evicting
<1>5. QED
  BY <1>2, <1>3, <1>4, BaseNow

-----------------------------------------------------------------------------
(* Fields of records.                                                      *)

LEMMA SlotFields ==
  ASSUME NEW p \in SlotStates
  PROVE  /\ \A x \in {"none", "live", "dead"} : LET u == [p EXCEPT !.proc = x] IN
              /\ u \in SlotStates /\ u.proc = x
              /\ u.holder = p.holder /\ u.queue = p.queue /\ u.blob = p.blob /\ u.home = p.home
         /\ LET u == [p EXCEPT !.blob = "unsaved"] IN
              /\ u \in SlotStates /\ u.blob = "unsaved"
              /\ u.holder = p.holder /\ u.queue = p.queue /\ u.proc = p.proc /\ u.home = p.home
         /\ p.home \in BOOLEAN /\ p.resumed \in BOOLEAN
<1>1. ASSUME NEW x \in {"none", "live", "dead"} PROVE [p EXCEPT !.proc = x] \in SlotStates
  BY DEF SlotStates
<1>2. [p EXCEPT !.blob = "unsaved"] \in SlotStates
  BY DEF SlotStates
<1>3. QED
  BY <1>1, <1>2 DEF SlotStates

LEMMA BootedFields ==
  ASSUME NEW p \in SlotStates, NEW b \in BOOLEAN
  PROVE  /\ Booted(p, b) \in SlotStates
         /\ Booted(p, b).holder = p.holder /\ Booted(p, b).queue = p.queue
         /\ Booted(p, b).blob = p.blob
BY DEF SlotStates, Booted

To(q, x)    == [q EXCEPT !.pc = x]
ToKill(q)   == [q EXCEPT !.pc = "kill", !.on = q.own]
ToSpawn(q)  == [q EXCEPT !.pc = "spawn", !.known = FALSE]
ToOwn(q)    == [q EXCEPT !.pc = "wait", !.on = 0]
ToHear(q)   == [q EXCEPT !.heard = TRUE, !.known = TRUE]
ToStream(q) == [q EXCEPT !.pc = "stream", !.boot = IF q.boot = "warm" THEN "first" ELSE "seeded"]

Keeps(r, q) == r \in ActStates /\ r.own = q.own /\ r.of = q.of

LEMMA ActFields ==
  ASSUME NEW q \in ActStates
  PROVE  /\ \A x \in Steps : Keeps(To(q, x), q) /\ To(q, x).pc = x /\ To(q, x).on = q.on
         /\ Keeps(ToKill(q), q) /\ ToKill(q).pc = "kill" /\ ToKill(q).on = q.own
         /\ Keeps(ToSpawn(q), q) /\ ToSpawn(q).pc = "spawn" /\ ToSpawn(q).on = q.on
         /\ Keeps(ToOwn(q), q) /\ ToOwn(q).pc = "wait" /\ ToOwn(q).on = 0
         /\ Keeps(ToHear(q), q) /\ ToHear(q).pc = q.pc /\ ToHear(q).on = q.on
         /\ Keeps(ToStream(q), q) /\ ToStream(q).pc = "stream" /\ ToStream(q).on = q.on
<1>1. ASSUME NEW x \in Steps
      PROVE  Keeps(To(q, x), q) /\ To(q, x).pc = x /\ To(q, x).on = q.on
  BY DEF ActStates, Keeps, To
<1>2. Keeps(ToKill(q), q) /\ ToKill(q).pc = "kill" /\ ToKill(q).on = q.own
  BY DEF ActStates, Steps, Keeps, ToKill
<1>3. Keeps(ToSpawn(q), q) /\ ToSpawn(q).pc = "spawn" /\ ToSpawn(q).on = q.on
  BY DEF ActStates, Steps, Keeps, ToSpawn
<1>4. Keeps(ToOwn(q), q) /\ ToOwn(q).pc = "wait" /\ ToOwn(q).on = 0
  <2>1. 0 \in 0..MaxCalls
    BY Constants
  <2>2. QED
    BY <2>1 DEF ActStates, Steps, Keeps, ToOwn
<1>5. Keeps(ToHear(q), q) /\ ToHear(q).pc = q.pc /\ ToHear(q).on = q.on
  BY DEF ActStates, Keeps, ToHear
<1>6. Keeps(ToStream(q), q) /\ ToStream(q).pc = "stream" /\ ToStream(q).on = q.on
  BY DEF ActStates, Steps, Keeps, ToStream
<1>7. QED
  BY <1>1, <1>2, <1>3, <1>4, <1>5, <1>6

-----------------------------------------------------------------------------
(* Steps of an actor that has a lock and keeps it.                         *)

GoesOn(a, r, p, i) ==
  /\ slot[i].holder = a /\ Wants(act[a]) = i /\ act[a].pc # "idle"
  /\ act' = [act EXCEPT ![a] = r] /\ slot' = [slot EXCEPT ![i] = p]
  /\ r.own = act[a].own /\ r.of = act[a].of /\ Wants(r) = i /\ r.pc # "idle"
  /\ Shape(a, r, calls)
  /\ \A j \in Nat : Sheds(r, j) <=> Sheds(act[a], j)
  /\ p.holder = a /\ p.queue = slot[i].queue
  /\ p.blob = "stored" \/ (p.blob = "unsaved" /\ Rotated(a, r, i))
  /\ r.pc = "unstage" => p.proc = "none"
  /\ cli' \subseteq Sessions /\ faults' \in 0..MaxFaults
  /\ UNCHANGED <<pool, stale, calls, orderly>>

Turn(c) == \/ Begin(c) \/ Spawn(c) \/ Hear(c) \/ Rotate(c) \/ ErrorEvent(c)
           \/ Fallback(c) \/ NoEvents(c) \/ Abort(c)

LEMMA FaultTypes == Types /\ Fault => faults' \in 0..MaxFaults
BY Constants DEF Types, Fault

LEMMA TurnGoesOn ==
  ASSUME BaseInv, BlobInv, NEW c \in Callers, Turn(c)
  PROVE  \E r \in ActStates, p \in SlotStates, i \in Slots : GoesOn(c, r, p, i)
<1>0. c \in Actors /\ c # Reaper /\ Types
  BY Constants DEF BaseInv, TypeOK, Types
<1>1. PICK q \in ActStates : q = act[c]
  BY <1>0, Wanted
<1>2. q.pc \in {"wait", "spawn", "stream"} /\ (q.pc = "wait" => Holds(c, q.own))
  BY <1>1 DEF Turn, Begin, Spawn, Hear, Rotate, ErrorEvent, Fallback, NoEvents, Abort, At
<1>3. q.on = 0 /\ Wants(q) = q.own /\ q.own # 0 /\ q.of # None /\ Shape(c, q, calls)
  BY <1>0, <1>1, <1>2, Wanted DEF Shape, Wants, Evicting
<1>4. PICK i \in Slots : i = q.own
  BY <1>0, <1>1, <1>2, <1>3, Wanted
<1>5. slot[i].holder = c
  BY <1>0, <1>1, <1>2, <1>3, <1>4, Wanted DEF Holds
<1>6. PICK p \in SlotStates : p = slot[i]
  BY <1>0, Wanted
<1>7. p.blob = "stored" \/ (p.blob = "unsaved" /\ q.pc = "stream" /\ q.heard)
  BY <1>1, <1>2, <1>5, <1>6 DEF BlobInv, BlobOK, Rotated
<1>8. slot = [slot EXCEPT ![i] = p] /\ act = [act EXCEPT ![c] = q]
  BY <1>0, <1>1, <1>6 DEF Types
<1>9. q.own \in 0..MaxCalls /\ q.own <= calls /\ i # 0
  BY <1>0, <1>1, <1>3, <1>4, Wanted DEF ActStates
<1>10. ASSUME NEW r, Keeps(r, q), NEW u \in SlotStates,
              act' = [act EXCEPT ![c] = r], slot' = [slot EXCEPT ![i] = u],
              \/ r.pc \in {"spawn", "stream"} /\ r.on = 0
              \/ r.pc = "kill" /\ r.on = q.own,
              u.holder = p.holder, u.queue = p.queue,
              u.blob = "stored" \/ (u.blob = "unsaved" /\ Rotated(c, r, i)),
              cli' \subseteq Sessions, faults' \in 0..MaxFaults,
              UNCHANGED <<pool, stale, calls, orderly>>
       PROVE  GoesOn(c, r, u, i)
  <2>1. Shape(c, r, calls)
    BY <1>0, <1>3, <1>9, <1>10, Constants DEF Shape, Evicting, Keeps
  <2>2. Wants(r) = i /\ Wants(act[c]) = i
    BY <1>1, <1>3, <1>4, <1>10 DEF Wants, Evicting, Keeps
  <2>3. \A j \in Nat : Sheds(r, j) <=> Sheds(act[c], j)
    BY <1>1, <1>3, <1>10 DEF Sheds, Keeps
  <2>4. QED
    BY <1>1, <1>2, <1>5, <1>6, <1>10, <2>1, <2>2, <2>3 DEF GoesOn, Keeps
<1>11. CASE Begin(c)
  <2>1. CASE p.proc = "live"
    <3>1. PICK r : r = To(q, "stream") /\ Keeps(r, q) /\ r.pc = "stream" /\ r.on = 0
      BY <1>3, ActFields DEF Steps
    <3>2. act' = [act EXCEPT ![c] = r] /\ slot' = slot
      BY <1>0, <1>1, <1>4, <1>6, <1>11, <2>1, <3>1 DEF Begin, Goto, Mine, Types, To
    <3>3. p.blob = "stored"
      BY <1>1, <1>7, <1>11 DEF Begin, At
    <3>4. QED
      BY <1>0, <1>8, <1>10, <1>11, <3>1, <3>2, <3>3 DEF Begin, Types, Keeps
  <2>2. CASE p.proc # "live"
    <3>1. PICK r : r = To(q, "spawn") /\ Keeps(r, q) /\ r.pc = "spawn" /\ r.on = 0
      BY <1>3, ActFields DEF Steps
    <3>2. PICK u \in SlotStates : u = Restage(p)
      BY <1>0, SlotTypes
    <3>3. u.holder = p.holder /\ u.queue = p.queue /\ u.blob = "stored"
      BY <1>1, <1>7, <1>11, <3>2 DEF Restage, SlotStates, Begin, At
    <3>4. act' = [act EXCEPT ![c] = r] /\ slot' = [slot EXCEPT ![i] = u]
      BY <1>0, <1>1, <1>4, <1>6, <1>11, <2>2, <3>1, <3>2 DEF Begin, Goto, Mine, Types, To
    <3>5. QED
      BY <1>0, <1>10, <1>11, <3>1, <3>3, <3>4 DEF Begin, Types, Keeps
  <2>3. QED
    BY <2>1, <2>2
<1>12. CASE Spawn(c)
  <2>1. PICK r : r = ToStream(q) /\ Keeps(r, q) /\ r.pc = "stream" /\ r.on = 0
    BY <1>3, ActFields
  <2>2. PICK b \in BOOLEAN : b = q.known
    BY DEF ActStates
  <2>3. PICK u : /\ u = Booted(p, b) /\ u \in SlotStates
                 /\ u.holder = p.holder /\ u.queue = p.queue /\ u.blob = p.blob
    BY BootedFields
  <2>4. act' = [act EXCEPT ![c] = r] /\ slot' = [slot EXCEPT ![i] = u]
    BY <1>0, <1>1, <1>4, <1>6, <1>12, <2>1, <2>2, <2>3 DEF Spawn, Types, ToStream
  <2>5. u.blob = "stored"
    BY <1>1, <1>7, <1>12, <2>3 DEF Spawn, At
  <2>6. QED
    BY <1>0, <1>10, <1>12, <2>1, <2>3, <2>4, <2>5 DEF Spawn, Types, Keeps
<1>13. CASE Hear(c)
  <2>1. PICK r : r = ToHear(q) /\ Keeps(r, q) /\ r.pc = q.pc /\ r.on = 0
    BY <1>3, ActFields
  <2>2. act' = [act EXCEPT ![c] = r] /\ slot' = [slot EXCEPT ![i] = p]
    BY <1>0, <1>1, <1>8, <1>13, <2>1 DEF Hear, Types, ToHear
  <2>3. p.blob = "stored" /\ q.pc = "stream"
    BY <1>1, <1>7, <1>13 DEF Hear, At
  <2>4. cli' \subseteq Sessions
    BY <1>0, <1>1, <1>3, <1>13 DEF Hear, Types, ActStates
  <2>5. QED
    BY <1>0, <1>10, <1>13, <2>1, <2>2, <2>3, <2>4 DEF Hear, Types, Keeps
<1>14. CASE Rotate(c)
  <2>1. PICK u \in SlotStates : /\ u = [p EXCEPT !.blob = "unsaved"]
                                /\ u.holder = p.holder /\ u.queue = p.queue /\ u.blob = "unsaved"
    BY SlotFields
  <2>2. act' = [act EXCEPT ![c] = q] /\ slot' = [slot EXCEPT ![i] = u]
    BY <1>0, <1>1, <1>4, <1>6, <1>8, <1>14, <2>1 DEF Rotate, Types
  <2>3. q.pc = "stream" /\ Rotated(c, q, i)
    BY <1>1, <1>4, <1>14 DEF Rotate, At, Rotated
  <2>4. QED
    BY <1>0, <1>3, <1>10, <1>14, <2>1, <2>2, <2>3 DEF Rotate, Types, Keeps
<1>15. ASSUME Failing(c), UNCHANGED <<pool, slot, stale, calls, orderly>>,
              cli' \subseteq Sessions, faults' \in 0..MaxFaults
       PROVE  \E r \in ActStates, u \in SlotStates, j \in Slots : GoesOn(c, r, u, j)
  <2>1. PICK r : r = ToKill(q) /\ Keeps(r, q) /\ r.pc = "kill" /\ r.on = q.own
    BY ActFields
  <2>2. act' = [act EXCEPT ![c] = r] /\ slot' = [slot EXCEPT ![i] = p]
    BY <1>0, <1>1, <1>8, <1>15, <2>1 DEF Failing, Types, ToKill
  <2>3. Rotated(c, r, i)
    BY <1>4, <2>1 DEF Rotated, Keeps
  <2>4. p.blob = "stored" \/ (p.blob = "unsaved" /\ Rotated(c, r, i))
    BY <1>7, <2>3
  <2>5. QED
    BY <1>10, <1>15, <2>1, <2>2, <2>4 DEF Keeps
<1>16. CASE ErrorEvent(c)
  BY <1>0, <1>15, <1>16, FaultTypes DEF ErrorEvent, ForgetOnError, Forget, Types
<1>17. CASE NoEvents(c)
  BY <1>0, <1>15, <1>17 DEF NoEvents, Forget, Types
<1>18. CASE Abort(c)
  BY <1>0, <1>15, <1>18, FaultTypes DEF Abort, Types
<1>19. CASE Fallback(c)
  <2>1. PICK r : r = ToSpawn(q) /\ Keeps(r, q) /\ r.pc = "spawn" /\ r.on = 0
    BY <1>3, ActFields
  <2>2. PICK v \in SlotStates : v = Restage(p)
    BY <1>0, SlotTypes
  <2>3. v.holder = p.holder /\ v.queue = p.queue /\ v.blob = "stored"
    BY <1>1, <1>7, <1>19, <2>2 DEF Restage, SlotStates, Fallback
  <2>4. PICK u \in SlotStates : /\ u = [v EXCEPT !.proc = "none"]
                                /\ u.holder = v.holder /\ u.queue = v.queue /\ u.blob = v.blob
    BY SlotFields, ZenonT(60)
  <2>5. act' = [act EXCEPT ![c] = r] /\ slot' = [slot EXCEPT ![i] = u]
    BY <1>0, <1>1, <1>4, <1>6, <1>19, <2>1, <2>2, <2>4 DEF Fallback, Types, ToSpawn
  <2>6. QED
    BY <1>0, <1>10, <1>19, <2>1, <2>3, <2>4, <2>5, ZenonT(60) DEF Fallback, Types, Keeps
<1>20. QED
  BY <1>11, <1>12, <1>13, <1>14, <1>16, <1>17, <1>18, <1>19 DEF Turn

LEMMA KillGoesOn ==
  ASSUME BaseInv, BlobInv, NEW a \in Actors, Kill(a)
  PROVE  \E r \in ActStates, p \in SlotStates, i \in Slots : GoesOn(a, r, p, i)
<1>0. Types
  BY DEF BaseInv, TypeOK, Types
<1>1. PICK q \in ActStates : q = act[a]
  BY Wanted
<1>2. q.pc = "kill" \/ (q.pc = "shed" /\ Holds(a, q.on))
  BY <1>1 DEF Kill, MayEvict, At
<1>3. Wants(q) = q.on /\ q.on # 0 /\ Shape(a, q, calls)
  BY <1>1, <1>2, Wanted DEF Shape, Wants, Evicting
<1>4. PICK i \in Slots : i = q.on
  BY <1>1, <1>2, <1>3, Wanted
<1>5. slot[i].holder = a
  BY <1>1, <1>2, <1>3, <1>4, Wanted DEF Holds
<1>6. PICK p \in SlotStates : p = slot[i]
  BY Wanted
<1>7. PICK r : r = To(q, "unstage") /\ Keeps(r, q) /\ r.pc = "unstage" /\ r.on = q.on
  BY ActFields DEF Steps
<1>8. PICK u \in SlotStates : /\ u = [p EXCEPT !.proc = "none"] /\ u.proc = "none"
                              /\ u.holder = p.holder /\ u.queue = p.queue /\ u.blob = p.blob
  BY SlotFields, ZenonT(60)
<1>9. act' = [act EXCEPT ![a] = r] /\ slot' = [slot EXCEPT ![i] = u]
  BY <1>0, <1>1, <1>4, <1>6, <1>7, <1>8 DEF Kill, Goto, Types, To
<1>10. Shape(a, r, calls)
  BY <1>2, <1>3, <1>7 DEF Shape, Evicting, Keeps
<1>11. Wants(r) = i /\ Wants(act[a]) = i /\ \A j \in Nat : Sheds(r, j) <=> Sheds(act[a], j)
  BY <1>1, <1>3, <1>4, <1>7 DEF Wants, Evicting, Sheds, Keeps
<1>12. u.blob = "stored" \/ (u.blob = "unsaved" /\ Rotated(a, r, i))
  BY <1>1, <1>2, <1>4, <1>5, <1>6, <1>7, <1>8 DEF BlobInv, BlobOK, Rotated, Keeps
<1>13. GoesOn(a, r, u, i)
  BY <1>0, <1>1, <1>2, <1>5, <1>6, <1>7, <1>8, <1>9, <1>10, <1>11, <1>12 DEF GoesOn, Kill, Types, Keeps
<1>14. QED
  BY <1>7, <1>13 DEF Keeps

LEMMA BaseGoesOn ==
  ASSUME BaseInv, NEW a \in Actors, NEW r \in ActStates, NEW p \in SlotStates, NEW i \in Slots,
         GoesOn(a, r, p, i)
  PROVE  BaseInv'
<1>0. Types /\ LocksOK(act, slot) /\ SlotsOK(pool, act, calls) /\ calls \in Nat
  BY Constants DEF BaseInv, TypeOK, Types
<1>1. Types'
  BY <1>0 DEF GoesOn, Types
<1>2. act'[a] = r /\ \A b \in Actors : b # a => act'[b] = act[b]
  BY <1>0 DEF GoesOn, Types
<1>3. slot'[i] = p /\ \A j \in Slots : j # i => slot'[j] = slot[j]
  BY <1>0 DEF GoesOn, Types
<1>4. LocksOK(act', slot')
  <2>1. Typed(act, slot)
    BY <1>0 DEF Types, Typed
  <2>2. \A j \in Slots : slot'[j].holder = slot[j].holder /\ slot'[j].queue = slot[j].queue
    BY <1>3 DEF GoesOn
  <2>3. ASSUME NEW b \in Actors
        PROVE  /\ act[b].pc = "idle" <=> act'[b].pc = "idle"
               /\ act[b].pc # "idle" => Wants(act'[b]) = Wants(act[b])
               /\ \/ act'[b].pc = act[b].pc
                  \/ Wants(act[b]) \in Slots /\ slot[Wants(act[b])].holder = b
    BY <1>2 DEF GoesOn
  <2>4. QED
    BY <1>0, <2>1, <2>2, <2>3, LocksQuiet
<1>5. SlotsOK(pool', act', calls')
  <2>1. \A b \in Actors : Shape(b, act'[b], calls)
    BY <1>0, <1>2 DEF GoesOn, SlotsOK
  <2>2. \A b \in Actors : act'[b].own = act[b].own /\ act'[b].of = act[b].of
    BY <1>2 DEF GoesOn
  <2>3. \A b \in Actors, j \in Nat : Sheds(act'[b], j) => Sheds(act[b], j)
    BY <1>2 DEF GoesOn
  <2>4. pool \in [Sessions -> Nat] /\ act \in [Actors -> ActStates] /\ act' \in [Actors -> ActStates]
    BY <1>0, <1>1 DEF Types
  <2>5. pool' = pool /\ calls' = calls
    BY DEF GoesOn
  <2>6. SlotsOK(pool, act', calls)
    BY <1>0, <2>1, <2>2, <2>3, <2>4, SlotsLess
  <2>7. QED
    BY <2>5, <2>6
<1>6. QED
  BY <1>1, <1>4, <1>5, BaseThen

-----------------------------------------------------------------------------
(* Steps of an actor that gives back the lock it has.                      *)

Rests(a, r, p, i) ==
  /\ slot[i].holder = a /\ Wants(act[a]) = i /\ act[a].pc # "idle"
  /\ act' = [act EXCEPT ![a] = r] /\ slot' = [slot EXCEPT ![i] = p]
  /\ r.pc = "idle" /\ r.own = 0 /\ r.on = 0
  /\ p.holder = None /\ p.queue = slot[i].queue /\ p.blob = "stored"
  /\ \A s \in Sessions : pool'[s] = pool[s] \/ (pool'[s] = 0 /\ s = act[a].of /\ act[a].own = i)
  /\ \/ act[a].pc = "stream" /\ act[a].own = i /\ pool' = pool
     \/ act[a].pc = "unstage" /\ act[a].on = i /\ p.proc = slot[i].proc /\ ~p.home
     \/ act[a].pc = "unstage" /\ orderly' = FALSE
  /\ pool' \in [Sessions -> 0..calls]
  /\ faults' \in 0..MaxFaults /\ orderly' \in {orderly, FALSE}
  /\ UNCHANGED <<cli, stale, calls>>

LEMMA EndFields ==
  ASSUME NEW p \in SlotStates, p.blob \in {"stored", "unsaved"}
  PROVE  /\ Released(p) \in SlotStates /\ Released(p).holder = None
         /\ Released(p).queue = p.queue /\ Released(p).blob = p.blob
         /\ Unstaged(p) \in SlotStates /\ Unstaged(p).holder = None
         /\ Unstaged(p).queue = p.queue /\ Unstaged(p).blob = "stored"
         /\ Unstaged(p).proc = p.proc /\ ~Unstaged(p).home
<1>1. Released(p) \in SlotStates /\ Released(p).holder = None
      /\ Released(p).queue = p.queue /\ Released(p).blob = p.blob
  BY DEF Released, SlotStates
<1>2. PICK q \in SlotStates :
        /\ q = Persisted(p) /\ q.blob = "stored" /\ q.queue = p.queue /\ q.proc = p.proc
  <2>1. Persisted(p) \in SlotStates /\ Persisted(p).blob = "stored"
        /\ Persisted(p).queue = p.queue /\ Persisted(p).proc = p.proc
    BY DEF Persisted, SlotStates
  <2>2. QED
    BY <2>1
<1>3. PICK u : u = [q EXCEPT !.home = FALSE, !.holder = None, !.blob = "stored"]
  OBVIOUS
<1>4. u \in SlotStates /\ u.holder = None /\ u.queue = q.queue /\ u.blob = "stored"
      /\ u.proc = q.proc /\ ~u.home
  BY <1>3 DEF SlotStates
<1>5. Unstaged(p) = u
  BY <1>2, <1>3 DEF Unstaged, SlotStates
<1>6. QED
  BY <1>1, <1>2, <1>4, <1>5

\* Complete's slot.
LEMMA CompleteFields ==
  ASSUME NEW p \in SlotStates, p.blob \in {"stored", "unsaved"}, NEW b \in BOOLEAN
  PROVE  LET u == [Released(Persisted(p)) EXCEPT !.resumed = b] IN
         u \in SlotStates /\ u.holder = None /\ u.queue = p.queue /\ u.blob = "stored"
<1>1. Persisted(p) \in SlotStates /\ Persisted(p).blob = "stored" /\ Persisted(p).queue = p.queue
  BY DEF Persisted, SlotStates
<1>2. PICK q \in SlotStates : q = Released(Persisted(p)) /\ q.holder = None
                              /\ q.blob = "stored" /\ q.queue = p.queue
  BY <1>1, EndFields
<1>3. PICK u : u = [q EXCEPT !.resumed = b]
  OBVIOUS
<1>4. u \in SlotStates /\ u.holder = q.holder /\ u.queue = q.queue /\ u.blob = q.blob
  BY <1>3 DEF SlotStates
<1>5. QED
  BY <1>2, <1>3, <1>4

LEMMA RestFields ==
  ASSUME NEW b \in BOOLEAN
  PROVE  LET r == [Resting EXCEPT !.cut = b] IN
         /\ r \in ActStates /\ r.pc = "idle" /\ r.own = 0 /\ r.on = 0
         /\ Resting \in ActStates /\ Resting.pc = "idle" /\ Resting.own = 0 /\ Resting.on = 0
<1>1. Resting \in ActStates
  BY Constants DEF Resting, ActStates, Steps
<1>2. [Resting EXCEPT !.cut = b] \in ActStates
  BY <1>1 DEF ActStates
<1>3. QED
  BY <1>1, <1>2 DEF Resting

LEMMA BlobIs == BaseInv /\ BlobInv => \A i \in Slots : slot[i].blob \in {"stored", "unsaved"}
BY DEF BlobInv, BlobOK

LEMMA CompleteRests ==
  ASSUME BaseInv, BlobInv, NEW c \in Callers, Done(c) \/ CutShort(c)
  PROVE  \E r \in ActStates, p \in SlotStates, i \in Slots : Rests(c, r, p, i)
<1>0. c \in Actors /\ Types
  BY Constants DEF BaseInv, TypeOK, Types
<1>1. act[c].pc = "stream" /\ act[c].own \in Slots /\ Wants(act[c]) = act[c].own
      /\ slot[act[c].own].holder = c
  BY <1>0, Wanted DEF Done, CutShort, At, Wants, Evicting
<1>2. PICK i \in Slots : i = act[c].own
  BY <1>1
<1>3. PICK p \in SlotStates : p = slot[i] /\ p.blob \in {"stored", "unsaved"}
  BY <1>0, BlobIs DEF Types
<1>4. PICK b \in BOOLEAN, x \in BOOLEAN :
         Complete(c, x, b) /\ UNCHANGED <<pool, cli, stale, calls, faults, orderly>>
  <2>1. p.resumed \in BOOLEAN /\ TRUE \in BOOLEAN /\ FALSE \in BOOLEAN
    BY SlotFields
  <2>2. CASE Done(c)
    <3>1. Complete(c, FALSE, p.resumed)
      BY <1>2, <1>3, <2>2 DEF Done, Mine
    <3>2. QED
      BY <2>1, <2>2, <3>1 DEF Done
  <2>3. CASE CutShort(c)
    BY <2>1, <2>3 DEF CutShort
  <2>4. QED
    BY <2>2, <2>3
<1>5. PICK r \in ActStates : r = [Resting EXCEPT !.cut = x] /\ r.pc = "idle" /\ r.own = 0 /\ r.on = 0
  BY RestFields
<1>6. PICK u \in SlotStates : u = [Released(Persisted(p)) EXCEPT !.resumed = b]
                              /\ u.holder = None /\ u.queue = p.queue /\ u.blob = "stored"
  BY <1>3, CompleteFields
<1>7. act' = [act EXCEPT ![c] = r] /\ slot' = [slot EXCEPT ![i] = u]
  BY <1>0, <1>2, <1>3, <1>4, <1>5, <1>6 DEF Complete, Types
<1>8. Rests(c, r, u, i)
  BY <1>0, <1>1, <1>2, <1>3, <1>4, <1>5, <1>6, <1>7 DEF Rests, Types
<1>9. QED
  BY <1>8

\* An eviction that ends, but for a caller's that goes on to its own slot.
LEMMA UnstageRests ==
  ASSUME BaseInv, BlobInv, NEW a \in Actors, Unstage(a), a = Reaper \/ act[a].on = act[a].own
  PROVE  \E r \in ActStates, p \in SlotStates, i \in Slots : Rests(a, r, p, i)
<1>0. Types
  BY DEF BaseInv, TypeOK, Types
<1>1. act[a].pc = "unstage" /\ act[a].on \in Slots /\ Wants(act[a]) = act[a].on
      /\ slot[act[a].on].holder = a
  BY <1>0, Wanted DEF Unstage, At, Wants, Evicting
<1>2. PICK i \in Slots : i = act[a].on
  BY <1>1
<1>3. PICK p \in SlotStates : p = slot[i] /\ p.blob \in {"stored", "unsaved"}
  BY <1>0, BlobIs DEF Types
<1>4. PICK r \in ActStates : r = Resting /\ r.pc = "idle" /\ r.own = 0 /\ r.on = 0
  BY RestFields
<1>5. PICK u \in SlotStates : u = Unstaged(p) /\ u.holder = None /\ u.queue = p.queue
                              /\ u.blob = "stored" /\ u.proc = p.proc /\ ~u.home
  BY <1>3, EndFields
<1>6. act' = [act EXCEPT ![a] = r] /\ slot' = [slot EXCEPT ![i] = u]
  BY <1>0, <1>2, <1>3, <1>4, <1>5 DEF Unstage, Types
<1>7. pool' = pool \/ (act[a].on = act[a].own /\ pool' = [pool EXCEPT ![act[a].of] = 0])
  BY DEF Unstage
<1>8. pool' \in [Sessions -> 0..calls]
  BY <1>0, <1>7, Constants DEF Types
<1>9. \A s \in Sessions : pool'[s] = pool[s] \/ (pool'[s] = 0 /\ s = act[a].of /\ act[a].own = i)
  BY <1>0, <1>2, <1>7 DEF Types
<1>10. Rests(a, r, u, i)
  BY <1>0, <1>1, <1>2, <1>3, <1>4, <1>5, <1>6, <1>8, <1>9 DEF Rests, Types, Unstage
<1>11. QED
  BY <1>10

LEMMA CancelRests ==
  ASSUME BaseInv, BlobInv, NEW c \in Callers, ShedCancelled(c), At(c, "unstage")
  PROVE  \E r \in ActStates, p \in SlotStates, i \in Slots : Rests(c, r, p, i)
<1>0. c \in Actors /\ Types
  BY Constants DEF BaseInv, TypeOK, Types
<1>1. act[c].pc = "unstage" /\ act[c].on \in Slots /\ Wants(act[c]) = act[c].on
      /\ slot[act[c].on].holder = c /\ act[c].on # act[c].own
  BY <1>0, Wanted DEF ShedCancelled, Shedding, At, Wants, Evicting
<1>2. PICK i \in Slots : i = act[c].on
  BY <1>1
<1>3. PICK p \in SlotStates : p = slot[i] /\ p.blob = "stored"
  BY <1>0, <1>1, <1>2 DEF Types, BlobInv, BlobOK, Rotated
<1>4. PICK r \in ActStates : r = Resting /\ r.pc = "idle" /\ r.own = 0 /\ r.on = 0
  BY RestFields
<1>5. PICK u \in SlotStates : u = Released(p) /\ u.holder = None /\ u.queue = p.queue
                              /\ u.blob = "stored"
  BY <1>3, EndFields
<1>6. act' = [act EXCEPT ![c] = r] /\ slot' = [slot EXCEPT ![i] = u]
  BY <1>0, <1>1, <1>2, <1>3, <1>4, <1>5 DEF ShedCancelled, At, Types
<1>7. faults' \in 0..MaxFaults
  BY <1>0, FaultTypes DEF ShedCancelled
<1>8. Rests(c, r, u, i)
  BY <1>0, <1>1, <1>2, <1>3, <1>4, <1>5, <1>6, <1>7 DEF Rests, Types, ShedCancelled
<1>9. QED
  BY <1>8

LEMMA BaseRests ==
  ASSUME BaseInv, NEW a \in Actors, NEW r \in ActStates, NEW p \in SlotStates, NEW i \in Slots,
         Rests(a, r, p, i)
  PROVE  BaseInv'
<1>0. Types /\ LocksOK(act, slot) /\ SlotsOK(pool, act, calls) /\ calls \in Nat
  BY Constants DEF BaseInv, TypeOK, Types
<1>1. Types'
  BY <1>0 DEF Rests, Types
<1>2. act'[a] = r /\ \A b \in Actors : b # a => act'[b] = act[b]
  BY <1>0 DEF Rests, Types
<1>3. LocksOK(act', slot')
  <2>1. Typed(act, slot)
    BY <1>0 DEF Types, Typed
  <2>2. LocksOK([act EXCEPT ![a] = r], [slot EXCEPT ![i] = p])
    BY <1>0, <2>1, LocksRelease DEF Rests
  <2>3. QED
    BY <2>2 DEF Rests
<1>4. SlotsOK(pool', act', calls')
  <2>1. \A b \in Actors : Shape(b, act'[b], calls)
    BY <1>0, <1>2 DEF Rests, SlotsOK, Shape, Evicting
  <2>2. \A b \in Actors : (act'[b].own = act[b].own /\ act'[b].of = act[b].of) \/ act'[b].own = 0
    BY <1>2 DEF Rests
  <2>3. \A b \in Actors, j \in Nat : Sheds(act'[b], j) => Sheds(act[b], j)
    BY <1>2 DEF Rests, Sheds
  <2>4. pool \in [Sessions -> Nat] /\ act \in [Actors -> ActStates] /\ act' \in [Actors -> ActStates]
    BY <1>0, <1>1 DEF Types
  <2>5. \A s \in Sessions : pool'[s] \in {pool[s], 0}
    BY DEF Rests
  <2>6. SlotsOK(pool', act', calls)
    BY <1>0, <2>1, <2>2, <2>3, <2>4, <2>5, SlotsLess
  <2>7. QED
    BY <2>6 DEF Rests
<1>5. QED
  BY <1>1, <1>3, <1>4, BaseThen

-----------------------------------------------------------------------------
(* Steps of an actor that queues no more, and of nobody.                   *)

Leaves(a, r, i) ==
  /\ act[a].pc \in Waiting /\ Wants(act[a]) = i /\ slot[i].holder # a
  /\ act' = [act EXCEPT ![a] = r] /\ slot' = [slot EXCEPT ![i] = Left(@, a)]
  /\ r.pc = "idle" /\ r.own = 0 /\ r.on = 0
  /\ act[a].pc = "wait" \/ ~orderly'
  /\ faults' \in 0..MaxFaults /\ orderly' \in {orderly, FALSE}
  /\ UNCHANGED <<pool, cli, stale, calls>>

LEMMA WaitLeaves ==
  ASSUME BaseInv, NEW c \in Callers, GiveUp(c) \/ (ShedCancelled(c) /\ At(c, "shed"))
  PROVE  \E r \in ActStates, i \in Slots : Leaves(c, r, i)
<1>0. c \in Actors /\ Types
  BY Constants DEF BaseInv, TypeOK, Types
<1>1. PICK r \in ActStates : r = Resting /\ r.pc = "idle" /\ r.own = 0 /\ r.on = 0
  BY RestFields
<1>2. faults' \in 0..MaxFaults
  BY <1>0, FaultTypes DEF GiveUp, ShedCancelled
<1>3. CASE GiveUp(c)
  <2>1. act[c].pc = "wait" /\ Wants(act[c]) = act[c].own /\ act[c].own \in Slots
        /\ slot[act[c].own].holder # c
    BY <1>0, <1>3, Wanted DEF GiveUp, At, Wants, Evicting, Holds
  <2>2. Leaves(c, r, act[c].own)
    BY <1>0, <1>1, <1>2, <1>3, <2>1 DEF GiveUp, Leaves, Types, Waiting
  <2>3. QED
    BY <2>1, <2>2
<1>4. CASE ShedCancelled(c) /\ At(c, "shed")
  <2>1. act[c].pc = "shed" /\ Wants(act[c]) = act[c].on /\ act[c].on \in Slots
        /\ slot[act[c].on].holder # c
    BY <1>0, <1>4, Wanted DEF ShedCancelled, At, Wants, Evicting, Holds
  <2>2. Leaves(c, r, act[c].on)
    BY <1>0, <1>1, <1>2, <1>4, <2>1 DEF ShedCancelled, At, Leaves, Types, Waiting
  <2>3. QED
    BY <2>1, <2>2
<1>5. QED
  BY <1>3, <1>4

LEMMA BaseLeaves ==
  ASSUME BaseInv, NEW a \in Actors, NEW r \in ActStates, NEW i \in Slots, Leaves(a, r, i)
  PROVE  BaseInv'
<1>0. Types /\ LocksOK(act, slot) /\ SlotsOK(pool, act, calls) /\ calls \in Nat /\ Typed(act, slot)
  BY Constants DEF BaseInv, TypeOK, Types, Typed
<1>1. slot' \in [Slots -> SlotStates] /\ LocksOK(act', slot')
  <2>1. /\ [slot EXCEPT ![i] = Left(@, a)] \in [Slots -> SlotStates]
        /\ LocksOK([act EXCEPT ![a] = r], [slot EXCEPT ![i] = Left(@, a)])
    <3>1. act[a].pc \in Waiting /\ Wants(act[a]) = i /\ slot[i].holder # a /\ r.pc = "idle"
      BY DEF Leaves
    <3>2. QED
      BY <1>0, <3>1, LocksLeave
  <2>2. QED
    BY <2>1 DEF Leaves
<1>2. Types'
  BY <1>0, <1>1 DEF Leaves, Types
<1>3. act'[a] = r /\ \A b \in Actors : b # a => act'[b] = act[b]
  BY <1>0 DEF Leaves, Types
<1>4. SlotsOK(pool', act', calls')
  <2>1. \A b \in Actors : Shape(b, act'[b], calls)
    BY <1>0, <1>3 DEF Leaves, SlotsOK, Shape, Evicting
  <2>2. \A b \in Actors : (act'[b].own = act[b].own /\ act'[b].of = act[b].of) \/ act'[b].own = 0
    BY <1>3 DEF Leaves
  <2>3. \A b \in Actors, j \in Nat : Sheds(act'[b], j) => Sheds(act[b], j)
    BY <1>3 DEF Leaves, Sheds
  <2>4. pool \in [Sessions -> Nat] /\ act \in [Actors -> ActStates] /\ act' \in [Actors -> ActStates]
    BY <1>0, <1>2 DEF Types
  <2>5. pool' = pool /\ calls' = calls
    BY DEF Leaves
  <2>6. SlotsOK(pool, act', calls)
    BY <1>0, <2>1, <2>2, <2>3, <2>4, SlotsLess
  <2>7. QED
    BY <2>5, <2>6
<1>5. QED
  BY <1>1, <1>2, <1>4, BaseThen

LEMMA BaseWake ==
  ASSUME BaseInv, NEW i \in Slots, Wake(i)
  PROVE  BaseInv'
<1>0. Types /\ LocksOK(act, slot) /\ SlotsOK(pool, act, calls) /\ Typed(act, slot)
  BY DEF BaseInv, TypeOK, Types, Typed
<1>1. slot' \in [Slots -> SlotStates] /\ LocksOK(act, slot')
  BY <1>0, LocksWake, ZenonT(60) DEF Wake
<1>2. QED
  BY <1>0, <1>1, BaseThen DEF Wake, Types

\* A process dies; the reaper looks around; nothing happens.
LEMMA BaseIdle ==
  ASSUME BaseInv, (\E i \in Slots : Dies(i)) \/ Sweep \/ UNCHANGED vars
  PROVE  /\ BaseInv'
         /\ UNCHANGED <<pool, cli, act, calls, orderly>>
         /\ \A i \in Slots : /\ slot'[i].holder = slot[i].holder /\ slot'[i].queue = slot[i].queue
                             /\ slot'[i].blob = slot[i].blob /\ slot'[i].home = slot[i].home
                             /\ slot'[i].proc = "none" <=> slot[i].proc = "none"
<1>0. Types /\ LocksOK(act, slot) /\ SlotsOK(pool, act, calls) /\ Typed(act, slot)
  BY DEF BaseInv, TypeOK, Types, Typed
<1>1. /\ slot' \in [Slots -> SlotStates]
      /\ \A i \in Slots : /\ slot'[i].holder = slot[i].holder /\ slot'[i].queue = slot[i].queue
                          /\ slot'[i].blob = slot[i].blob /\ slot'[i].home = slot[i].home
                          /\ slot'[i].proc = "none" <=> slot[i].proc = "none"
  <2>1. ASSUME NEW j \in Slots, Dies(j)
        PROVE  /\ slot' \in [Slots -> SlotStates]
               /\ \A i \in Slots : /\ slot'[i].holder = slot[i].holder
                                   /\ slot'[i].queue = slot[i].queue
                                   /\ slot'[i].blob = slot[i].blob /\ slot'[i].home = slot[i].home
                                   /\ slot'[i].proc = "none" <=> slot[i].proc = "none"
    <3>1. PICK p \in SlotStates : p = slot[j] /\ p.proc = "live"
      BY <1>0, <2>1 DEF Dies, Types
    <3>2. PICK u \in SlotStates : /\ u = [p EXCEPT !.proc = "dead"] /\ u.proc = "dead"
                                  /\ u.holder = p.holder /\ u.queue = p.queue
                                  /\ u.blob = p.blob /\ u.home = p.home
      BY SlotFields, ZenonT(60)
    <3>3. slot' = [slot EXCEPT ![j] = u]
      BY <1>0, <2>1, <3>1, <3>2 DEF Dies, Types
    <3>4. QED
      BY <1>0, <3>1, <3>2, <3>3 DEF Types
  <2>2. CASE Sweep \/ UNCHANGED vars
    BY <1>0, <2>2 DEF Sweep, vars, Types
  <2>3. QED
    BY <2>1, <2>2
<1>2. UNCHANGED <<pool, cli, act, calls, orderly>>
  BY DEF Dies, Sweep, vars
<1>3. stale' \subseteq Sessions /\ faults' \in 0..MaxFaults
  <2>1. Evictable \subseteq Sessions
    BY DEF Evictable, Pooled
  <2>2. QED
    BY <1>0, <2>1, FaultTypes DEF Dies, Sweep, vars, Types
<1>4. Types'
  BY <1>0, <1>1, <1>2, <1>3 DEF Types
<1>5. LocksOK(act', slot')
  BY <1>0, <1>1, <1>2, LocksQuiet
<1>6. BaseInv'
  BY <1>0, <1>2, <1>4, <1>5, BaseThen
<1>7. QED
  BY <1>1, <1>2, <1>6

-----------------------------------------------------------------------------
(* A call that has evicted another slot goes on to its own.                *)

Moves(c, r, p, i, j) ==
  /\ slot[i].holder = c /\ act[c].pc = "unstage" /\ Sheds(act[c], i) /\ act[c].own = j
  /\ act' = [act EXCEPT ![c] = r]
  /\ slot' = [[slot EXCEPT ![i] = p] EXCEPT ![j] = Take(@, c)]
  /\ r.own = j /\ r.of = act[c].of /\ r.pc = "wait" /\ r.on = 0 /\ i # j
  /\ p.holder = None /\ p.queue = slot[i].queue /\ p.blob = "stored"
  /\ p.proc = slot[i].proc /\ ~p.home
  /\ UNCHANGED <<pool, cli, stale, calls, faults, orderly>>

LEMMA UnstageMoves ==
  ASSUME BaseInv, BlobInv, NEW c \in Callers, Unstage(c), act[c].on # act[c].own
  PROVE  \E r \in ActStates, p \in SlotStates, i, j \in Slots : Moves(c, r, p, i, j)
<1>0. c \in Actors /\ c # Reaper /\ Types
  BY Constants DEF BaseInv, TypeOK, Types
<1>1. PICK q \in ActStates : q = act[c]
  BY <1>0 DEF Types
<1>2. q.pc = "unstage" /\ q.on \in Slots /\ q.on # 0 /\ slot[q.on].holder = c
  BY <1>0, <1>1, Wanted DEF Unstage, At, Wants, Evicting, Shape
<1>3. q.own \in Slots
  BY <1>0, <1>1, <1>2, Wanted, Constants DEF Shape
<1>4. PICK i \in Slots, j \in Slots : i = q.on /\ j = q.own
  BY <1>2, <1>3
<1>5. PICK p \in SlotStates : p = slot[i] /\ p.blob \in {"stored", "unsaved"}
  BY <1>0, BlobIs DEF Types
<1>6. PICK r : r = ToOwn(q) /\ Keeps(r, q) /\ r.pc = "wait" /\ r.on = 0
  BY ActFields
<1>7. PICK u \in SlotStates : u = Unstaged(p) /\ u.holder = None /\ u.queue = p.queue
                              /\ u.blob = "stored" /\ u.proc = p.proc /\ ~u.home
  BY <1>5, EndFields
<1>8. /\ act' = [act EXCEPT ![c].pc = "wait", ![c].on = 0] /\ UNCHANGED pool
      /\ slot' = [slot EXCEPT ![i] = Unstaged(@), ![j] = Take(@, c)]
  BY <1>0, <1>1, <1>4 DEF Unstage
<1>9. act' = [act EXCEPT ![c] = r]
  BY <1>0, <1>1, <1>6, <1>8 DEF ToOwn, Types
<1>10. slot' = [[slot EXCEPT ![i] = u] EXCEPT ![j] = Take(@, c)]
  <2>1. u = Unstaged(slot[i])
    BY <1>5, <1>7
  <2>2. i # j
    BY <1>1, <1>4
  <2>3. [slot EXCEPT ![i] = u][j] = slot[j]
    BY <1>0, <2>2 DEF Types
  <2>4. slot' = [[slot EXCEPT ![i] = u] EXCEPT ![j] = Take(slot[j], c)]
    BY <1>8, <2>1
  <2>5. QED
    BY <2>3, <2>4
<1>11. Moves(c, r, u, i, j)
  BY <1>1, <1>2, <1>4, <1>5, <1>6, <1>7, <1>8, <1>9, <1>10 DEF Moves, Keeps, Unstage, Sheds
<1>12. QED
  BY <1>6, <1>11 DEF Keeps

LEMMA BaseMoves ==
  ASSUME BaseInv, NEW c \in Callers, NEW r \in ActStates, NEW p \in SlotStates,
         NEW i \in Slots, NEW j \in Slots, Moves(c, r, p, i, j)
  PROVE  BaseInv'
<1>0. /\ Types /\ LocksOK(act, slot) /\ SlotsOK(pool, act, calls) /\ calls \in Nat
      /\ Typed(act, slot) /\ c \in Actors /\ c # Reaper
  BY Constants DEF BaseInv, TypeOK, Types, Typed
<1>1. PICK B : B = [act EXCEPT ![c] = Resting]
  OBVIOUS
<1>2. PICK T : T = [slot EXCEPT ![i] = p]
  OBVIOUS
<1>3. Wants(act[c]) = i
  BY DEF Moves, Sheds, Wants, Evicting
<1>4. Resting \in ActStates /\ Resting.pc = "idle"
  BY RestFields
<1>5. LocksOK(B, T)
  BY <1>0, <1>1, <1>2, <1>3, <1>4, LocksRelease DEF Moves
<1>6. Typed(B, T) /\ B[c].pc = "idle"
  BY <1>0, <1>1, <1>2, <1>4 DEF Typed
<1>7. r.pc \in Waiting /\ Wants(r) = j
  BY DEF Moves, Waiting, Wants, Evicting
<1>8. act' = [B EXCEPT ![c] = r]
  BY <1>0, <1>1 DEF Moves, Types
<1>9. slot' = [T EXCEPT ![j] = Take(@, c)]
  BY <1>2 DEF Moves
<1>10. LocksOK(act', slot')
  <2>1. LocksOK([B EXCEPT ![c] = r], [T EXCEPT ![j] = Take(@, c)])
    BY <1>0, <1>5, <1>6, <1>7, LocksTake
  <2>2. QED
    BY <1>8, <1>9, <2>1
<1>11. Types'
  <2>1. Take(T[j], c) \in SlotStates
    BY <1>0, <1>6, SlotTypes DEF Typed
  <2>2. slot' \in [Slots -> SlotStates]
    BY <1>6, <1>9, <2>1 DEF Typed
  <2>3. act' \in [Actors -> ActStates]
    BY <1>0 DEF Moves, Types
  <2>4. QED
    BY <1>0, <2>2, <2>3 DEF Moves, Types
<1>12. act'[c] = r /\ \A b \in Actors : b # c => act'[b] = act[b]
  BY <1>0 DEF Moves, Types
<1>13. SlotsOK(pool', act', calls')
  <2>1. \A b \in Actors : Shape(b, act'[b], calls)
    BY <1>0, <1>12 DEF Moves, SlotsOK, Shape, Evicting
  <2>2. \A b \in Actors : act'[b].own = act[b].own /\ act'[b].of = act[b].of
    BY <1>12 DEF Moves
  <2>3. \A b \in Actors, k \in Nat : Sheds(act'[b], k) => Sheds(act[b], k)
    BY <1>12 DEF Moves, Sheds
  <2>4. pool \in [Sessions -> Nat] /\ act \in [Actors -> ActStates] /\ act' \in [Actors -> ActStates]
    BY <1>0, <1>11 DEF Types
  <2>5. pool' = pool /\ calls' = calls
    BY DEF Moves
  <2>6. SlotsOK(pool, act', calls)
    BY <1>0, <2>1, <2>2, <2>3, <2>4, SlotsLess
  <2>7. QED
    BY <2>5, <2>6
<1>14. QED
  BY <1>10, <1>11, <1>13, BaseThen

-----------------------------------------------------------------------------
(* Steps of an actor that starts: it takes the lock of slot i or queues for *)
(* it.  T is the slots with the new one, if one is made.                    *)

Fresh(T) == T = [slot EXCEPT ![calls + 1] = NewSlot] /\ calls + 1 \in Slots /\ calls' = calls + 1

Starts(a, r, i, T) ==
  /\ act[a].pc = "idle" /\ r.pc \in Waiting /\ Wants(r) = i
  /\ act' = [act EXCEPT ![a] = r] /\ slot' = [T EXCEPT ![i] = Take(@, a)]
  /\ (T = slot /\ r.own # calls + 1) \/ (Fresh(T) /\ r.own = calls + 1)
  /\ calls' \in 0..MaxCalls /\ calls' >= calls /\ Shape(a, r, calls')
  /\ pool' \in [Sessions -> 0..calls']
  /\ \A s \in Sessions :
       \/ pool'[s] = pool[s]
       \/ pool'[s] = 0 /\ pool[s] = r.on /\ r.on # 0
       \/ pool'[s] = calls + 1 /\ pool[s] = 0 /\ s = r.of /\ r.own = calls + 1
  /\ r.own # 0 => r.of \in Sessions /\ pool'[r.of] = r.own /\ r.own \in {calls + 1, pool[r.of]}
  /\ r.on # 0 => \E t \in Sessions : r.on = pool[t] /\ pool[t] # 0 /\ pool'[t] = 0
  /\ r.on # 0 /\ a # Reaper => slot[r.on].holder = None
  /\ orderly' \in BOOLEAN
  /\ orderly' =>
       /\ orderly
       /\ a # Reaper => \A d \in Callers \ {a} : act[d].pc # "idle" =>
                          act[d].of # r.of /\ ~Sheds(act[d], act[d].on)
       /\ a = Reaper => \A d \in Callers : Sheds(act[d], act[d].on) => act[d].own # r.on
  /\ stale' \subseteq Sessions /\ UNCHANGED <<cli, faults>>

OnOwn(s, o)      == [Resting EXCEPT !.pc = "wait", !.of = s, !.known = s \in cli, !.own = o]
OnOther(s, o, n) == [Resting EXCEPT !.pc = "shed", !.of = s, !.known = s \in cli, !.own = o, !.on = n]
OnReap(s, n)     == [Resting EXCEPT !.pc = "shed", !.of = s, !.on = n]

IsStart(r, x, s, o, n) == r \in ActStates /\ r.pc = x /\ r.of = s /\ r.own = o /\ r.on = n

LEMMA StartFields ==
  ASSUME NEW s \in Sessions, NEW o \in 0..MaxCalls, NEW n \in 0..MaxCalls
  PROVE  /\ IsStart(OnOwn(s, o), "wait", s, o, 0)
         /\ IsStart(OnOther(s, o, n), "shed", s, o, n)
         /\ IsStart(OnReap(s, n), "shed", s, 0, n)
<1>1. PICK k \in BOOLEAN : k = (s \in cli)
  <2>1. (s \in cli) \in BOOLEAN
    OBVIOUS
  <2>2. QED
    BY <2>1, Zenon
<1>2. PICK q \in ActStates : q = Resting /\ q.own = 0 /\ q.on = 0
  <2>1. FALSE \in BOOLEAN
    OBVIOUS
  <2>2. QED
    BY <2>1, RestFields
<1>3. {"wait", "shed"} \subseteq Steps
  BY DEF Steps
<1>4. IsStart([q EXCEPT !.pc = "wait", !.of = s, !.known = k, !.own = o], "wait", s, o, 0)
  BY <1>2, <1>3 DEF ActStates, IsStart
<1>5. IsStart([q EXCEPT !.pc = "shed", !.of = s, !.known = k, !.own = o, !.on = n], "shed", s, o, n)
  BY <1>3 DEF ActStates, IsStart
<1>6. IsStart([q EXCEPT !.pc = "shed", !.of = s, !.on = n], "shed", s, 0, n)
  BY <1>2, <1>3 DEF ActStates, IsStart
<1>7. QED
  BY <1>1, <1>2, <1>4, <1>5, <1>6 DEF OnOwn, OnOther, OnReap

LEMMA CallOrderly ==
  ASSUME BaseInv, NEW c \in Callers, NEW s \in Sessions, Call(c, s)
  PROVE  /\ orderly' \in BOOLEAN
         /\ orderly' =>
              /\ orderly
              /\ \A d \in Callers \ {c} : act[d].pc # "idle" =>
                   act[d].of # s /\ ~Sheds(act[d], act[d].on)
<1>1. orderly' = (orderly /\ \A d \in OtherCalls(c) : act[d].of # s /\ ~Shedding(d))
  BY DEF Call
<1>2. orderly' \in BOOLEAN
  BY <1>1
<1>3. \A d \in Callers \ {c} : act[d].pc # "idle" => d \in OtherCalls(c)
  BY DEF OtherCalls, At
<1>4. \A d \in Callers : Sheds(act[d], act[d].on) => Shedding(d)
  BY DEF Sheds, Shedding
<1>5. QED
  BY <1>1, <1>2, <1>3, <1>4

LEMMA CallStarts ==
  ASSUME BaseInv, NEW c \in Callers, NEW s \in Sessions, Call(c, s)
  PROVE  \E r \in ActStates, i \in Slots, T \in [Slots -> SlotStates] : Starts(c, r, i, T)
<1>0. /\ Types /\ c \in Actors /\ c # Reaper /\ act[c].pc = "idle" /\ s # None
      /\ calls \in Nat /\ calls < MaxCalls /\ calls' = calls + 1
      /\ calls + 1 \in Slots /\ calls + 1 \in 0..MaxCalls /\ 0 \in 0..MaxCalls
      /\ stale' \subseteq Sessions /\ UNCHANGED <<cli, faults>>
  BY Constants DEF BaseInv, TypeOK, Types, Call, At
<1>1. orderly' \in BOOLEAN
      /\ (orderly' => orderly /\ \A d \in Callers \ {c} : act[d].pc # "idle" =>
                                   act[d].of # s /\ ~Sheds(act[d], act[d].on))
  BY CallOrderly
<1>3. \A t \in Sessions : pool[t] \in 0..calls
  BY <1>0 DEF Types
<1>4. CASE Reuse(c, s)
  <2>1. pool[s] \in 0..MaxCalls /\ pool[s] # 0 /\ pool[s] \in Slots /\ pool[s] # calls + 1
    BY <1>0, <1>3, <1>4, Constants DEF Reuse
  <2>2. PICK r : r = OnOwn(s, pool[s]) /\ IsStart(r, "wait", s, pool[s], 0)
    BY <2>1, StartFields
  <2>3. act' = [act EXCEPT ![c] = r] /\ slot' = [slot EXCEPT ![pool[s]] = Take(@, c)] /\ pool' = pool
    BY <1>4, <2>2 DEF Reuse, OnOwn
  <2>4. Shape(c, r, calls')
    BY <1>0, <1>3, <2>1, <2>2 DEF Shape, Evicting, IsStart
  <2>5. r.pc \in Waiting /\ Wants(r) = pool[s]
    BY <2>2 DEF Waiting, Wants, Evicting, IsStart
  <2>6. pool' \in [Sessions -> 0..calls']
    BY <1>0, <2>3 DEF Types
  <2>7. Starts(c, r, pool[s], slot)
    BY <1>0, <1>1, <2>1, <2>2, <2>3, <2>4, <2>5, <2>6, Constants DEF Starts, IsStart
  <2>8. QED
    BY <1>0, <2>1, <2>2, <2>7 DEF Types, IsStart
<1>5. PICK p \in Slots : p = calls + 1
  BY <1>0
<1>6. PICK T : T = [slot EXCEPT ![p] = NewSlot]
  OBVIOUS
<1>7. T \in [Slots -> SlotStates] /\ Fresh(T) /\ T[p] = NewSlot
      /\ \A j \in Slots : j # p => T[j] = slot[j]
  <2>1. NewSlot \in SlotStates
    BY DEF NewSlot, SlotStates
  <2>2. QED
    BY <1>0, <1>5, <1>6, <2>1 DEF Types, Fresh
<1>8. CASE Admit(c, s)
  <2>1. PICK r : r = OnOwn(s, p) /\ IsStart(r, "wait", s, p, 0)
    BY <1>0, <1>5, StartFields
  <2>2. /\ act' = [act EXCEPT ![c] = r] /\ slot' = [slot EXCEPT ![p] = Take(NewSlot, c)]
        /\ pool' = [pool EXCEPT ![s] = p] /\ pool[s] = 0
    BY <1>5, <1>8, <2>1 DEF Admit, OnOwn
  <2>3. slot' = [T EXCEPT ![p] = Take(@, c)]
    BY <1>6, <1>7, <2>2
  <2>4. Shape(c, r, calls')
    BY <1>0, <1>5, <2>1 DEF Shape, Evicting, IsStart
  <2>5. r.pc \in Waiting /\ Wants(r) = p
    BY <2>1 DEF Waiting, Wants, Evicting, IsStart
  <2>6. pool' \in [Sessions -> 0..calls']
    BY <1>0, <1>3, <1>5, <2>2 DEF Types
  <2>7. pool'[s] = p /\ \A t \in Sessions : t # s => pool'[t] = pool[t]
    BY <1>0, <2>2 DEF Types
  <2>8. /\ \A t \in Sessions :
             \/ pool'[t] = pool[t]
             \/ pool'[t] = calls + 1 /\ pool[t] = 0 /\ t = r.of /\ r.own = calls + 1
        /\ r.of \in Sessions /\ pool'[r.of] = r.own /\ r.own = calls + 1 /\ r.on = 0
    BY <1>5, <2>1, <2>2, <2>7 DEF IsStart
  <2>9. orderly' => \A d \in Callers \ {c} : act[d].pc # "idle" =>
                      act[d].of # r.of /\ ~Sheds(act[d], act[d].on)
    BY <1>1, <2>1 DEF IsStart
  <2>10. Starts(c, r, p, T)
    <3>1. calls' \in 0..MaxCalls /\ calls' >= calls /\ act[c].pc = "idle" /\ c # Reaper
          /\ stale' \subseteq Sessions /\ UNCHANGED <<cli, faults>>
      BY <1>0
    <3>2. orderly' \in BOOLEAN /\ (orderly' => orderly)
      BY <1>1
    <3>3. Fresh(T) /\ r.own = calls + 1
      BY <1>7, <2>8
    <3>4. act' = [act EXCEPT ![c] = r]
      BY <2>2
    <3>5. QED
      BY <2>3, <2>4, <2>5, <2>6, <2>8, <2>9, <3>1, <3>2, <3>3, <3>4 DEF Starts
  <2>11. QED
    BY <1>7, <2>1, <2>10 DEF IsStart
<1>9. CASE AdmitOver(c, s)
  <2>1. PICK t \in Candidates(s) :
          /\ pool' = [pool EXCEPT ![s] = calls + 1, ![t] = 0]
          /\ slot' = [slot EXCEPT ![calls + 1] = NewSlot, ![pool[t]] = Take(@, c)]
          /\ act' = [act EXCEPT ![c] = [Resting EXCEPT !.pc = "shed", !.of = s, !.known = s \in cli,
                                                       !.own = calls + 1, !.on = pool[t]]]
    BY <1>9 DEF AdmitOver
  <2>2. /\ t \in Sessions /\ t # s /\ pool[t] # 0 /\ slot[pool[t]].holder = None
        /\ pool[s] = 0
    BY <1>9, <2>1 DEF Candidates, Pooled, AdmitOver
  <2>3. PICK i \in Slots : i = pool[t] /\ i # p /\ i <= calls /\ i # 0 /\ i \in 0..MaxCalls
    BY <1>0, <1>3, <1>5, <2>2, Constants
  <2>4. PICK r : r = OnOther(s, p, i) /\ IsStart(r, "shed", s, p, i)
    BY <1>0, <1>5, <2>3, StartFields
  <2>5. act' = [act EXCEPT ![c] = r]
    BY <1>5, <2>1, <2>3, <2>4 DEF OnOther
  <2>6. slot' = [T EXCEPT ![i] = Take(@, c)]
    <3>1. T[i] = slot[i]
      BY <1>7, <2>3
    <3>2. slot' = [T EXCEPT ![i] = Take(slot[i], c)]
      BY <1>5, <1>6, <2>1, <2>3
    <3>3. QED
      BY <3>1, <3>2
  <2>7. Shape(c, r, calls')
    BY <1>0, <1>5, <2>3, <2>4 DEF Shape, Evicting, IsStart
  <2>8. r.pc \in Waiting /\ Wants(r) = i
    BY <2>4 DEF Waiting, Wants, Evicting, IsStart
  <2>9. pool'[s] = p /\ pool'[t] = 0 /\ \A v \in Sessions : v # s /\ v # t => pool'[v] = pool[v]
    BY <1>0, <1>5, <2>1, <2>2 DEF Types
  <2>10. pool' \in [Sessions -> 0..calls']
    <3>1. pool' \in [Sessions -> Nat] /\ DOMAIN pool' = Sessions
      BY <1>0, <1>3, <2>1, <2>2 DEF Types
    <3>2. \A v \in Sessions : pool'[v] \in 0..calls'
      BY <1>0, <1>3, <1>5, <2>9
    <3>3. QED
      BY <3>1, <3>2
  <2>11. Starts(c, r, i, T)
    BY <1>0, <1>1, <1>5, <1>7, <2>2, <2>3, <2>4, <2>5, <2>6, <2>7, <2>8, <2>9, <2>10, Constants
       DEF Starts, IsStart
  <2>12. QED
    BY <1>7, <2>4, <2>11 DEF IsStart
<1>10. QED
  BY <1>4, <1>8, <1>9 DEF Call

LEMMA ReapStarts ==
  ASSUME BaseInv, NEW s \in Sessions, Reap(s), pool[s] # 0
  PROVE  \E r \in ActStates, i \in Slots, T \in [Slots -> SlotStates] : Starts(Reaper, r, i, T)
<1>0. /\ Types /\ Reaper \in Actors /\ act[Reaper].pc = "idle"
      /\ calls \in 0..MaxCalls /\ calls \in Nat /\ calls' = calls
      /\ stale' \subseteq Sessions /\ UNCHANGED <<cli, faults>>
  BY Constants DEF BaseInv, TypeOK, Types, Reap, At
<1>1. PICK i \in Slots : i = pool[s] /\ i <= calls /\ i # 0 /\ i \in 0..MaxCalls
  BY <1>0, Constants DEF Types
<1>2. PICK r : r = OnReap(s, i) /\ IsStart(r, "shed", s, 0, i)
  BY <1>1, StartFields
<1>3. /\ act' = [act EXCEPT ![Reaper] = r] /\ slot' = [slot EXCEPT ![i] = Take(@, Reaper)]
      /\ pool' = [pool EXCEPT ![s] = 0]
  BY <1>1, <1>2 DEF Reap, OnReap
<1>4. Shape(Reaper, r, calls')
  BY <1>0, <1>1, <1>2 DEF Shape, Evicting, IsStart
<1>5. r.pc \in Waiting /\ Wants(r) = i
  BY <1>2 DEF Waiting, Wants, Evicting, IsStart
<1>6. pool' \in [Sessions -> 0..calls'] /\ pool'[s] = 0
      /\ \A v \in Sessions : v # s => pool'[v] = pool[v]
  BY <1>0, <1>3 DEF Types
<1>7. orderly' \in BOOLEAN
      /\ (orderly' => orderly /\ \A d \in Callers : Sheds(act[d], act[d].on) => act[d].own # i)
  <2>1. orderly' = (orderly /\ \A d \in Callers : Shedding(d) => act[d].own # pool[s])
    BY DEF Reap
  <2>2. \A d \in Callers : Sheds(act[d], act[d].on) => Shedding(d)
    BY DEF Sheds, Shedding
  <2>3. orderly' \in BOOLEAN
    BY <2>1
  <2>4. QED
    BY <1>1, <2>1, <2>2, <2>3
<1>8. r.own # calls + 1
  BY <1>0, <1>2 DEF IsStart
<1>9. Starts(Reaper, r, i, slot)
  BY <1>0, <1>1, <1>2, <1>3, <1>4, <1>5, <1>6, <1>7, <1>8 DEF Starts, IsStart
<1>10. QED
  BY <1>0, <1>2, <1>9 DEF Types, IsStart

LEMMA BaseStarts ==
  ASSUME BaseInv, NEW a \in Actors, NEW r \in ActStates, NEW i \in Slots,
         NEW T \in [Slots -> SlotStates], Starts(a, r, i, T)
  PROVE  BaseInv' /\ LocksOK(act, T)
<1>0. /\ Types /\ LocksOK(act, slot) /\ SlotsOK(pool, act, calls) /\ calls \in Nat
      /\ Typed(act, slot) /\ Typed(act, T)
  BY Constants DEF BaseInv, TypeOK, Types, Typed
<1>1. LocksOK(act, T)
  <2>1. CASE T = slot
    BY <1>0, <2>1
  <2>2. CASE Fresh(T)
    <3>1. PICK p \in Slots : p = calls + 1
      BY <2>2 DEF Fresh
    <3>2. \A b \in Actors : act[b].pc # "idle" => Wants(act[b]) # p
      <4> SUFFICES ASSUME NEW b \in Actors, act[b].pc # "idle" PROVE Wants(act[b]) # p
        OBVIOUS
      <4>1. Wants(act[b]) \in Slots /\ Wants(act[b]) <= calls
        BY Wanted
      <4>2. QED
        BY <1>0, <3>1, <4>1, Constants
    <3>3. LocksOK(act, [slot EXCEPT ![p] = NewSlot])
      BY <1>0, <3>2, LocksFresh
    <3>4. QED
      BY <2>2, <3>1, <3>3 DEF Fresh
  <2>3. QED
    BY <2>1, <2>2 DEF Starts
<1>2. LocksOK(act', slot')
  <2>1. act[a].pc = "idle" /\ r.pc \in Waiting /\ Wants(r) = i
    BY DEF Starts
  <2>2. LocksOK([act EXCEPT ![a] = r], [T EXCEPT ![i] = Take(@, a)])
    BY <1>0, <1>1, <2>1, LocksTake
  <2>3. QED
    BY <2>2 DEF Starts
<1>3. Types'
  <2>1. Take(T[i], a) \in SlotStates
    BY SlotTypes
  <2>2. slot' \in [Slots -> SlotStates]
    BY <2>1 DEF Starts
  <2>3. QED
    BY <1>0, <2>2 DEF Types, Starts
<1>4. SlotsOK(pool', act', calls')
  <2>1. /\ pool \in [Sessions -> Nat] /\ pool' \in [Sessions -> Nat] /\ act \in [Actors -> ActStates]
        /\ \A s \in Sessions : pool[s] <= calls
        /\ calls' \in Nat /\ calls' >= calls
    BY <1>0, <1>3 DEF Types, Starts
  <2>2. act[a].pc = "idle" /\ Shape(a, r, calls')
    BY DEF Starts
  <2>3. \A s \in Sessions : pool'[s] \in {pool[s], 0} \/ (pool'[s] = calls + 1 /\ s = r.of)
    BY DEF Starts
  <2>4. r.own = 0 \/ (r.of \in Sessions /\ pool'[r.of] = r.own /\ r.own \in {calls + 1, pool[r.of]})
    BY DEF Starts
  <2>5. r.on = 0 \/ \E t \in Sessions : r.on = pool[t] /\ pool[t] # 0 /\ pool'[t] = 0
    BY DEF Starts
  <2>6. SlotsOK(pool', [act EXCEPT ![a] = r], calls')
    BY <1>0, <2>1, <2>2, <2>3, <2>4, <2>5, SlotsMore
  <2>7. QED
    BY <2>6 DEF Starts
<1>5. QED
  BY <1>1, <1>2, <1>3, <1>4, BaseThen

-----------------------------------------------------------------------------
(* RotationKept: no credential is lost.                                    *)

\* A slot's blob stays good if it is stored, or its holder and what that one
\* is doing stay as they are.
LEMMA BlobKept ==
  ASSUME BlobInv,
         \A j \in Slots :
           \/ slot'[j].blob = "stored"
           \/ /\ slot'[j].blob = slot[j].blob
              /\ \/ slot[j].holder = None
                 \/ slot'[j].holder = slot[j].holder /\ act'[slot[j].holder] = act[slot[j].holder]
           \/ BlobOK(slot'[j], j, act')
  PROVE  BlobInv'
<1>1. ASSUME NEW j \in Slots PROVE BlobOK(slot'[j], j, act')
  <2>1. BlobOK(slot[j], j, act)
    BY DEF BlobInv
  <2>2. QED
    BY <2>1 DEF BlobOK
<1>2. QED
  BY <1>1 DEF BlobInv, BlobOK

LEMMA BlobGoesOn ==
  ASSUME BaseInv, BlobInv, NEW a \in Actors, NEW r \in ActStates, NEW p \in SlotStates,
         NEW i \in Slots, GoesOn(a, r, p, i)
  PROVE  BlobInv'
<1>1. act'[a] = r /\ \A b \in Actors : b # a => act'[b] = act[b]
  BY DEF GoesOn, BaseInv, TypeOK
<1>2. slot'[i] = p /\ \A j \in Slots : j # i => slot'[j] = slot[j]
  BY DEF GoesOn, BaseInv, TypeOK
<1>3. BlobOK(slot'[i], i, act')
  BY <1>1, <1>2, Constants DEF GoesOn, BlobOK
<1>4. \A j \in Slots : j # i => slot[j].holder # a /\ slot[j].holder \in Actors \cup {None}
  BY Wanted DEF GoesOn, SlotStates
<1>5. QED
  BY <1>1, <1>2, <1>3, <1>4, BlobKept

LEMMA BlobRests ==
  ASSUME BaseInv, BlobInv, NEW a \in Actors, NEW r \in ActStates, NEW p \in SlotStates,
         NEW i \in Slots, Rests(a, r, p, i)
  PROVE  BlobInv'
<1>1. act'[a] = r /\ \A b \in Actors : b # a => act'[b] = act[b]
  BY DEF Rests, BaseInv, TypeOK
<1>2. slot'[i] = p /\ \A j \in Slots : j # i => slot'[j] = slot[j]
  BY DEF Rests, BaseInv, TypeOK
<1>3. \A j \in Slots : j # i => slot[j].holder # a /\ slot[j].holder \in Actors \cup {None}
  BY Wanted DEF Rests, SlotStates
<1>4. p.blob = "stored"
  BY DEF Rests
<1>5. QED
  BY <1>1, <1>2, <1>3, <1>4, BlobKept

LEMMA BlobLeaves ==
  ASSUME BaseInv, BlobInv, NEW a \in Actors, NEW r \in ActStates, NEW i \in Slots, Leaves(a, r, i)
  PROVE  BlobInv'
<1>1. \A b \in Actors : b # a => act'[b] = act[b]
  BY DEF Leaves, BaseInv, TypeOK
<1>2. slot'[i] = Left(slot[i], a) /\ \A j \in Slots : j # i => slot'[j] = slot[j]
  BY DEF Leaves, BaseInv, TypeOK
<1>3. slot'[i].holder = slot[i].holder /\ slot'[i].blob = slot[i].blob
  BY <1>2, Wanted DEF Left, SlotStates
<1>4. slot[i].holder # a
  BY DEF Leaves
<1>5. \A j \in Slots : slot[j].holder # a /\ slot[j].holder \in Actors \cup {None}
  BY <1>4, Wanted DEF Leaves, SlotStates
<1>6. QED
  BY <1>1, <1>2, <1>3, <1>5, BlobKept

LEMMA BlobWake ==
  ASSUME BaseInv, BlobInv, NEW i \in Slots, Wake(i)
  PROVE  BlobInv'
<1>1. act' = act /\ slot[i].holder = None /\ \A j \in Slots : j # i => slot'[j] = slot[j]
  BY DEF Wake, BaseInv, TypeOK
<1>2. slot'[i].blob = slot[i].blob
  BY DEF Wake, BaseInv, TypeOK, SlotStates
<1>3. QED
  BY <1>1, <1>2, BlobKept

LEMMA BlobMoves ==
  ASSUME BaseInv, BlobInv, NEW c \in Callers, NEW r \in ActStates, NEW p \in SlotStates,
         NEW i \in Slots, NEW j \in Slots, Moves(c, r, p, i, j)
  PROVE  BlobInv'
<1>0. c \in Actors
  BY Constants
<1>1. \A b \in Actors : b # c => act'[b] = act[b]
  BY <1>0 DEF Moves, BaseInv, TypeOK
<1>2. /\ slot'[i] = p /\ slot'[j] = Take(slot[j], c)
      /\ \A k \in Slots : k # i /\ k # j => slot'[k] = slot[k]
  BY DEF Moves, BaseInv, TypeOK
<1>3. \A k \in Slots : slot[k].holder = c => k = i
  BY <1>0, Wanted DEF Moves
<1>4. slot'[j].blob = slot[j].blob /\ (slot[j].holder # None => slot'[j].holder = slot[j].holder)
  BY <1>0, <1>2, Wanted DEF Take, SlotStates
<1>5. \A k \in Slots : slot[k].holder \in Actors \cup {None}
  BY <1>0, Wanted DEF SlotStates
<1>6. p.blob = "stored" /\ i # j
  BY DEF Moves
<1>7. ASSUME NEW k \in Slots
      PROVE  \/ slot'[k].blob = "stored"
             \/ /\ slot'[k].blob = slot[k].blob
                /\ \/ slot[k].holder = None
                   \/ slot'[k].holder = slot[k].holder /\ act'[slot[k].holder] = act[slot[k].holder]
  <2>1. CASE k = i
    BY <1>2, <1>6, <2>1
  <2>2. CASE k = j
    BY <1>1, <1>3, <1>4, <1>5, <1>6, <2>2
  <2>3. CASE k # i /\ k # j
    BY <1>1, <1>2, <1>3, <1>5, <2>3
  <2>4. QED
    BY <2>1, <2>2, <2>3
<1>8. QED
  BY <1>7, BlobKept

LEMMA BlobStarts ==
  ASSUME BaseInv, BlobInv, NEW a \in Actors, NEW r \in ActStates, NEW i \in Slots,
         NEW T \in [Slots -> SlotStates], Starts(a, r, i, T)
  PROVE  BlobInv'
<1>1. \A b \in Actors : b # a => act'[b] = act[b]
  BY DEF Starts, BaseInv, TypeOK
<1>2. slot'[i] = Take(T[i], a) /\ \A k \in Slots : k # i => slot'[k] = T[k]
  BY DEF Starts
<1>3. \A k \in Slots : slot[k].holder # a /\ slot[k].holder \in Actors \cup {None}
  BY Wanted DEF Starts, SlotStates
<1>4. slot'[i].blob = T[i].blob /\ (T[i].holder # None => slot'[i].holder = T[i].holder)
  BY <1>2 DEF Take, SlotStates
<1>5. \A k \in Slots : T[k] = slot[k] \/ T[k].blob = "stored"
  BY DEF Starts, Fresh, NewSlot, BaseInv, TypeOK
<1>6. ASSUME NEW k \in Slots
      PROVE  \/ slot'[k].blob = "stored"
             \/ /\ slot'[k].blob = slot[k].blob
                /\ \/ slot[k].holder = None
                   \/ slot'[k].holder = slot[k].holder /\ act'[slot[k].holder] = act[slot[k].holder]
  <2>1. CASE k = i
    BY <1>1, <1>3, <1>4, <1>5, <2>1
  <2>2. CASE k # i
    BY <1>1, <1>2, <1>3, <1>5, <2>2
  <2>3. QED
    BY <2>1, <2>2
<1>7. QED
  BY <1>6, BlobKept

-----------------------------------------------------------------------------
(* NothingLeaks: what has a process or a HOME is somebody's.               *)

Covered(P, p, i) ==
  p.proc # "none" \/ p.home =>
    (\E s \in Sessions : P[s] = i) \/ p.holder # None \/ p.queue # <<>>

LEMMA LeakNow ==
  ASSUME LeakInv
  PROVE  /\ \A a \in Actors : act[a].pc = "unstage" => slot[act[a].on].proc = "none"
         /\ orderly => Tidy(pool, act, slot) /\ \A i \in Slots : Covered(pool, slot[i], i)
BY DEF LeakInv, Dead, At, NothingLeaks, Covered

LEMMA LeakThen ==
  ASSUME \A a \in Actors : act'[a].pc = "unstage" => slot'[act'[a].on].proc = "none",
         orderly' => Tidy(pool', act', slot') /\ \A i \in Slots : Covered(pool', slot'[i], i)
  PROVE  LeakInv'
BY DEF LeakInv, Dead, At, NothingLeaks, Covered, Tidy, Tracked, Behind, Sheds

\* One that sheds slot k wants its lock.
LEMMA ShedWants ==
  ASSUME BaseInv, NEW a \in Actors, NEW k, Sheds(act[a], k)
  PROVE  act[a].pc \in Evicting /\ act[a].pc # "kill" /\ act[a].pc # "idle" /\ Wants(act[a]) = k
<1>1. Shape(a, act[a], calls) /\ act[a].pc \in Steps
  BY Wanted DEF ActStates
<1>2. QED
  BY <1>1 DEF Shape, Sheds, Evicting, Wants, Steps

\* One that sheds nothing wants its own slot.
LEMMA OwnWants ==
  ASSUME BaseInv, NEW c \in Callers, act[c].pc # "idle", ~Sheds(act[c], act[c].on)
  PROVE  Wants(act[c]) = act[c].own
<1>1. Shape(c, act[c], calls) /\ act[c].pc \in Steps
  BY Wanted, Constants DEF ActStates
<1>2. QED
  BY <1>1 DEF Shape, Sheds, Evicting, Wants, Steps

\* Who wants a slot of the pool, that a call has for its own, is that call.
LEMMA OnlyOne ==
  ASSUME BaseInv, Tidy(pool, act, slot), NEW d \in Callers, act[d].pc # "idle",
         NEW s \in Sessions, pool[s] = act[d].own, act[d].own # 0,
         NEW x \in Actors, act[x].pc # "idle", Wants(act[x]) = act[d].own
  PROVE  x = d
<1>1. ~Sheds(act[x], act[d].own)
  BY DEF BaseInv, SlotsOK
<1>2. act[x].own = act[d].own
  BY <1>1 DEF Wants, Sheds
<1>3. x \in Callers
  BY <1>2, Wanted, Constants DEF Shape
<1>4. act[x].of = act[d].of
  BY <1>2, <1>3 DEF BaseInv, SlotsOK
<1>5. QED
  BY <1>3, <1>4 DEF Tidy

LEMMA LeakGoesOn ==
  ASSUME BaseInv, LeakInv, NEW a \in Actors, NEW r \in ActStates, NEW p \in SlotStates,
         NEW i \in Slots, GoesOn(a, r, p, i)
  PROVE  LeakInv'
<1>1. act'[a] = r /\ \A b \in Actors : b # a => act'[b] = act[b]
  BY DEF GoesOn, BaseInv, TypeOK
<1>2. slot'[i] = p /\ \A j \in Slots : j # i => slot'[j] = slot[j]
  BY DEF GoesOn, BaseInv, TypeOK
<1>3. pool' = pool /\ orderly' = orderly /\ p.holder = a /\ p.queue = slot[i].queue
      /\ slot[i].holder = a
  BY DEF GoesOn
<1>4. ASSUME NEW b \in Actors, act'[b].pc = "unstage" PROVE slot'[act'[b].on].proc = "none"
  <2>1. CASE b = a
    BY <1>1, <1>2, <1>4, <2>1 DEF GoesOn, Wants, Evicting
  <2>2. CASE b # a
    <3>1. act[b].pc = "unstage" /\ Wants(act[b]) = act[b].on /\ slot[act[b].on].holder = b
          /\ act[b].on \in Slots /\ act'[b] = act[b]
      BY <1>1, <1>4, <2>2, Wanted DEF Wants, Evicting
    <3>2. act[b].on # i
      BY <1>3, <2>2, <3>1
    <3>3. QED
      BY <1>2, <3>1, <3>2, LeakNow
  <2>3. QED
    BY <2>1, <2>2
<1>5. \A b \in Actors : /\ act'[b].pc = "idle" <=> act[b].pc = "idle"
                        /\ act'[b].own = act[b].own /\ act'[b].of = act[b].of
                        /\ \A j \in Nat : Sheds(act'[b], j) <=> Sheds(act[b], j)
  BY <1>1 DEF GoesOn
<1>6. \A j \in Slots : slot'[j].holder = slot[j].holder /\ slot'[j].queue = slot[j].queue
  BY <1>2, <1>3
<1>7. ASSUME orderly'
      PROVE  Tidy(pool', act', slot') /\ \A j \in Slots : Covered(pool', slot'[j], j)
  <2>1. Tidy(pool, act, slot) /\ \A j \in Slots : Covered(pool, slot[j], j)
    BY <1>3, <1>7, LeakNow
  <2>2. \A c \in Callers : c \in Actors /\ act[c].own \in Nat
                           /\ (act[c].pc # "idle" => act[c].own \in Slots)
    BY Wanted, Constants DEF Shape
  <2>3. \A c, d \in Callers : act'[c].pc # "idle" /\ act'[d].pc # "idle"
                              /\ act'[c].of = act'[d].of => c = d
    BY <1>5, <2>1, <2>2 DEF Tidy
  <2>4. \A c \in Callers : act'[c].pc # "idle" => Tracked(pool', act', slot', c)
    BY <1>3, <1>5, <2>1, <2>2 DEF Tidy, Tracked
  <2>5. \A c \in Callers, b \in Actors : act'[c].pc # "idle" => Behind(act', slot', c, b)
    BY <1>5, <1>6, <2>1, <2>2 DEF Tidy, Behind
  <2>6. \A j \in Slots : Covered(pool', slot'[j], j)
    BY <1>2, <1>3, <2>1, Constants DEF Covered
  <2>7. QED
    BY <2>3, <2>4, <2>5, <2>6 DEF Tidy
<1>8. QED
  BY <1>4, <1>7, LeakThen

LEMMA LeakRests ==
  ASSUME BaseInv, LeakInv, NEW a \in Actors, NEW r \in ActStates, NEW p \in SlotStates,
         NEW i \in Slots, Rests(a, r, p, i)
  PROVE  LeakInv'
<1>1. act'[a] = r /\ r.pc = "idle" /\ r.own = 0 /\ r.on = 0
      /\ \A b \in Actors : b # a => act'[b] = act[b]
  BY DEF Rests, BaseInv, TypeOK
<1>2. slot'[i] = p /\ \A j \in Slots : j # i => slot'[j] = slot[j]
  BY DEF Rests, BaseInv, TypeOK
<1>3. slot[i].holder = a /\ Wants(act[a]) = i /\ act[a].pc # "idle" /\ a # None /\ i # 0
      /\ p.queue = slot[i].queue
      /\ \A s \in Sessions : pool'[s] = pool[s] \/ (pool'[s] = 0 /\ s = act[a].of /\ act[a].own = i)
  BY Constants DEF Rests
<1>4. ASSUME NEW b \in Actors, act'[b].pc = "unstage" PROVE slot'[act'[b].on].proc = "none"
  <2>1. b # a
    BY <1>1, <1>4
  <2>2. act[b].pc = "unstage" /\ Wants(act[b]) = act[b].on /\ slot[act[b].on].holder = b
        /\ act[b].on \in Slots /\ act'[b] = act[b]
    BY <1>1, <1>4, <2>1, Wanted DEF Wants, Evicting
  <2>3. act[b].on # i
    BY <1>3, <2>1, <2>2
  <2>4. QED
    BY <1>2, <2>2, <2>3, LeakNow
<1>5. ASSUME orderly'
      PROVE  Tidy(pool', act', slot') /\ \A j \in Slots : Covered(pool', slot'[j], j)
  <2>0. Tidy(pool, act, slot) /\ \A j \in Slots : Covered(pool, slot[j], j)
    BY <1>5, LeakNow DEF Rests
  <2>1. \A c \in Callers : act'[c].pc # "idle" =>
          /\ c \in Actors /\ c # a /\ act'[c] = act[c] /\ act[c].pc # "idle"
          /\ act[c].own \in Slots /\ act[c].own # 0
    BY <1>1, Wanted, Constants DEF Shape
  <2>2. \A k : \A b \in Actors : Sheds(act'[b], k) => b # a /\ act'[b] = act[b]
    BY <1>1 DEF Sheds
  <2>3. \A c, d \in Callers : act'[c].pc # "idle" /\ act'[d].pc # "idle"
                              /\ act'[c].of = act'[d].of => c = d
    BY <2>0, <2>1 DEF Tidy
  \* Nobody's own slot is shed by the one that rests.
  <2>4. ASSUME NEW c \in Callers, act'[c].pc # "idle" PROVE ~Sheds(act[a], act[c].own)
    <3>1. SUFFICES ASSUME Sheds(act[a], act[c].own) PROVE FALSE
      OBVIOUS
    <3>2. act[c].own = i
      BY <1>3, <3>1, ShedWants
    <3>3. Behind(act, slot, c, a)
      BY <2>0, <2>1, <2>4 DEF Tidy
    <3>4. QED
      BY <1>3, <2>1, <2>4, <3>1, <3>2, <3>3 DEF Behind
  <2>5. ASSUME NEW c \in Callers, act'[c].pc # "idle" PROVE Tracked(pool', act', slot', c)
    <3>1. Tracked(pool, act, slot, c)
      BY <2>0, <2>1, <2>5 DEF Tidy
    <3>2. act[c].of \in Sessions
      BY <2>1, <2>5, Wanted DEF Shape, ActStates
    <3>3. pool'[act[c].of] = pool[act[c].of]
      <4>1. ASSUME act[c].of = act[a].of, act[a].own = i PROVE FALSE
        <5>1. a \in Callers
          BY <1>3, <4>1, Wanted, Constants DEF Shape
        <5>2. QED
          BY <1>3, <2>0, <2>1, <2>5, <4>1, <5>1 DEF Tidy
      <4>2. QED
        BY <1>3, <3>2, <4>1
    <3>4. CASE pool[act[c].of] = act[c].own
      BY <2>1, <2>5, <3>3, <3>4 DEF Tracked
    <3>5. CASE pool[act[c].of] # act[c].own
      <4>1. PICK b \in Actors : Sheds(act[b], act[c].own)
        BY <3>1, <3>5 DEF Tracked
      <4>2. b # a
        BY <2>4, <2>5, <4>1
      <4>3. QED
        BY <1>1, <2>1, <2>5, <3>1, <3>3, <3>5, <4>1, <4>2 DEF Tracked
    <3>6. QED
      BY <3>4, <3>5
  <2>6. ASSUME NEW c \in Callers, NEW b \in Actors, act'[c].pc # "idle"
        PROVE  Behind(act', slot', c, b)
    <3> SUFFICES ASSUME Sheds(act[b], act[c].own), b # a
                 PROVE  slot'[act[c].own].holder = c \/
                        (slot'[act[c].own].holder = None /\ slot'[act[c].own].queue # <<>>
                          /\ Head(slot'[act[c].own].queue) = c)
      BY <2>1, <2>2, <2>6 DEF Behind
    <3>1. Behind(act, slot, c, b)
      BY <2>0, <2>1, <2>6 DEF Tidy
    <3>2. act[c].own # i
      BY <1>3, <2>1, <2>6, <3>1 DEF Behind
    <3>3. QED
      BY <1>2, <2>1, <2>6, <3>1, <3>2 DEF Behind
  <2>7. ASSUME NEW j \in Slots, j # i PROVE Covered(pool', slot'[j], j)
    <3>1. Covered(pool, slot[j], j) /\ slot'[j] = slot[j]
      BY <1>2, <2>0, <2>7
    <3>2. ASSUME NEW s \in Sessions, pool[s] = j PROVE pool'[s] = j
      <4>1. ASSUME s = act[a].of, act[a].own = i PROVE FALSE
        <5>1. a \in Callers
          BY <1>3, <4>1, Wanted, Constants DEF Shape
        <5>2. Tracked(pool, act, slot, a)
          BY <1>3, <2>0, <5>1 DEF Tidy
        <5>3. QED
          BY <2>7, <3>2, <4>1, <5>2, Constants DEF Tracked
      <4>2. QED
        BY <1>3, <3>2, <4>1
    <3>3. QED
      BY <3>1, <3>2 DEF Covered
  <2>8. Covered(pool', slot'[i], i)
    <3>1. CASE act[a].pc = "stream" /\ act[a].own = i /\ pool' = pool
      <4>1. a \in Callers /\ act[a].on = 0
        BY <3>1, Wanted, Constants DEF Shape
      <4>2. Tracked(pool, act, slot, a) /\ act[a].of \in Sessions
        <5>1. Tracked(pool, act, slot, a)
          BY <1>3, <2>0, <4>1 DEF Tidy
        <5>2. act[a].of # None
          BY <1>3, <4>1, Wanted, Constants DEF Shape
        <5>3. act[a].of \in Sessions \cup {None}
          BY Wanted DEF ActStates
        <5>4. QED
          BY <5>1, <5>2, <5>3
      <4>3. CASE pool[act[a].of] = i
        BY <3>1, <4>2, <4>3 DEF Covered
      <4>4. CASE pool[act[a].of] # i
        <5>1. PICK b \in Actors : Sheds(act[b], i)
          BY <3>1, <4>2, <4>4 DEF Tracked
        <5>2. b # a /\ act[b].pc # "idle" /\ Wants(act[b]) = i
          BY <4>1, <5>1, ShedWants DEF Sheds
        <5>3. InLine(b, slot[i].queue)
          BY <1>3, <5>2 DEF BaseInv, LocksOK, ActorLock
        <5>4. slot[i].queue # <<>>
          BY <5>3 DEF InLine
        <5>5. QED
          BY <1>2, <1>3, <5>4 DEF Covered
      <4>5. QED
        BY <4>3, <4>4
    <3>2. CASE act[a].pc = "unstage" /\ act[a].on = i /\ p.proc = slot[i].proc /\ ~p.home
      <4>1. p.proc = "none"
        BY <3>2, LeakNow
      <4>2. QED
        BY <1>2, <3>2, <4>1 DEF Covered
    <3>3. QED
      BY <1>5, <3>1, <3>2 DEF Rests
  <2>9. QED
    BY <2>3, <2>5, <2>6, <2>7, <2>8 DEF Tidy
<1>6. QED
  BY <1>4, <1>5, LeakThen

LEMMA LeakLeaves ==
  ASSUME BaseInv, LeakInv, NEW a \in Actors, NEW r \in ActStates, NEW i \in Slots, Leaves(a, r, i)
  PROVE  LeakInv'
<1>1. act'[a] = r /\ r.pc = "idle" /\ r.own = 0 /\ r.on = 0
      /\ \A b \in Actors : b # a => act'[b] = act[b]
  BY DEF Leaves, BaseInv, TypeOK
<1>2. slot'[i] = Left(slot[i], a) /\ \A j \in Slots : j # i => slot'[j] = slot[j]
  BY DEF Leaves, BaseInv, TypeOK
<1>3. \A j \in Slots : slot'[j].proc = slot[j].proc /\ slot'[j].home = slot[j].home
                       /\ slot'[j].holder = slot[j].holder
  BY <1>2, Wanted DEF Left, SlotStates
<1>4. act[a].pc \in Waiting /\ act[a].pc # "idle" /\ Wants(act[a]) = i /\ slot[i].holder # a
      /\ pool' = pool
  BY Constants DEF Leaves, Waiting
<1>5. ASSUME NEW b \in Actors, act'[b].pc = "unstage" PROVE slot'[act'[b].on].proc = "none"
  <2>1. b # a
    BY <1>1, <1>5
  <2>2. act[b].pc = "unstage" /\ Wants(act[b]) = act[b].on
        /\ act[b].on \in Slots /\ act'[b] = act[b]
    BY <1>1, <1>5, <2>1, Wanted DEF Wants, Evicting
  <2>3. QED
    BY <1>3, <2>2, LeakNow
<1>6. ASSUME orderly'
      PROVE  Tidy(pool', act', slot') /\ \A j \in Slots : Covered(pool', slot'[j], j)
  <2>0. Tidy(pool, act, slot) /\ \A j \in Slots : Covered(pool, slot[j], j)
    BY <1>6, LeakNow DEF Leaves
  <2>1. act[a].pc = "wait" /\ act[a].on = 0 /\ act[a].own = i /\ i # 0
    BY <1>4, <1>6, Wanted, Constants DEF Leaves, Shape, Wants, Evicting
  <2>2. a \in Callers
    BY <2>1, Wanted, Constants DEF Shape
  <2>3. \A c \in Callers : act'[c].pc # "idle" =>
          /\ c \in Actors /\ c # a /\ act'[c] = act[c] /\ act[c].pc # "idle"
          /\ act[c].own \in Slots /\ act[c].own # 0
    BY <1>1, Wanted, Constants DEF Shape
  <2>4. \A k : \A b \in Actors : Sheds(act'[b], k) => b # a /\ act'[b] = act[b]
    BY <1>1 DEF Sheds
  <2>5. \A k : ~Sheds(act[a], k)
    BY <2>1 DEF Sheds
  <2>6. \A c, d \in Callers : act'[c].pc # "idle" /\ act'[d].pc # "idle"
                              /\ act'[c].of = act'[d].of => c = d
    BY <2>0, <2>3 DEF Tidy
  <2>7. ASSUME NEW c \in Callers, act'[c].pc # "idle" PROVE Tracked(pool', act', slot', c)
    <3>1. Tracked(pool, act, slot, c)
      BY <2>0, <2>3, <2>7 DEF Tidy
    <3>2. CASE pool[act[c].of] = act[c].own
      BY <1>4, <2>3, <2>7, <3>2 DEF Tracked
    <3>3. CASE pool[act[c].of] # act[c].own
      <4>1. PICK b \in Actors : Sheds(act[b], act[c].own)
        BY <3>1, <3>3 DEF Tracked
      <4>2. b # a
        BY <2>5, <4>1
      <4>3. QED
        BY <1>1, <1>4, <2>3, <2>7, <3>1, <3>3, <4>1, <4>2 DEF Tracked
    <3>4. QED
      BY <3>2, <3>3
  <2>8. ASSUME NEW c \in Callers, NEW b \in Actors, act'[c].pc # "idle"
        PROVE  Behind(act', slot', c, b)
    <3>1. Behind(act, slot, c, b)
      BY <2>0, <2>3, <2>8 DEF Tidy
    <3>2. act[c].own # i
      <4>1. SUFFICES ASSUME act[c].own = i PROVE FALSE
        OBVIOUS
      <4>2. act[c].of = act[a].of
        BY <2>1, <2>2, <4>1 DEF BaseInv, SlotsOK
      <4>3. QED
        BY <1>4, <2>0, <2>2, <2>3, <2>8, <4>2 DEF Tidy
    <3>3. slot'[act[c].own] = slot[act[c].own] /\ act'[c] = act[c]
      BY <1>2, <2>3, <2>8, <3>2
    <3>4. QED
      BY <2>4, <3>1, <3>3 DEF Behind
  <2>9. Covered(pool', slot'[i], i)
    <3>1. Tracked(pool, act, slot, a)
      BY <1>4, <2>0, <2>2 DEF Tidy
    <3>2. act[a].of \in Sessions
      <4>1. act[a].of # None /\ act[a].of \in Sessions \cup {None}
        BY <1>4, <2>2, Wanted, Constants DEF Shape, ActStates
      <4>2. QED
        BY <4>1
    <3>3. CASE pool[act[a].of] = i
      BY <1>4, <3>2, <3>3 DEF Covered
    <3>4. CASE pool[act[a].of] # i
      <4>1. PICK b \in Actors : Sheds(act[b], i)
        BY <2>1, <3>1, <3>4 DEF Tracked
      <4>2. b # a /\ act[b].pc # "idle" /\ Wants(act[b]) = i
        BY <2>5, <4>1, ShedWants
      <4>3. slot[i].holder = b \/ InLine(b, slot[i].queue)
        BY <4>2 DEF BaseInv, LocksOK, ActorLock
      <4>4. CASE slot[i].holder = b
        BY <1>3, <4>4, Constants DEF Covered
      <4>5. CASE InLine(b, slot[i].queue)
        <5>1. InLine(a, slot[i].queue) /\ NoneTwice(slot[i].queue)
          BY <1>4 DEF BaseInv, LocksOK, ActorLock, SlotLock
        <5>2. slot[i].queue \in Seq(Actors) /\ slot'[i].queue = Without(slot[i].queue, a)
          BY <1>2, Wanted DEF Left, SlotStates
        <5>3. InLine(b, slot'[i].queue)
          BY <4>2, <4>5, <5>1, <5>2, LineWithout
        <5>4. slot'[i].queue # <<>>
          BY <5>3 DEF InLine
        <5>5. QED
          BY <5>4 DEF Covered
      <4>6. QED
        BY <4>3, <4>4, <4>5
    <3>5. QED
      BY <3>3, <3>4
  <2>10. \A j \in Slots : Covered(pool', slot'[j], j)
    BY <1>2, <1>4, <2>0, <2>9
  <2>11. QED
    BY <2>6, <2>7, <2>8, <2>10 DEF Tidy
<1>7. QED
  BY <1>5, <1>6, LeakThen

LEMMA LeakWake ==
  ASSUME BaseInv, LeakInv, NEW i \in Slots, Wake(i)
  PROVE  LeakInv'
<1>1. /\ slot[i].holder = None /\ slot[i].queue # <<>> /\ act' = act /\ pool' = pool
      /\ orderly' = orderly
      /\ slot' = [slot EXCEPT ![i].holder = Head(slot[i].queue), ![i].queue = Tail(@)]
  BY DEF Wake
<1>2. slot \in [Slots -> SlotStates]
  BY DEF BaseInv, TypeOK
<1>3. /\ slot'[i].holder = Head(slot[i].queue)
      /\ \A j \in Slots : /\ slot'[j].proc = slot[j].proc
                          /\ j # i => slot'[j] = slot[j]
  BY <1>1, <1>2 DEF SlotStates
<1>4. Head(slot[i].queue) # None
  <2>1. slot[i].queue \in Seq(Actors)
    BY Wanted, SlotTypes, Constants
  <2>2. NoneTwice(slot[i].queue)
    BY DEF BaseInv, LocksOK, SlotLock
  <2>3. QED
    BY <1>1, <2>1, <2>2, LineTail, Constants
<1>5. ASSUME NEW b \in Actors, act'[b].pc = "unstage" PROVE slot'[act'[b].on].proc = "none"
  <2>1. act[b].on \in Slots /\ act[b].pc = "unstage"
    BY <1>1, <1>5, Wanted DEF Wants, Evicting
  <2>2. QED
    BY <1>1, <1>3, <2>1, LeakNow
<1>6. ASSUME orderly'
      PROVE  Tidy(pool', act', slot') /\ \A j \in Slots : Covered(pool', slot'[j], j)
  <2>0. Tidy(pool, act, slot) /\ \A j \in Slots : Covered(pool, slot[j], j)
    BY <1>1, <1>6, LeakNow
  <2>1. ASSUME NEW c \in Callers, NEW b \in Actors, act'[c].pc # "idle"
        PROVE  Behind(act', slot', c, b)
    <3>1. Behind(act, slot, c, b) /\ act[c].own \in Slots
      BY <1>1, <2>0, <2>1, Wanted, Constants DEF Tidy, Shape
    <3>2. CASE act[c].own = i
      BY <1>1, <1>3, <3>1, <3>2, Constants DEF Behind
    <3>3. CASE act[c].own # i
      BY <1>1, <1>3, <3>1, <3>3 DEF Behind
    <3>4. QED
      BY <3>2, <3>3
  <2>2. \A c, d \in Callers : act'[c].pc # "idle" /\ act'[d].pc # "idle"
                              /\ act'[c].of = act'[d].of => c = d
    BY <1>1, <2>0 DEF Tidy
  <2>3. \A c \in Callers : act'[c].pc # "idle" => Tracked(pool', act', slot', c)
    BY <1>1, <2>0 DEF Tidy, Tracked
  <2>4. \A j \in Slots : Covered(pool', slot'[j], j)
    BY <1>1, <1>3, <1>4, <2>0 DEF Covered
  <2>5. QED
    BY <2>1, <2>2, <2>3, <2>4 DEF Tidy
<1>7. QED
  BY <1>5, <1>6, LeakThen

\* Steps that leave the pool, the calls and the locks as they are.
Quiet ==
  /\ UNCHANGED <<pool, cli, act, calls>> /\ (orderly' => orderly)
  /\ \A i \in Slots : /\ slot'[i].holder = slot[i].holder /\ slot'[i].queue = slot[i].queue
                      /\ slot'[i].blob = slot[i].blob /\ slot'[i].home = slot[i].home
                      /\ slot'[i].proc = "none" <=> slot[i].proc = "none"

LEMMA QuietSteps ==
  ASSUME BaseInv, \/ \E i \in Slots : Dies(i)
                  \/ Sweep \/ UNCHANGED vars
                  \/ \E s \in Sessions : Reap(s) /\ pool[s] = 0
  PROVE  BaseInv' /\ Quiet
<1>1. CASE (\E i \in Slots : Dies(i)) \/ Sweep \/ UNCHANGED vars
  BY <1>1, BaseIdle DEF Quiet
<1>2. CASE \E s \in Sessions : Reap(s) /\ pool[s] = 0
  <2>1. PICK s \in Sessions : Reap(s) /\ pool[s] = 0
    BY <1>2
  <2>2. Types /\ LocksOK(act, slot) /\ SlotsOK(pool, act, calls)
    BY DEF BaseInv, TypeOK, Types
  <2>3. pool' = pool /\ slot' = slot /\ act' = act /\ cli' = cli /\ calls' = calls
        /\ faults' = faults /\ stale' = stale \ {s}
    BY <2>1, <2>2 DEF Reap, Types
  <2>4. orderly' \in BOOLEAN /\ (orderly' => orderly)
    <3>1. PICK k \in BOOLEAN : k = \A d \in Callers : Shedding(d) => act[d].own # pool[s]
      OBVIOUS
    <3>2. orderly' = (orderly /\ k)
      BY <2>1, <3>1 DEF Reap
    <3>3. QED
      BY <2>2, <3>2, Zenon DEF Types
  <2>5. Types'
    BY <2>2, <2>3, <2>4 DEF Types
  <2>6. QED
    BY <2>2, <2>3, <2>4, <2>5, BaseThen DEF Quiet
<1>3. QED
  BY <1>1, <1>2

LEMMA QuietKeeps ==
  ASSUME BaseInv, BlobInv, LeakInv, Quiet
  PROVE  BlobInv' /\ LeakInv'
<1>1. BlobInv'
  BY BlobKept DEF Quiet
<1>2. ASSUME NEW b \in Actors, act'[b].pc = "unstage" PROVE slot'[act'[b].on].proc = "none"
  <2>1. act[b].on \in Slots /\ act[b].pc = "unstage" /\ act' = act
    BY <1>2, Wanted DEF Wants, Evicting, Quiet
  <2>2. QED
    BY <2>1, LeakNow DEF Quiet
<1>3. ASSUME orderly'
      PROVE  Tidy(pool', act', slot') /\ \A j \in Slots : Covered(pool', slot'[j], j)
  <2>1. Tidy(pool, act, slot) /\ \A j \in Slots : Covered(pool, slot[j], j)
    BY <1>3, LeakNow DEF Quiet
  <2>2. act' = act /\ pool' = pool
    BY DEF Quiet
  <2>3. \A c \in Callers : act[c].pc # "idle" => act[c].own \in Slots
    BY Wanted, Constants DEF Shape
  <2>4. \A c \in Callers, b \in Actors : act'[c].pc # "idle" => Behind(act', slot', c, b)
    BY <2>1, <2>2, <2>3 DEF Tidy, Behind, Quiet
  <2>5. \A c \in Callers : act'[c].pc # "idle" => Tracked(pool', act', slot', c)
    BY <2>1, <2>2 DEF Tidy, Tracked
  <2>6. \A j \in Slots : Covered(pool', slot'[j], j)
    BY <2>1, <2>2 DEF Covered, Quiet
  <2>7. QED
    BY <2>1, <2>2, <2>4, <2>5, <2>6 DEF Tidy
<1>4. QED
  BY <1>1, <1>2, <1>3, LeakThen

LEMMA TakeFields ==
  ASSUME NEW p \in SlotStates, NEW a \in Actors
  PROVE  LET u == Take(p, a) IN
         /\ u.proc = p.proc /\ u.home = p.home /\ u.blob = p.blob
         /\ u.holder # None \/ u.queue # <<>>
         /\ p.holder # None => u.holder = p.holder
         /\ p.queue # <<>> => /\ u.holder = p.holder /\ u.queue # <<>>
                              /\ Head(u.queue) = Head(p.queue)
<1>1. p.queue \in Seq(Actors) /\ p.holder \in Actors \cup {None} /\ a # None
  BY SlotTypes, Constants
<1>2. Append(p.queue, a) # <<>> /\ (p.queue # <<>> => Head(Append(p.queue, a)) = Head(p.queue))
  BY <1>1, LineAppend
<1>3. CASE p.holder = None /\ p.queue = <<>>
  BY <1>1, <1>3 DEF Take, SlotStates
<1>4. CASE ~(p.holder = None /\ p.queue = <<>>)
  <2>1. Take(p, a) = [p EXCEPT !.queue = Append(@, a)]
    BY <1>4 DEF Take
  <2>2. /\ Take(p, a).queue = Append(p.queue, a) /\ Take(p, a).holder = p.holder
        /\ Take(p, a).proc = p.proc /\ Take(p, a).home = p.home /\ Take(p, a).blob = p.blob
    BY <2>1 DEF SlotStates
  <2>3. QED
    BY <1>2, <2>2
<1>5. QED
  BY <1>3, <1>4

LEMMA LeakMoves ==
  ASSUME BaseInv, LeakInv, NEW c \in Callers, NEW r \in ActStates, NEW p \in SlotStates,
         NEW i \in Slots, NEW j \in Slots, Moves(c, r, p, i, j)
  PROVE  LeakInv'
<1>0. c \in Actors /\ c # None
  BY Constants
<1>1. act'[c] = r /\ r.own = j /\ r.of = act[c].of /\ r.pc = "wait" /\ r.on = 0
      /\ \A b \in Actors : b # c => act'[b] = act[b]
  BY <1>0 DEF Moves, BaseInv, TypeOK
<1>2. slot'[i] = p /\ slot'[j] = Take(slot[j], c) /\ i # j
      /\ \A k \in Slots : k # i /\ k # j => slot'[k] = slot[k]
  BY DEF Moves, BaseInv, TypeOK
<1>3. slot[i].holder = c /\ act[c].pc = "unstage" /\ act[c].own = j /\ act[c].on = i
      /\ p.proc = slot[i].proc /\ ~p.home /\ pool' = pool /\ orderly' = orderly
  BY DEF Moves, Sheds
<1>4. Wants(act[c]) = i
  BY <1>3 DEF Wants, Evicting
<1>5. slot'[j].proc = slot[j].proc /\ (slot'[j].holder # None \/ slot'[j].queue # <<>>)
  BY <1>0, <1>2, Wanted, TakeFields
<1>6. ASSUME NEW b \in Actors, act'[b].pc = "unstage" PROVE slot'[act'[b].on].proc = "none"
  <2>1. b # c
    BY <1>1, <1>6
  <2>2. act[b].pc = "unstage" /\ Wants(act[b]) = act[b].on /\ slot[act[b].on].holder = b
        /\ act[b].on \in Slots /\ act'[b] = act[b]
    BY <1>1, <1>6, <2>1, Wanted DEF Wants, Evicting
  <2>3. act[b].on # i
    BY <1>3, <2>1, <2>2
  <2>4. slot'[act[b].on].proc = slot[act[b].on].proc
    BY <1>2, <1>5, <2>2, <2>3
  <2>5. QED
    BY <2>2, <2>4, LeakNow
<1>7. ASSUME orderly'
      PROVE  Tidy(pool', act', slot') /\ \A k \in Slots : Covered(pool', slot'[k], k)
  <2>0. Tidy(pool, act, slot) /\ \A k \in Slots : Covered(pool, slot[k], k)
    BY <1>3, <1>7, LeakNow
  <2>1. \A d \in Callers :
          /\ d \in Actors /\ (act'[d].pc # "idle" <=> act[d].pc # "idle")
          /\ act'[d].own = act[d].own /\ act'[d].of = act[d].of
          /\ act[d].pc # "idle" => act[d].own \in Slots /\ act[d].own # 0
    BY <1>1, <1>3, Wanted, Constants DEF Shape
  <2>2. \A k : \A b \in Actors : Sheds(act'[b], k) => b # c /\ act'[b] = act[b]
    BY <1>1 DEF Sheds
  <2>3. \A d, e \in Callers : act'[d].pc # "idle" /\ act'[e].pc # "idle"
                              /\ act'[d].of = act'[e].of => d = e
    BY <2>0, <2>1 DEF Tidy
  \* No call's own slot is the one that c had shed.
  <2>4. ASSUME NEW d \in Callers, act[d].pc # "idle" PROVE act[d].own # i
    <3>1. SUFFICES ASSUME act[d].own = i PROVE FALSE
      OBVIOUS
    <3>2. Behind(act, slot, d, c)
      BY <1>0, <2>0, <2>4 DEF Tidy
    <3>3. Sheds(act[c], act[d].own)
      BY <3>1 DEF Moves
    <3>4. d = c
      BY <1>0, <1>3, <3>1, <3>2, <3>3 DEF Behind
    <3>5. QED
      BY <1>2, <1>3, <3>1, <3>4
  <2>5. ASSUME NEW d \in Callers, act'[d].pc # "idle" PROVE Tracked(pool', act', slot', d)
    <3>1. Tracked(pool, act, slot, d) /\ act[d].own # i
      BY <2>0, <2>1, <2>4, <2>5 DEF Tidy
    <3>2. CASE pool[act[d].of] = act[d].own
      BY <1>3, <2>1, <2>5, <3>2 DEF Tracked
    <3>3. CASE pool[act[d].of] # act[d].own
      <4>1. PICK b \in Actors : Sheds(act[b], act[d].own)
        BY <3>1, <3>3 DEF Tracked
      <4>2. b # c
        BY <1>3, <3>1, <4>1 DEF Sheds
      <4>3. Sheds(act'[b], act'[d].own)
        BY <1>1, <2>1, <4>1, <4>2
      <4>4. QED
        BY <1>3, <2>1, <3>1, <3>3, <4>3 DEF Tracked
    <3>4. QED
      BY <3>2, <3>3
  <2>6. ASSUME NEW d \in Callers, NEW b \in Actors, act'[d].pc # "idle"
        PROVE  Behind(act', slot', d, b)
    <3>1. SUFFICES ASSUME Sheds(act'[b], act'[d].own) PROVE Behind(act', slot', d, b)
      BY DEF Behind
    <3>2. Sheds(act[b], act[d].own) /\ b # c
      BY <2>1, <2>2, <3>1
    <3>3. Behind(act, slot, d, b) /\ act[d].own # i /\ act[d].own \in Slots
      BY <2>0, <2>1, <2>4, <2>6 DEF Tidy
    <3>4. CASE act[d].own # j
      BY <1>2, <2>1, <2>6, <3>2, <3>3, <3>4 DEF Behind
    <3>5. CASE act[d].own = j
      <4>1. act[d].of = act[c].of
        BY <1>3, <2>1, <2>6, <3>5 DEF BaseInv, SlotsOK
      <4>2. d = c
        BY <1>3, <2>0, <2>1, <2>6, <4>1 DEF Tidy
      <4>3. slot[j].holder # c
        BY <1>0, <1>2, <1>4, Wanted
      <4>4. slot[j].queue # <<>> /\ Head(slot[j].queue) = c
        BY <3>2, <3>3, <3>5, <4>2, <4>3 DEF Behind
      <4>5. slot[j].queue \in Seq(Actors)
        BY Wanted, SlotTypes
      <4>6. SlotLock(act, slot[j], j)
        BY DEF BaseInv, LocksOK
      <4>7. InLine(c, slot[j].queue)
        BY <4>4, <4>5, <4>6, LineTail DEF SlotLock
      <4>8. QED
        BY <1>0, <1>2, <1>4, <4>6, <4>7 DEF SlotLock, Queued
    <3>6. QED
      BY <3>4, <3>5
  <2>7. ASSUME NEW k \in Slots PROVE Covered(pool', slot'[k], k)
    <3>1. CASE k = i
      <4>1. slot[i].proc = "none"
        BY <1>0, <1>3, LeakNow
      <4>2. QED
        BY <1>2, <1>3, <3>1, <4>1 DEF Covered
    <3>2. CASE k = j
      BY <1>5, <3>2 DEF Covered
    <3>3. CASE k # i /\ k # j
      BY <1>2, <1>3, <2>0, <3>3
    <3>4. QED
      BY <3>1, <3>2, <3>3
  <2>8. QED
    BY <2>3, <2>5, <2>6, <2>7 DEF Tidy
<1>8. QED
  BY <1>6, <1>7, LeakThen

\* What a start makes of the calls and of the slots.
LEMMA StartSteps ==
  ASSUME BaseInv, NEW a \in Actors, NEW r \in ActStates, NEW i \in Slots,
         NEW T \in [Slots -> SlotStates], Starts(a, r, i, T)
  PROVE  /\ act'[a] = r /\ \A b \in Actors : b # a => act'[b] = act[b]
         /\ slot'[i] = Take(T[i], a) /\ \A k \in Slots : k # i => slot'[k] = T[k]
         /\ \A k \in Slots : /\ T[k] = slot[k] \/ T[k] = NewSlot
                             /\ k <= calls => T[k] = slot[k]
         /\ r.on # 0 => r.on = i
         /\ r.on # 0 => r.on # r.own
         /\ act[a].own = 0 /\ act[a].on = 0
<1>1. act'[a] = r /\ \A b \in Actors : b # a => act'[b] = act[b]
  BY DEF Starts, BaseInv, TypeOK
<1>2. slot'[i] = Take(T[i], a) /\ \A k \in Slots : k # i => slot'[k] = T[k]
  BY DEF Starts
<1>3. \A k \in Slots : /\ T[k] = slot[k] \/ T[k] = NewSlot
                       /\ k <= calls => T[k] = slot[k]
  <2>1. CASE T = slot
    BY <2>1
  <2>2. CASE Fresh(T)
    BY <2>2, Constants DEF Fresh, BaseInv, TypeOK
  <2>3. QED
    BY <2>1, <2>2 DEF Starts
<1>4. Shape(a, r, calls') /\ Wants(r) = i /\ r.pc \in Waiting /\ act[a].pc = "idle"
  BY DEF Starts
<1>5. r.on # 0 => r.on = i /\ r.on # r.own
  BY <1>4 DEF Shape, Wants, Waiting, Evicting
<1>6. act[a].own = 0 /\ act[a].on = 0
  BY <1>4, Wanted DEF Shape
<1>7. QED
  BY <1>1, <1>2, <1>3, <1>5, <1>6

LEMMA LeakStarts ==
  ASSUME BaseInv, LeakInv, NEW a \in Actors, NEW r \in ActStates, NEW i \in Slots,
         NEW T \in [Slots -> SlotStates], Starts(a, r, i, T)
  PROVE  LeakInv'
<1>1. /\ act'[a] = r /\ \A b \in Actors : b # a => act'[b] = act[b]
      /\ slot'[i] = Take(T[i], a) /\ \A k \in Slots : k # i => slot'[k] = T[k]
      /\ \A k \in Slots : T[k] = slot[k] \/ T[k] = NewSlot
      /\ \A k \in Slots : k <= calls => T[k] = slot[k]
      /\ r.on # 0 => r.on = i /\ r.on # r.own
  BY StartSteps
<1>2. act[a].pc = "idle" /\ act[a].own = 0 /\ act[a].on = 0 /\ r.pc \in Waiting
  BY StartSteps, ZenonT(60) DEF Starts
<1>3. Shape(a, r, calls')
  BY DEF Starts
<1>4. \A s \in Sessions :
       \/ pool'[s] = pool[s]
       \/ pool'[s] = 0 /\ pool[s] = r.on /\ r.on # 0
       \/ pool'[s] = calls + 1 /\ pool[s] = 0 /\ s = r.of /\ r.own = calls + 1
  BY DEF Starts
<1>5. calls \in Nat
  BY Constants DEF BaseInv, TypeOK
<1>6. \A k \in Slots : slot[k] \in SlotStates /\ T[k] \in SlotStates
  BY Wanted
<1>7. \A b \in Actors : b # a =>
        /\ act[b].own \in Nat /\ act[b].own <= calls /\ act[b].on \in Nat /\ act[b].on <= calls
  BY <1>5, Wanted
<1>8. \A c \in Callers : act[c].pc # "idle" =>
        /\ c \in Actors /\ c # a /\ act'[c] = act[c]
        /\ act[c].own \in Slots /\ act[c].own # 0 /\ act[c].own <= calls
  BY <1>1, <1>2, <1>5, Wanted, Constants DEF Shape
<1>9. \A k \in Slots : k <= calls =>
        /\ slot'[k].proc = slot[k].proc
        /\ slot[k].holder # None => slot'[k].holder = slot[k].holder
        /\ slot[k].queue # <<>> => /\ slot'[k].holder = slot[k].holder /\ slot'[k].queue # <<>>
                                   /\ Head(slot'[k].queue) = Head(slot[k].queue)
  <2> TAKE k \in Slots
  <2> HAVE k <= calls
  <2>1. T[k] = slot[k]
    BY <1>1
  <2>2. CASE k = i
    BY <1>1, <1>6, <2>1, <2>2, TakeFields
  <2>3. CASE k # i
    BY <1>1, <2>1, <2>3
  <2>4. QED
    BY <2>2, <2>3
<1>10. ASSUME NEW b \in Actors, act'[b].pc = "unstage" PROVE slot'[act'[b].on].proc = "none"
  <2>1. b # a
    BY <1>1, <1>2, <1>10 DEF Waiting
  <2>2. act[b].pc = "unstage" /\ act'[b] = act[b] /\ act[b].on \in Slots /\ act[b].on <= calls
    BY <1>1, <1>7, <1>10, <2>1, Wanted DEF Wants, Evicting
  <2>3. QED
    BY <1>9, <2>2, LeakNow
<1>11. ASSUME orderly'
       PROVE  Tidy(pool', act', slot') /\ \A k \in Slots : Covered(pool', slot'[k], k)
  <2>0. Tidy(pool, act, slot) /\ \A k \in Slots : Covered(pool, slot[k], k)
    BY <1>11, LeakNow DEF Starts
  <2>1. \A c \in Callers : act'[c].pc # "idle" /\ c # a => act[c].pc # "idle" /\ act'[c] = act[c]
    BY <1>1, Constants
  <2>2. a \in Callers =>
          /\ \A d \in Callers : d # a /\ act[d].pc # "idle" => act[d].of # r.of
          /\ r.own # 0
    <3>1. a \in Callers => a # Reaper /\ r.pc # "idle"
      BY <1>2, Constants DEF Waiting
    <3>2. QED
      BY <1>3, <1>11, <3>1 DEF Starts, Shape
  <2>3. \A d \in Callers : d # a /\ act[d].pc # "idle" /\ act[d].own = r.on /\ r.on # 0
                           => ~Sheds(act[d], act[d].on)
    <3>1. CASE a = Reaper
      BY <1>11, <3>1 DEF Starts
    <3>2. CASE a # Reaper
      BY <1>11, <3>2 DEF Starts
    <3>3. QED
      BY <3>1, <3>2
  <2>4. \A c, d \in Callers : act'[c].pc # "idle" /\ act'[d].pc # "idle"
                              /\ act'[c].of = act'[d].of => c = d
    <3> SUFFICES ASSUME NEW c \in Callers, NEW d \in Callers, act'[c].pc # "idle",
                        act'[d].pc # "idle", act'[c].of = act'[d].of, c # d
                 PROVE  FALSE
      OBVIOUS
    <3>1. CASE c = a
      BY <1>1, <2>1, <2>2, <3>1
    <3>2. CASE d = a
      BY <1>1, <2>1, <2>2, <3>2
    <3>3. CASE c # a /\ d # a
      BY <2>0, <2>1, <3>3 DEF Tidy
    <3>4. QED
      BY <3>1, <3>2, <3>3
  <2>5. ASSUME NEW c \in Callers, act'[c].pc # "idle" PROVE Tracked(pool', act', slot', c)
    <3>1. CASE c = a
      <4>1. r.own # 0
        BY <2>2, <2>5, <3>1
      <4>2. pool'[r.of] = r.own
        BY <4>1 DEF Starts
      <4>3. QED
        BY <1>1, <3>1, <4>2 DEF Tracked
    <3>2. CASE c # a
      <4>1. Tracked(pool, act, slot, c) /\ act[c].pc # "idle" /\ act'[c] = act[c]
            /\ act[c].own # 0
        BY <1>8, <2>0, <2>1, <2>5, <3>2 DEF Tidy
      <4>2. act[c].of \in Sessions
        <5>1. act[c].of # None /\ act[c].of \in Sessions \cup {None}
          BY <4>1, Wanted, Constants DEF Shape, ActStates
        <5>2. QED
          BY <5>1
      <4>3. CASE pool[act[c].of] = act[c].own /\ pool'[act[c].of] = pool[act[c].of]
        BY <4>1, <4>3 DEF Tracked
      <4>4. CASE pool[act[c].of] = act[c].own /\ pool'[act[c].of] # pool[act[c].of]
        <5>1. pool'[act[c].of] = 0 /\ act[c].own = r.on /\ r.on # 0
          BY <1>4, <4>1, <4>2, <4>4
        <5>2. Sheds(act'[a], act'[c].own)
          BY <1>1, <4>1, <5>1 DEF Sheds
        <5>3. QED
          BY <4>1, <5>1, <5>2 DEF Tracked
      <4>5. CASE pool[act[c].of] # act[c].own
        <5>1. pool[act[c].of] = 0
          BY <4>1, <4>5 DEF Tracked
        <5>2. PICK b \in Actors : Sheds(act[b], act[c].own)
          BY <4>1, <4>5 DEF Tracked
        <5>3. b # a
          BY <1>2, <5>2 DEF Sheds
        <5>4. pool'[act[c].of] = 0
          <6>1. SUFFICES ASSUME act[c].of = r.of, r.own = calls + 1 PROVE FALSE
            BY <1>4, <4>2, <5>1
          <6>2. a \in Callers
            BY <1>3, <1>5, <6>1, Constants DEF Shape
          <6>3. QED
            BY <2>2, <3>2, <4>1, <6>1, <6>2
        <5>5. QED
          BY <1>1, <4>1, <5>2, <5>3, <5>4 DEF Tracked
      <4>6. QED
        BY <4>3, <4>4, <4>5
    <3>3. QED
      BY <3>1, <3>2
  <2>6. ASSUME NEW d \in Callers, NEW b \in Actors, act'[d].pc # "idle",
               Sheds(act'[b], act'[d].own)
        PROVE  LET p == slot'[act'[d].own] IN
               p.holder = d \/ (p.holder = None /\ p.queue # <<>> /\ Head(p.queue) = d)
    <3>1. CASE d = a
      \* Nobody sheds the slot that a call starts with.
      <4>1. b # a
        BY <1>1, <2>6, <3>1 DEF Sheds
      <4>2. Sheds(act[b], r.own) /\ act[b].on = r.own
        BY <1>1, <2>6, <3>1, <4>1 DEF Sheds
      <4>3. r.own # 0 /\ r.own <= calls
        BY <1>7, <4>1, <4>2 DEF Sheds
      <4>4. r.of \in Sessions /\ r.own = pool[r.of]
        BY <1>5, <1>7, <4>1, <4>2, <4>3 DEF Starts
      <4>5. QED
        BY <4>2, <4>4 DEF BaseInv, SlotsOK
    <3>2. CASE d # a
      <4>1. act[d].pc # "idle" /\ act'[d] = act[d] /\ act[d].own \in Slots /\ act[d].own <= calls
            /\ act[d].own # 0
        BY <1>8, <2>1, <2>6, <3>2
      <4>2. CASE b # a
        <5>1. Behind(act, slot, d, b) /\ Sheds(act[b], act[d].own)
          BY <1>1, <2>0, <2>6, <4>1, <4>2 DEF Tidy
        <5>2. QED
          BY <1>9, <4>1, <5>1, Constants DEF Behind
      <4>3. CASE b = a
        <5>1. r.on = act[d].own /\ r.on # 0
          BY <1>1, <2>6, <4>1, <4>3 DEF Sheds
        <5>2. PICK t \in Sessions : pool[t] = act[d].own
          BY <5>1 DEF Starts
        <5>3. Wants(act[d]) = act[d].own
          BY <2>3, <3>2, <4>1, <5>1, OwnWants
        <5>4. \A x \in Actors : act[x].pc # "idle" /\ Wants(act[x]) = act[d].own => x = d
          BY <2>0, <4>1, <5>2, OnlyOne
        <5>5. PICK q \in SlotStates : q = slot[act[d].own]
          BY <1>6, <4>1
        <5>6. SlotLock(act, q, act[d].own) /\ d \in Actors
          BY <4>1, <5>5, Constants DEF BaseInv, LocksOK
        <5>7. q.holder = d \/ InLine(d, q.queue)
          BY <4>1, <5>3, <5>5, <5>6 DEF BaseInv, LocksOK, ActorLock
        <5>8. q.holder \in {d, None}
          BY <5>4, <5>5, <5>6, SlotTypes DEF SlotLock, Has
        <5>9. CASE q.holder = d
          BY <1>9, <4>1, <5>5, <5>6, <5>9, Constants
        <5>10. CASE q.holder = None /\ InLine(d, q.queue)
          <6>1. q.queue \in Seq(Actors) /\ q.queue # <<>> /\ NoneTwice(q.queue)
            <7>1. q.queue \in Seq(Actors)
              BY <5>6, SlotTypes
            <7>2. q.queue # <<>>
              BY <5>10 DEF InLine
            <7>3. QED
              BY <5>6, <7>1, <7>2 DEF SlotLock
          <6>2. Head(q.queue) \in Actors /\ InLine(Head(q.queue), q.queue)
            BY <6>1, LineTail
          <6>3. Queued(act, Head(q.queue), act[d].own)
            BY <5>6, <6>2 DEF SlotLock
          <6>4. Head(q.queue) = d
            BY <5>4, <6>2, <6>3 DEF Queued, Waiting
          <6>5. QED
            BY <1>9, <4>1, <5>5, <5>10, <6>1, <6>4
        <5>11. QED
          BY <5>6, <5>7, <5>8, <5>9, <5>10, Constants
      <4>4. QED
        BY <4>2, <4>3
    <3>3. QED
      BY <3>1, <3>2
  <2>7. ASSUME NEW k \in Slots PROVE Covered(pool', slot'[k], k)
    <3>1. CASE k = i
      <4>1. slot'[i].holder # None \/ slot'[i].queue # <<>>
        BY <1>1, <1>6, TakeFields
      <4>2. QED
        BY <3>1, <4>1 DEF Covered
    <3>2. CASE k # i /\ T[k] = NewSlot
      <4>1. slot'[k].proc = "none" /\ slot'[k].home = FALSE
        BY <1>1, <3>2 DEF NewSlot
      <4>2. QED
        BY <4>1 DEF Covered
    <3>3. CASE k # i /\ T[k] = slot[k]
      <4>1. slot'[k] = slot[k] /\ Covered(pool, slot[k], k)
        BY <1>1, <2>0, <3>3
      <4>2. ASSUME NEW s \in Sessions, pool[s] = k PROVE pool'[s] = k
        BY <1>1, <1>4, <3>3, <4>2, Constants
      <4>3. QED
        BY <4>1, <4>2 DEF Covered
    <3>4. QED
      BY <1>1, <3>1, <3>2, <3>3
  <2>8. \A d \in Callers, b \in Actors : act'[d].pc # "idle" => Behind(act', slot', d, b)
    BY <2>6 DEF Behind
  <2>9. QED
    BY <2>4, <2>5, <2>7, <2>8 DEF Tidy
<1>12. QED
  BY <1>10, <1>11, LeakThen

-----------------------------------------------------------------------------
(* TurnKeepsProcess: who streams has the lock, and keeps it by doing so.   *)

SameProc(k) == (slot[k].proc = "live" => slot'[k].proc # "none") /\ (slot[k].home => slot'[k].home)

KeepsProc == \A d \in Callers : At(d, "stream") /\ act'[d] = act[d] => SameProc(act[d].own)

LEMMA StreamHolds ==
  ASSUME BaseInv, NEW d \in Callers, At(d, "stream")
  PROVE  /\ act[d].own \in Slots /\ slot[act[d].own].holder = d /\ act[d].own <= calls
         /\ d \in Actors /\ d # None /\ act[d].pc = "stream"
<1>1. d \in Actors /\ d # None /\ act[d].pc = "stream"
  BY Constants DEF At
<1>2. Wants(act[d]) = act[d].own
  BY <1>1 DEF Wants, Evicting
<1>3. QED
  BY <1>1, <1>2, Wanted

\* A turn that goes on as it was changes nothing of its slot but the token.
LEMMA TurnKeeps ==
  ASSUME BaseInv, NEW c \in Callers, Turn(c), At(c, "stream"), act'[c] = act[c]
  PROVE  SameProc(act[c].own)
<1>1. act[c].own \in Slots /\ c \in Actors /\ slot[act[c].own] \in SlotStates
      /\ act \in [Actors -> ActStates] /\ slot \in [Slots -> SlotStates] /\ act[c] \in ActStates
  BY StreamHolds, Wanted DEF BaseInv, TypeOK
<1>2. ~Begin(c) /\ ~Spawn(c)
  BY DEF Begin, Spawn, At
<1>3. CASE Hear(c) \/ ErrorEvent(c) \/ NoEvents(c) \/ Abort(c)
  BY <1>3 DEF Hear, ErrorEvent, NoEvents, Abort, SameProc
<1>4. CASE Rotate(c)
  <2>1. slot'[act[c].own] = [slot[act[c].own] EXCEPT !.blob = "unsaved"]
    BY <1>1, <1>4 DEF Rotate
  <2>2. slot'[act[c].own].proc = slot[act[c].own].proc
        /\ slot'[act[c].own].home = slot[act[c].own].home
    BY <1>1, <2>1 DEF SlotStates
  <2>3. QED
    BY <2>2 DEF SameProc
<1>5. ~Fallback(c)
  <2>1. SUFFICES ASSUME Fallback(c) PROVE FALSE
    OBVIOUS
  <2>2. act' = [act EXCEPT ![c] = ToSpawn(act[c])]
    BY <2>1 DEF Fallback, ToSpawn
  <2>3. act'[c].pc = "spawn"
    BY <1>1, <2>2, ActFields
  <2>4. QED
    BY <2>3 DEF At
<1>6. QED
  BY <1>2, <1>3, <1>4, <1>5 DEF Turn

LEMMA ProcGoesOn ==
  ASSUME BaseInv, NEW a \in Actors, NEW r \in ActStates, NEW p \in SlotStates, NEW i \in Slots,
         GoesOn(a, r, p, i),
         At(a, "stream") /\ act'[a] = act[a] => SameProc(act[a].own)
  PROVE  KeepsProc
<1> SUFFICES ASSUME NEW d \in Callers, At(d, "stream"), act'[d] = act[d]
             PROVE  SameProc(act[d].own)
  BY DEF KeepsProc
<1>1. CASE d = a
  BY <1>1
<1>2. CASE d # a
  <2>1. act[d].own \in Slots /\ act[d].own # i
    BY <1>2, StreamHolds DEF GoesOn
  <2>2. slot'[act[d].own] = slot[act[d].own]
    BY <2>1 DEF GoesOn, BaseInv, TypeOK
  <2>3. QED
    BY <2>2 DEF SameProc
<1>3. QED
  BY <1>1, <1>2

LEMMA ProcRests ==
  ASSUME BaseInv, NEW a \in Actors, NEW r \in ActStates, NEW p \in SlotStates, NEW i \in Slots,
         Rests(a, r, p, i)
  PROVE  KeepsProc
<1> SUFFICES ASSUME NEW d \in Callers, At(d, "stream"), act'[d] = act[d]
             PROVE  SameProc(act[d].own)
  BY DEF KeepsProc
<1>1. act'[a].pc = "idle"
  BY DEF Rests, BaseInv, TypeOK
<1>2. act[d].own \in Slots /\ act[d].own # i
  BY <1>1, StreamHolds DEF Rests, At
<1>3. slot'[act[d].own] = slot[act[d].own]
  BY <1>2 DEF Rests, BaseInv, TypeOK
<1>4. QED
  BY <1>3 DEF SameProc

LEMMA ProcMoves ==
  ASSUME BaseInv, NEW c \in Callers, NEW r \in ActStates, NEW p \in SlotStates,
         NEW i \in Slots, NEW j \in Slots, Moves(c, r, p, i, j)
  PROVE  KeepsProc
<1> SUFFICES ASSUME NEW d \in Callers, At(d, "stream"), act'[d] = act[d]
             PROVE  SameProc(act[d].own)
  BY DEF KeepsProc
<1>1. act[c].pc = "unstage" /\ c \in Actors
  BY Constants DEF Moves
<1>2. act[d].own \in Slots /\ act[d].own # i
  BY <1>1, StreamHolds DEF Moves
<1>3. slot'[j] = Take(slot[j], c) /\ \A k \in Slots : k # i /\ k # j => slot'[k] = slot[k]
  BY DEF Moves, BaseInv, TypeOK
<1>4. slot[act[d].own].proc = slot'[act[d].own].proc /\ slot[act[d].own].home = slot'[act[d].own].home
  BY <1>1, <1>2, <1>3, Wanted, TakeFields
<1>5. QED
  BY <1>4 DEF SameProc

LEMMA ProcStarts ==
  ASSUME BaseInv, NEW a \in Actors, NEW r \in ActStates, NEW i \in Slots,
         NEW T \in [Slots -> SlotStates], Starts(a, r, i, T)
  PROVE  KeepsProc
<1> SUFFICES ASSUME NEW d \in Callers, At(d, "stream"), act'[d] = act[d]
             PROVE  SameProc(act[d].own)
  BY DEF KeepsProc
<1>1. act[d].own \in Slots /\ act[d].own <= calls
  BY StreamHolds
<1>2. /\ slot'[i] = Take(T[i], a) /\ \A k \in Slots : k # i => slot'[k] = T[k]
      /\ T[act[d].own] = slot[act[d].own]
  BY <1>1, StartSteps
<1>3. slot[act[d].own].proc = slot'[act[d].own].proc /\ slot[act[d].own].home = slot'[act[d].own].home
  BY <1>1, <1>2, TakeFields
<1>4. QED
  BY <1>3 DEF SameProc

LEMMA ProcSame ==
  ASSUME BaseInv, \/ \E a \in Actors, r \in ActStates, i \in Slots : Leaves(a, r, i)
                  \/ \E i \in Slots : Wake(i)
                  \/ Quiet
  PROVE  KeepsProc
<1>1. slot \in [Slots -> SlotStates]
  BY DEF BaseInv, TypeOK
<1>2. \A k \in Slots : SameProc(k)
  <2>1. CASE \E a \in Actors, r \in ActStates, i \in Slots : Leaves(a, r, i)
    <3>1. PICK a \in Actors, i \in Slots : slot' = [slot EXCEPT ![i] = Left(@, a)]
      BY <2>1 DEF Leaves
    <3>2. \A k \in Slots : slot'[k].proc = slot[k].proc /\ slot'[k].home = slot[k].home
      BY <1>1, <3>1 DEF Left, SlotStates
    <3>3. QED
      BY <3>2 DEF SameProc
  <2>2. CASE \E i \in Slots : Wake(i)
    <3>1. PICK i \in Slots :
            slot' = [slot EXCEPT ![i].holder = Head(slot[i].queue), ![i].queue = Tail(@)]
      BY <2>2 DEF Wake
    <3>2. \A k \in Slots : slot'[k].proc = slot[k].proc /\ slot'[k].home = slot[k].home
      BY <1>1, <3>1 DEF SlotStates
    <3>3. QED
      BY <3>2 DEF SameProc
  <2>3. CASE Quiet
    BY <2>3 DEF Quiet, SameProc
  <2>4. QED
    BY <2>1, <2>2, <2>3
<1>3. QED
  BY <1>2, StreamHolds DEF KeepsProc

-----------------------------------------------------------------------------
(* Every step, and the theorems.                                           *)

\* The steps, by who takes them.
LEMMA StepKinds ==
  ASSUME Next
  PROVE  \/ \E c \in Callers : \/ Turn(c) \/ Done(c) \/ CutShort(c) \/ GiveUp(c)
                               \/ ShedCancelled(c) \/ \E s \in Sessions : Call(c, s)
         \/ \E a \in Actors : Kill(a) \/ Unstage(a)
         \/ \E i \in Slots : Wake(i) \/ Dies(i)
         \/ Sweep
         \/ \E s \in Sessions : Reap(s)
BY DEF Next, Work, Ends, Evict, Turn

LEMMA StepSafe ==
  ASSUME BaseInv, BlobInv, LeakInv, [Next]_vars
  PROVE  BaseInv' /\ BlobInv' /\ LeakInv' /\ KeepsProc
<1>0. \A c \in Callers : c \in Actors
  BY Constants
<1>1. ASSUME NEW c \in Callers, Turn(c) PROVE BaseInv' /\ BlobInv' /\ LeakInv' /\ KeepsProc
  <2>1. PICK r \in ActStates, p \in SlotStates, i \in Slots : GoesOn(c, r, p, i)
    BY <1>1, TurnGoesOn
  <2>2. At(c, "stream") /\ act'[c] = act[c] => SameProc(act[c].own)
    BY <1>1, TurnKeeps
  <2>3. QED
    BY <1>0, <2>1, <2>2, BaseGoesOn, BlobGoesOn, LeakGoesOn, ProcGoesOn
<1>2. ASSUME NEW a \in Actors, Kill(a) PROVE BaseInv' /\ BlobInv' /\ LeakInv' /\ KeepsProc
  <2>1. PICK r \in ActStates, p \in SlotStates, i \in Slots : GoesOn(a, r, p, i)
    BY <1>2, KillGoesOn
  <2>2. ~At(a, "stream")
    BY <1>2 DEF Kill, MayEvict, At
  <2>3. QED
    BY <2>1, <2>2, BaseGoesOn, BlobGoesOn, LeakGoesOn, ProcGoesOn
<1>3. ASSUME NEW a \in Actors,
             \E r \in ActStates, p \in SlotStates, i \in Slots : Rests(a, r, p, i)
      PROVE  BaseInv' /\ BlobInv' /\ LeakInv' /\ KeepsProc
  <2>1. PICK r \in ActStates, p \in SlotStates, i \in Slots : Rests(a, r, p, i)
    BY <1>3
  <2>2. QED
    BY <2>1, BaseRests, BlobRests, LeakRests, ProcRests
<1>4. ASSUME NEW c \in Callers, Done(c) \/ CutShort(c)
      PROVE  BaseInv' /\ BlobInv' /\ LeakInv' /\ KeepsProc
  BY <1>0, <1>3, <1>4, CompleteRests
<1>5. ASSUME NEW a \in Actors, Unstage(a) PROVE BaseInv' /\ BlobInv' /\ LeakInv' /\ KeepsProc
  <2>1. CASE a = Reaper \/ act[a].on = act[a].own
    BY <1>3, <1>5, <2>1, UnstageRests
  <2>2. CASE a # Reaper /\ act[a].on # act[a].own
    <3>1. a \in Callers
      BY <2>2, Constants
    <3>2. PICK r \in ActStates, p \in SlotStates, i \in Slots, j \in Slots : Moves(a, r, p, i, j)
      BY <1>5, <2>2, <3>1, UnstageMoves
    <3>3. QED
      BY <3>1, <3>2, BaseMoves, BlobMoves, LeakMoves, ProcMoves
  <2>3. QED
    BY <2>1, <2>2
<1>6. ASSUME NEW c \in Callers, GiveUp(c) \/ (ShedCancelled(c) /\ At(c, "shed"))
      PROVE  BaseInv' /\ BlobInv' /\ LeakInv' /\ KeepsProc
  <2>1. PICK r \in ActStates, i \in Slots : Leaves(c, r, i)
    BY <1>6, WaitLeaves
  <2>2. KeepsProc
    BY <1>0, <2>1, ProcSame
  <2>3. QED
    BY <1>0, <2>1, <2>2, BaseLeaves, BlobLeaves, LeakLeaves
<1>7. ASSUME NEW c \in Callers, ShedCancelled(c)
      PROVE  BaseInv' /\ BlobInv' /\ LeakInv' /\ KeepsProc
  <2>1. At(c, "shed") \/ At(c, "unstage")
    BY <1>7 DEF ShedCancelled
  <2>2. CASE At(c, "shed")
    BY <1>6, <1>7, <2>2
  <2>3. CASE At(c, "unstage")
    BY <1>0, <1>3, <1>7, <2>3, CancelRests
  <2>4. QED
    BY <2>1, <2>2, <2>3
<1>8. ASSUME NEW a \in Actors,
             \E r \in ActStates, i \in Slots, T \in [Slots -> SlotStates] : Starts(a, r, i, T)
      PROVE  BaseInv' /\ BlobInv' /\ LeakInv' /\ KeepsProc
  <2>1. PICK r \in ActStates, i \in Slots, T \in [Slots -> SlotStates] : Starts(a, r, i, T)
    BY <1>8
  <2>2. QED
    BY <2>1, BaseStarts, BlobStarts, LeakStarts, ProcStarts
<1>9. ASSUME NEW i \in Slots, Wake(i) PROVE BaseInv' /\ BlobInv' /\ LeakInv' /\ KeepsProc
  BY <1>9, BaseWake, BlobWake, LeakWake, ProcSame
<1>10. ASSUME \/ \E i \in Slots : Dies(i)
              \/ Sweep \/ UNCHANGED vars
              \/ \E s \in Sessions : Reap(s) /\ pool[s] = 0
       PROVE  BaseInv' /\ BlobInv' /\ LeakInv' /\ KeepsProc
  <2>1. BaseInv' /\ Quiet
    BY <1>10, QuietSteps
  <2>2. QED
    BY <2>1, QuietKeeps, ProcSame
<1>11. ASSUME NEW s \in Sessions, Reap(s) PROVE BaseInv' /\ BlobInv' /\ LeakInv' /\ KeepsProc
  <2>1. CASE pool[s] = 0
    BY <1>10, <1>11, <2>1
  <2>2. CASE pool[s] # 0
    <3>1. Reaper \in Actors
      BY Constants
    <3>2. QED
      BY <1>8, <1>11, <2>2, <3>1, ReapStarts
  <2>3. QED
    BY <2>1, <2>2
<1>12. ASSUME NEW c \in Callers, NEW s \in Sessions, Call(c, s)
       PROVE  BaseInv' /\ BlobInv' /\ LeakInv' /\ KeepsProc
  BY <1>0, <1>8, <1>12, CallStarts
<1>13. CASE UNCHANGED vars
  BY <1>10, <1>13
<1>14. CASE Next
  BY <1>1, <1>2, <1>4, <1>5, <1>6, <1>7, <1>9, <1>10, <1>11, <1>12, <1>14, StepKinds
<1>15. QED
  BY <1>13, <1>14

LEMMA SafeInit == Init => BaseInv /\ BlobInv /\ LeakInv
<1> SUFFICES ASSUME Init PROVE BaseInv /\ BlobInv /\ LeakInv
  OBVIOUS
<1>1. /\ \A i \in Slots : slot[i].blob = "stored" /\ slot[i].proc = "none" /\ ~slot[i].home
      /\ \A a \in Actors : act[a].pc = "idle" /\ act[a].on = 0
  BY DEF Init, NewSlot, Resting
<1>2. BlobInv
  BY <1>1 DEF BlobInv, BlobOK
<1>3. Dead /\ NothingLeaks
  BY <1>1 DEF Dead, At, NothingLeaks
<1>4. Tidy(pool, act, slot)
  BY <1>1, Constants DEF Tidy
<1>5. QED
  BY <1>2, <1>3, <1>4, BaseInit DEF LeakInv

LEMMA Safe == Spec => [](BaseInv /\ BlobInv /\ LeakInv)
<1>1. BaseInv /\ BlobInv /\ LeakInv /\ [Next]_vars => (BaseInv /\ BlobInv /\ LeakInv)'
  BY StepSafe
<1>2. QED
  BY <1>1, SafeInit, PTL DEF Spec

\* Types; and whoever runs a turn, or an eviction, has the lock of the slot it
\* works on, through every queueing, cancellation and wake-up of asyncio.Lock.
THEOREM TypeCorrect == Spec => []TypeOK
<1>1. BaseInv => TypeOK
  BY DEF BaseInv
<1>2. QED
  BY <1>1, Safe, PTL

\* No process, HOME or refreshed credential is left behind: what has a process
\* or a HOME is in the pool, or somebody will come for it, and a credential is
\* removed only when it is stored.
THEOREM CleanedUp == Spec => []CleansUp
<1>1. BlobInv => RotationKept
  <2> SUFFICES ASSUME BlobInv, NEW i \in Slots PROVE slot[i].blob # "lost"
    BY DEF RotationKept
  <2>1. QED
    BY DEF BlobInv, BlobOK
<1>2. BlobInv /\ LeakInv => CleansUp
  BY <1>1 DEF LeakInv, CleansUp
<1>3. QED
  BY <1>2, Safe, PTL

\* The process and the HOME a turn streams from are taken by nobody else, not
\* by an admission, not by the reaper, not by a failing call of the session.
THEOREM TurnsKeepProcess == Spec => TurnKeepsProcess
<1>1. BaseInv /\ BlobInv /\ LeakInv /\ [Next]_vars =>
        [\A c \in Callers :
           At(c, "stream") /\ act'[c] = act[c] =>
             LET i == act[c].own IN
             (slot[i].proc = "live" => slot'[i].proc # "none") /\ (slot[i].home => slot'[i].home)]_vars
  BY StepSafe DEF KeepsProc, SameProc
<1>2. QED
  BY <1>1, Safe, PTL DEF Spec, TurnKeepsProcess

-----------------------------------------------------------------------------
(* PoolBounded.                                                            *)

LEMMA PoolShrinks ==
  ASSUME PoolBounded, \A s \in Sessions : pool'[s] \in {pool[s], 0}
  PROVE  PoolBounded'
<1>1. Pooled' \in SUBSET Pooled /\ IsFiniteSet(Pooled)
  <2>1. Pooled \in SUBSET Sessions /\ IsFiniteSet(Sessions)
    BY Constants DEF Pooled
  <2>2. QED
    BY <2>1, FS_Subset DEF Pooled
<1>2. Cardinality(Pooled') <= Cardinality(Pooled) /\ Cardinality(Pooled) \in Nat
      /\ Cardinality(Pooled') \in Nat
  BY <1>1, FS_Subset, FS_CardinalityType
<1>3. Cardinality(Callers) \in Nat
  BY Constants, FS_CardinalityType
<1>4. QED
  BY <1>2, <1>3, Constants DEF PoolBounded

\* When every slot of the pool is in a turn there are fewer of them than calls.
LEMMA PoolBusy ==
  ASSUME BaseInv, NEW c \in Callers, act[c].pc = "idle",
         \A t \in Pooled : slot[pool[t]].holder # None
  PROVE  Cardinality(Pooled) + 1 <= Cardinality(Callers)
<1>1. IsFiniteSet(Pooled) /\ IsFiniteSet(Callers \ {c})
      /\ Cardinality(Callers \ {c}) = Cardinality(Callers) - 1
      /\ Cardinality(Pooled) \in Nat /\ Cardinality(Callers) \in Nat
  <2>1. Pooled \in SUBSET Sessions /\ IsFiniteSet(Sessions) /\ IsFiniteSet(Callers)
    BY Constants DEF Pooled
  <2>2. QED
    BY <2>1, FS_Subset, FS_RemoveElement, FS_CardinalityType
<1>2. ASSUME NEW t \in Pooled
      PROVE  /\ slot[pool[t]].holder \in Callers \ {c}
             /\ Wants(act[slot[pool[t]].holder]) = pool[t]
  <2>1. pool[t] \in Slots /\ t \in Sessions /\ pool[t] # 0
    BY Constants DEF BaseInv, TypeOK, Pooled
  <2>2. slot[pool[t]].holder \in Actors
    BY <1>2, <2>1, Wanted, Constants DEF SlotStates
  <2>3. PICK x \in Actors : x = slot[pool[t]].holder
    BY <2>2
  <2>4. act[x].pc # "idle" /\ Wants(act[x]) = pool[t]
    BY <2>1, <2>3, Wanted
  <2>5. x # Reaper
    <3>1. SUFFICES ASSUME x = Reaper PROVE FALSE
      OBVIOUS
    <3>2. Shape(x, act[x], calls)
      BY Wanted
    <3>3. Sheds(act[x], pool[t])
      BY <2>1, <2>4, <3>1, <3>2 DEF Shape, Sheds, Wants, Evicting
    <3>4. QED
      BY <2>1, <3>3 DEF BaseInv, SlotsOK
  <2>6. QED
    BY <2>3, <2>4, <2>5, Constants
<1>3. PICK f : f = [t \in Pooled |-> slot[pool[t]].holder]
  OBVIOUS
<1>4. f \in [Pooled -> Callers \ {c}]
  BY <1>2, <1>3
<1>5. ASSUME NEW t \in Pooled, NEW u \in Pooled, f[t] = f[u] PROVE t = u
  <2>1. pool[t] = pool[u]
    BY <1>2, <1>3, <1>5
  <2>2. QED
    BY <2>1 DEF BaseInv, SlotsOK, Pooled
<1>6. ~(Cardinality(Callers \ {c}) < Cardinality(Pooled))
  BY <1>1, <1>4, <1>5, FS_PigeonHole
<1>7. QED
  BY <1>1, <1>6

LEMMA PoolCall ==
  ASSUME BaseInv, PoolBounded, NEW c \in Callers, NEW s \in Sessions, Call(c, s)
  PROVE  PoolBounded'
<1>1. IsFiniteSet(Pooled) /\ Cardinality(Pooled) \in Nat /\ Cardinality(Callers) \in Nat
  <2>1. Pooled \in SUBSET Sessions /\ IsFiniteSet(Sessions) /\ IsFiniteSet(Callers)
    BY Constants DEF Pooled
  <2>2. QED
    BY <2>1, FS_Subset, FS_CardinalityType
<1>2. pool \in [Sessions -> 0..calls] /\ calls + 1 # 0 /\ At(c, "idle")
  BY Constants DEF BaseInv, TypeOK, Call
<1>3. CASE Reuse(c, s)
  BY <1>3, PoolShrinks DEF Reuse
<1>4. CASE Admit(c, s)
  <2>1. Pooled' = Pooled \cup {s} /\ s \notin Pooled
    BY <1>2, <1>4 DEF Admit, Pooled
  <2>2. Cardinality(Pooled') = Cardinality(Pooled) + 1
    BY <1>1, <2>1, FS_AddElement
  <2>3. CASE ~Crowded
    BY <1>1, <2>2, <2>3, Constants DEF Crowded, PoolBounded
  <2>4. CASE Crowded
    <3>1. \A t \in Pooled : slot[pool[t]].holder # None
      BY <1>4, <2>1, <2>4 DEF Admit, Candidates
    <3>2. Cardinality(Pooled) + 1 <= Cardinality(Callers)
      BY <1>2, <3>1, PoolBusy DEF At
    <3>3. QED
      BY <2>2, <3>2 DEF PoolBounded
  <2>5. QED
    BY <2>3, <2>4
<1>5. CASE AdmitOver(c, s)
  <2>1. PICK t \in Candidates(s) : pool' = [pool EXCEPT ![s] = calls + 1, ![t] = 0]
    BY <1>5 DEF AdmitOver
  <2>2. pool[s] = 0 /\ t \in Pooled /\ t # s /\ t \in Sessions /\ s \notin Pooled
    BY <1>5, <2>1 DEF AdmitOver, Candidates, Pooled
  <2>3. Pooled' = (Pooled \ {t}) \cup {s} /\ s \notin Pooled \ {t}
    BY <1>2, <2>1, <2>2 DEF Pooled
  <2>4. IsFiniteSet(Pooled \ {t}) /\ Cardinality(Pooled \ {t}) = Cardinality(Pooled) - 1
    BY <1>1, <2>2, FS_RemoveElement
  <2>5. Cardinality(Pooled') = Cardinality(Pooled)
    <3>1. Cardinality(Pooled') = Cardinality(Pooled \ {t}) + 1
      BY <2>3, <2>4, FS_AddElement
    <3>2. QED
      BY <1>1, <2>4, <3>1
  <2>6. QED
    BY <2>5 DEF PoolBounded
<1>6. QED
  BY <1>3, <1>4, <1>5 DEF Call

LEMMA PoolStep ==
  ASSUME BaseInv, PoolBounded, [Next]_vars
  PROVE  PoolBounded'
<1>1. pool \in [Sessions -> 0..calls]
  BY DEF BaseInv, TypeOK
<1>2. CASE \E c \in Callers, s \in Sessions : Call(c, s)
  BY <1>2, PoolCall
<1>3. CASE \E a \in Actors : Unstage(a)
  <2>1. \A s \in Sessions : pool'[s] \in {pool[s], 0}
    BY <1>1, <1>3 DEF Unstage
  <2>2. QED
    BY <2>1, PoolShrinks
<1>4. CASE \E s \in Sessions : Reap(s)
  <2>1. \A s \in Sessions : pool'[s] \in {pool[s], 0}
    BY <1>1, <1>4 DEF Reap
  <2>2. QED
    BY <2>1, PoolShrinks
<1>5. CASE pool' = pool
  BY <1>5, PoolShrinks
<1>6. CASE UNCHANGED vars
  BY <1>5, <1>6 DEF vars
<1>7. CASE Next
  <2>1. ASSUME NEW c \in Callers, Turn(c) PROVE pool' = pool
    BY <2>1 DEF Turn, Begin, Spawn, Hear, Rotate, ErrorEvent, Fallback, NoEvents, Abort
  <2>2. ASSUME NEW c \in Callers, Done(c) \/ CutShort(c) \/ GiveUp(c) \/ ShedCancelled(c)
        PROVE  pool' = pool
    BY <2>2 DEF Done, CutShort, GiveUp, ShedCancelled
  <2>3. ASSUME NEW a \in Actors, Kill(a) PROVE pool' = pool
    BY <2>3 DEF Kill
  <2>4. ASSUME NEW i \in Slots, Wake(i) \/ Dies(i) PROVE pool' = pool
    BY <2>4 DEF Wake, Dies
  <2>5. Sweep => pool' = pool
    BY DEF Sweep
  <2>6. QED
    BY <1>2, <1>3, <1>4, <1>5, <1>7, <2>1, <2>2, <2>3, <2>4, <2>5, StepKinds
<1>8. QED
  BY <1>6, <1>7

\* However many calls come, the pool never has more slots than the cap, or than
\* there are calls in flight: the slots beyond the cap were all in a turn when
\* the last one was made.
THEOREM PoolStaysBounded == Spec => []PoolBounded
<1>1. Init => PoolBounded
  <2> SUFFICES ASSUME Init PROVE PoolBounded
    OBVIOUS
  <2>1. Pooled = {}
    BY DEF Init, Pooled
  <2>2. QED
    BY <2>1, FS_EmptySet, Constants DEF PoolBounded
<1>2. BaseInv /\ PoolBounded /\ [Next]_vars => PoolBounded'
  BY PoolStep
<1>3. QED
  BY <1>1, <1>2, Safe, PTL DEF Spec

=============================================================================
