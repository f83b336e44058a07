---------------------------- MODULE ProcessPool ----------------------------
(***************************************************************************)
(* The pool of live claude processes: class CLIBackend of                  *)
(* apps/common/cli_backend.py, its per-session slots, its LRU admission,   *)
(* its idle reaper and its recovery from a refused --resume.               *)
(*                                                                         *)
(* Everything runs on one event loop, so an action is what happens between *)
(* two awaits that can suspend.  _sessions_dict_lock is never held across  *)
(* such an await and needs no state.  Time is abstracted: a slot that no   *)
(* call is about to use may be past the idle timeout, and the least        *)
(* recently used slot may be any.                                          *)
(***************************************************************************)
EXTENDS Naturals, Sequences, FiniteSets

CONSTANTS
  Sessions,    \* Django sessions, by slug
  Callers,     \* stream_completion calls in flight at the same time
  Reaper,      \* the idle-reaper task
  None,        \* no session, and the holder of a free lock
  Cap,         \* max_session_pool_size
  MaxCalls,    \* bound on calls, and so on SessionProcess objects
  MaxFaults    \* bound on failures, deaths and cancellations

ASSUME ProcessPoolAssumption ==
  /\ IsFiniteSet(Callers) /\ Callers # {} /\ IsFiniteSet(Sessions)
  /\ Reaper \notin Callers /\ None \notin Callers \cup Sessions \cup {Reaper}
  /\ Cap \in Nat \ {0} /\ MaxCalls \in Nat /\ MaxFaults \in Nat

VARIABLES
  pool,      \* _sessions: the slot of session s, 0 when there is none
  slot,      \* the SessionProcess objects, in creation order
  cli,       \* sessions with a stored cli_session_id
  act,       \* what each call, and the reaper, is doing
  stale,     \* the reaper's list: slugs it has yet to evict
  calls,     \* calls made so far
  faults,
  orderly    \* no call was admitted beside another of its session or one
             \* that evicts, and no call that evicts was cancelled or had its
             \* own slot reaped

vars == <<pool, slot, cli, act, stale, calls, faults, orderly>>

Actors == Callers \cup {Reaper}
Slots  == 1..MaxCalls

\* proc: none, live, or dead and not yet noticed.  blob: the credential in the
\* staged HOME is the stored one, a refreshed one not stored yet, or one that
\* was removed before it was stored.
SlotStates ==
  [proc : {"none", "live", "dead"}, home : BOOLEAN, blob : {"stored", "unsaved", "lost"},
   resumed : BOOLEAN, holder : Actors \cup {None}, queue : Seq(Actors)]

NewSlot == [proc |-> "none", home |-> FALSE, blob |-> "stored",
            resumed |-> FALSE, holder |-> None, queue |-> <<>>]

\* known: the call's own copy of the session row has a cli_session_id.  boot:
\* the turn found its process alive, spawned it, or spawned it again seeded
\* with the history.  cut: its last turn was reported complete although claude
\* had not ended it.  shed: waits for the lock of a slot it took out
\* of the pool; wait: for the lock of its own; kill, unstage: the two halves of
\* _evict_locked.
Steps  == {"idle", "shed", "wait", "spawn", "stream", "kill", "unstage"}
ActStates == [pc : Steps, of : Sessions \cup {None}, own : 0..MaxCalls, on : 0..MaxCalls,
              known : BOOLEAN, boot : {"warm", "first", "seeded"}, heard : BOOLEAN,
              cut : BOOLEAN]

Resting == [pc |-> "idle", of |-> None, own |-> 0, on |-> 0,
            known |-> FALSE, boot |-> "warm", heard |-> FALSE, cut |-> FALSE]

At(a, step)  == act[a].pc = step
Goto(a, to)  == act' = [act EXCEPT ![a].pc = to]
Mine(c)      == slot[act[c].own]
Holds(a, p)  == slot[p].holder = a
Fault        == faults < MaxFaults /\ faults' = faults + 1
Pooled       == {s \in Sessions : pool[s] # 0}
OtherCalls(c) == {d \in Callers \ {c} : ~At(d, "idle")}
Shedding(d)  == act[d].on # 0 /\ act[d].on # act[d].own

-----------------------------------------------------------------------------
(* asyncio.Lock: first come, first served.  release wakes the first waiter, *)
(* and until it runs the lock reads as free but nobody else can take it.    *)

TakeAnyway(p, a) == [p EXCEPT !.holder = a]

Take(p, a) == IF p.holder = None /\ p.queue = <<>>
              THEN [p EXCEPT !.holder = a] ELSE [p EXCEPT !.queue = Append(@, a)]

StillHeld(p) == p

Released(p) == [p EXCEPT !.holder = None]

Without(q, a) == LET k == CHOOSE k \in DOMAIN q : q[k] = a
                 IN [j \in 1..(Len(q) - 1) |-> IF j < k THEN q[j] ELSE q[j + 1]]

Left(p, a) == [p EXCEPT !.queue = Without(@, a)]

Wake(i) ==
  /\ slot[i].holder = None /\ slot[i].queue # <<>>
  /\ slot' = [slot EXCEPT ![i].holder = Head(slot[i].queue), ![i].queue = Tail(@)]
  /\ UNCHANGED <<pool, cli, act, stale, calls, faults, orderly>>

-----------------------------------------------------------------------------
(* _get_or_create_session_process.                                         *)

\* A session is known to the pool: queue for its slot.
Reuse(c, s) ==
  /\ pool[s] # 0
  /\ slot' = [slot EXCEPT ![pool[s]] = Take(@, c)]
  /\ act' = [act EXCEPT ![c] = [Resting EXCEPT !.pc = "wait", !.of = s, !.known = s \in cli,
                                               !.own = pool[s]]]
  /\ UNCHANGED pool

\* Slots that may be given up for an admission: none with a turn in progress.
Candidates(s) == {t \in Pooled \ {s} : slot[pool[t]].holder = None}

CrowdedLate == Cardinality(Pooled) > Cap + 1

Crowded == Cardinality(Pooled) + 1 > Cap

\* A new slot fits, or every other one is in a turn.
Admit(c, s) ==
  LET p == calls + 1 IN
  /\ pool[s] = 0 /\ (Crowded => Candidates(s) = {})
  /\ pool' = [pool EXCEPT ![s] = p]
  /\ slot' = [slot EXCEPT ![p] = Take(NewSlot, c)]
  /\ act' = [act EXCEPT ![c] = [Resting EXCEPT !.pc = "wait", !.of = s, !.known = s \in cli,
                                               !.own = p]]

\* One slot leaves the pool at once, and is then evicted by the caller.
AdmitOver(c, s) ==
  LET p == calls + 1 IN
  /\ pool[s] = 0 /\ Crowded
  /\ \E t \in Candidates(s) :
       /\ pool' = [pool EXCEPT ![s] = p, ![t] = 0]
       /\ slot' = [slot EXCEPT ![p] = NewSlot, ![pool[t]] = Take(@, c)]
       /\ act' = [act EXCEPT ![c] = [Resting EXCEPT !.pc = "shed", !.of = s, !.known = s \in cli,
                                                    !.own = p, !.on = pool[t]]]

Call(c, s) ==
  /\ At(c, "idle") /\ calls < MaxCalls
  /\ calls' = calls + 1
  /\ Reuse(c, s) \/ Admit(c, s) \/ AdmitOver(c, s)
  /\ orderly' = (orderly /\ \A d \in OtherCalls(c) : act[d].of # s /\ ~Shedding(d))
  /\ UNCHANGED <<cli, stale, faults>>

-----------------------------------------------------------------------------
(* _stream_long_lived, under the lock of the slot.                         *)

\* A live process is reused.  Otherwise what is left of the last HOME goes,
\* and a new one is staged.
Restage(p) == [p EXCEPT !.home = TRUE,
                        !.blob = IF p.blob = "unsaved" THEN "lost" ELSE p.blob]

Begin(c) ==
  /\ At(c, "wait") /\ Holds(c, act[c].own)
  /\ \/ Mine(c).proc = "live" /\ Goto(c, "stream") /\ UNCHANGED slot
     \/ /\ Mine(c).proc # "live"
        /\ slot' = [slot EXCEPT ![act[c].own] = Restage(@)]
        /\ Goto(c, "spawn")
  /\ UNCHANGED <<pool, cli, stale, calls, faults, orderly>>

Booted(p, resume) == [p EXCEPT !.proc = "live", !.resumed = resume]

Spawn(c) ==
  /\ At(c, "spawn")
  /\ slot' = [slot EXCEPT ![act[c].own] = Booted(@, act[c].known)]
  /\ act' = [act EXCEPT ![c].pc = "stream",
                        ![c].boot = IF @ = "warm" THEN "first" ELSE "seeded"]
  /\ UNCHANGED <<pool, cli, stale, calls, faults, orderly>>

\* The first event brings the CLI's session id, which is stored.
Hear(c) ==
  /\ At(c, "stream") /\ ~act[c].heard /\ Mine(c).proc = "live"
  /\ act' = [act EXCEPT ![c].heard = TRUE, ![c].known = TRUE]
  /\ cli' = cli \cup {act[c].of}
  /\ UNCHANGED <<pool, slot, stale, calls, faults, orderly>>

\* claude refreshes its OAuth token in the HOME it runs in.
Rotate(c) ==
  /\ At(c, "stream") /\ act[c].heard
  /\ Mine(c).proc = "live" /\ Mine(c).blob = "stored"
  /\ slot' = [slot EXCEPT ![act[c].own].blob = "unsaved"]
  /\ UNCHANGED <<pool, cli, act, stale, calls, faults, orderly>>

Unpersisted(p) == p

Persisted(p) == [p EXCEPT !.blob = IF p.blob = "unsaved" THEN "stored" ELSE p.blob]

\* _mark_turn_complete; the slot stays warm.
Complete(c, cut, resumed) ==
  /\ slot' = [slot EXCEPT ![act[c].own] =
                [Released(Persisted(@)) EXCEPT !.resumed = resumed]]
  /\ act' = [act EXCEPT ![c] = [Resting EXCEPT !.cut = cut]]

\* The consumer closes the stream at DONE, so the line behind the drain that
\* clears spawned_with_resume is not reached.
Done(c) ==
  /\ At(c, "stream") /\ act[c].heard /\ Mine(c).proc = "live"
  /\ Complete(c, FALSE, Mine(c).resumed)
  /\ UNCHANGED <<pool, cli, stale, calls, faults, orderly>>

\* The process dies after an event: _drain_persistent returns at the end of
\* file, nothing is raised, and the belt-and-braces completion runs.
CutShort(c) ==
  /\ At(c, "stream") /\ act[c].heard /\ Mine(c).proc = "dead"
  /\ Complete(c, TRUE, FALSE)
  /\ UNCHANGED <<pool, cli, stale, calls, faults, orderly>>

\* The turn fails: the caller evicts its own slot.
Failing(c) == act' = [act EXCEPT ![c].pc = "kill", ![c].on = act[c].own]

\* cli_session_id is cleared when the process was started with --resume.
Forget(c) == cli' = IF Mine(c).resumed THEN cli \ {act[c].of} ELSE cli

\* An ERROR event clears it after a seeded start too.
ForgetOnError(c) == IF act[c].boot = "seeded" THEN cli' = cli \ {act[c].of} ELSE Forget(c)

ErrorEvent(c) ==
  /\ At(c, "stream") /\ act[c].heard /\ Mine(c).proc = "live"
  /\ Fault
  /\ ForgetOnError(c) /\ Failing(c)
  /\ UNCHANGED <<pool, slot, stale, calls, orderly>>

\* No event at all, after a spawn with --resume: start again without it.
Refused(c) == act[c].boot = "first" /\ Mine(c).resumed

Fallback(c) ==
  /\ At(c, "stream") /\ ~act[c].heard /\ Mine(c).proc = "dead"
  /\ Refused(c)
  /\ cli' = cli \ {act[c].of}
  /\ slot' = [slot EXCEPT ![act[c].own] = [Restage(@) EXCEPT !.proc = "none"]]
  /\ act' = [act EXCEPT ![c].pc = "spawn", ![c].known = FALSE]
  /\ UNCHANGED <<pool, stale, calls, faults, orderly>>

NoEvents(c) ==
  /\ At(c, "stream") /\ ~act[c].heard /\ Mine(c).proc = "dead"
  /\ ~Refused(c)
  /\ Forget(c) /\ Failing(c)
  /\ UNCHANGED <<pool, slot, stale, calls, faults, orderly>>

\* The binary is missing, or the consumer cancels.
Abort(c) ==
  /\ At(c, "spawn") \/ At(c, "stream")
  /\ Fault
  /\ Failing(c)
  /\ UNCHANGED <<pool, slot, cli, stale, calls, orderly>>

\* Cancelled before it has the lock: nothing to clean up.
GiveUp(c) ==
  /\ At(c, "wait") /\ ~Holds(c, act[c].own)
  /\ Fault
  /\ slot' = [slot EXCEPT ![act[c].own] = Left(@, c)]
  /\ act' = [act EXCEPT ![c] = Resting]
  /\ UNCHANGED <<pool, cli, stale, calls, orderly>>

\* The process dies by itself, in a turn or between two.
Dies(i) ==
  /\ slot[i].proc = "live"
  /\ Fault
  /\ slot' = [slot EXCEPT ![i].proc = "dead"]
  /\ UNCHANGED <<pool, cli, act, stale, calls, orderly>>

-----------------------------------------------------------------------------
(* _evict_locked, by a failing call, an admission or the reaper.           *)

MayEvictAtOnce(a) == At(a, "kill") \/ At(a, "shed")

MayEvict(a) == At(a, "kill") \/ (At(a, "shed") /\ Holds(a, act[a].on))

Kill(a) ==
  /\ MayEvict(a)
  /\ slot' = [slot EXCEPT ![act[a].on].proc = "none"]
  /\ Goto(a, "unstage")
  /\ UNCHANGED <<pool, cli, stale, calls, faults, orderly>>

KeepHome(p) == Released(Persisted(p))

Unstaged(p) == LET q == Persisted(p) IN
  [q EXCEPT !.home = FALSE, !.holder = None,
            !.blob = IF q.blob = "unsaved" THEN "lost" ELSE q.blob]

\* The refreshed credential is stored and the HOME removed.  A failing call
\* then drops whatever slot the pool has for its slug; an admission goes on to
\* its own slot; the reaper to the next slug.
Unstage(a) ==
  LET i == act[a].on  own == act[a].own IN
  /\ At(a, "unstage")
  /\ \/ /\ a = Reaper
        /\ slot' = [slot EXCEPT ![i] = Unstaged(@)]
        /\ act' = [act EXCEPT ![a] = Resting]
        /\ UNCHANGED pool
     \/ /\ a # Reaper /\ i # own
        /\ slot' = [slot EXCEPT ![i] = Unstaged(@), ![own] = Take(@, a)]
        /\ act' = [act EXCEPT ![a].pc = "wait", ![a].on = 0]
        /\ UNCHANGED pool
     \/ /\ a # Reaper /\ i = own
        /\ slot' = [slot EXCEPT ![i] = Unstaged(@)]
        /\ pool' = [pool EXCEPT ![act[a].of] = 0]
        /\ act' = [act EXCEPT ![a] = Resting]
  /\ UNCHANGED <<cli, stale, calls, faults, orderly>>

\* A cancellation escapes from the admission's wait for the lock, or from its
\* await of the credential store: nobody finishes the eviction.
ShedCancelled(c) ==
  /\ Shedding(c)
  /\ Fault
  /\ \/ At(c, "shed") /\ ~Holds(c, act[c].on)
        /\ slot' = [slot EXCEPT ![act[c].on] = Left(@, c)]
     \/ At(c, "unstage") /\ slot' = [slot EXCEPT ![act[c].on] = Released(@)]
  /\ act' = [act EXCEPT ![c] = Resting]
  /\ orderly' = FALSE
  /\ UNCHANGED <<pool, cli, stale, calls>>

-----------------------------------------------------------------------------
(* _idle_reaper.                                                           *)

\* last_active is not refreshed within a turn, so a long turn looks idle; a
\* slot whose call is yet to stream was created or used just now.
Idle(i) == \A c \in Callers : act[c].own = i => At(c, "stream")

Evictable == {s \in Pooled : Idle(pool[s]) /\ slot[pool[s]].holder = None}

Sweep ==
  /\ At(Reaper, "idle") /\ stale = {}
  /\ stale' \in (SUBSET Evictable) \ {{}}
  /\ UNCHANGED <<pool, slot, cli, act, calls, faults, orderly>>

\* _evict_session: out of the pool first, then the lock.
Reap(s) ==
  /\ At(Reaper, "idle") /\ s \in stale
  /\ stale' = stale \ {s}
  /\ pool' = [pool EXCEPT ![s] = 0]
  /\ \/ pool[s] = 0 /\ UNCHANGED <<slot, act>>
     \/ /\ pool[s] # 0
        /\ slot' = [slot EXCEPT ![pool[s]] = Take(@, Reaper)]
        /\ act' = [act EXCEPT ![Reaper] = [Resting EXCEPT !.pc = "shed", !.of = s,
                                                             !.on = pool[s]]]
  /\ orderly' = (orderly /\ \A d \in Callers : Shedding(d) => act[d].own # pool[s])
  /\ UNCHANGED <<cli, calls, faults>>

-----------------------------------------------------------------------------

Init ==
  /\ pool = [s \in Sessions |-> 0]
  /\ slot = [i \in Slots |-> NewSlot]
  /\ cli \in {{}, Sessions}
  /\ act = [a \in Actors |-> Resting]
  /\ stale = {} /\ calls = 0 /\ faults = 0 /\ orderly = TRUE

\* What a call does by itself, and what ends it.
Work(c)   == \/ Begin(c) \/ Spawn(c) \/ Hear(c) \/ CutShort(c)
             \/ Fallback(c) \/ NoEvents(c)
Ends(c)   == Done(c) \/ ErrorEvent(c)
Evict(a)  == Kill(a) \/ Unstage(a)

Next ==
  \/ \E c \in Callers : \/ \E s \in Sessions : Call(c, s)
                        \/ Work(c) \/ Ends(c) \/ Rotate(c)
                        \/ Abort(c) \/ GiveUp(c) \/ ShedCancelled(c)
  \/ \E a \in Actors : Evict(a)
  \/ \E i \in Slots : Wake(i) \/ Dies(i)
  \/ Sweep \/ \E s \in Sessions : Reap(s)

Spec == Init /\ [][Next]_vars

\* The event loop runs what is ready, and claude ends the turn it is in.
FairSpec ==
  /\ Spec
  /\ \A c \in Callers : WF_vars(Work(c)) /\ WF_vars(Ends(c))
  /\ \A a \in Actors : WF_vars(Evict(a))
  /\ \A i \in Slots : WF_vars(Wake(i))

-----------------------------------------------------------------------------
(* Properties.                                                             *)

\* Types; and a call runs a turn, or an eviction, only with the slot's lock.
TypeOK ==
  /\ pool \in [Sessions -> 0..calls]
  /\ slot \in [Slots -> SlotStates]
  /\ cli \subseteq Sessions /\ stale \subseteq Sessions
  /\ act \in [Actors -> ActStates]
  /\ calls \in 0..MaxCalls /\ faults \in 0..MaxFaults
  /\ orderly \in BOOLEAN
  /\ \A c \in Callers : At(c, "spawn") \/ At(c, "stream") => Holds(c, act[c].own)
  /\ \A a \in Actors : At(a, "kill") \/ At(a, "unstage") => Holds(a, act[a].on)

\* _evict_session pops first so that no "live subprocess + staged HOME that
\* nothing tracks" is left: what holds a process or a HOME is in the pool, or
\* somebody has its lock or waits for it.
NothingLeaks ==
  orderly =>
    \A i \in Slots :
      slot[i].proc # "none" \/ slot[i].home =>
        \/ \E s \in Sessions : pool[s] = i
        \/ slot[i].holder # None \/ slot[i].queue # <<>>

\* _evictable_slugs: the process a turn streams from is not terminated, nor its
\* HOME removed "under the live claude -p", by anybody but that turn.
TurnKeepsProcess ==
  [][\A c \in Callers :
       At(c, "stream") /\ act'[c] = act[c] =>
         LET i == act[c].own IN
         (slot[i].proc = "live" => slot'[i].proc # "none") /\ (slot[i].home => slot'[i].home)]_vars

\* _mark_turn_complete: a refreshed credential is read back before its HOME
\* goes, because a refresh token is good for one use.
RotationKept == \A i \in Slots : slot[i].blob # "lost"

\* Both of them: no process, HOME or credential is left behind or lost.
CleansUp == NothingLeaks /\ RotationKept

\* _lru_evict_candidate lets the pool exceed the cap rather than kill a turn:
\* it never has more slots than the cap, or than calls in flight.
PoolBounded ==
  \/ Cardinality(Pooled) <= Cap
  \/ Cardinality(Pooled) <= Cardinality(Callers)

\* Every call gets its turn and ends, whatever waits for whatever lock.
EveryCallEnds == \A c \in Callers : ~At(c, "idle") ~> At(c, "idle")

\* "Mid-turn proc death (after at least one event)" surfaces an error: a call
\* that ends well has heard claude end the turn.
CutIsAnError == \A c \in Callers : ~act[c].cut

=============================================================================
