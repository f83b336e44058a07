------------------------- MODULE RunDispatchProofs -------------------------
(***************************************************************************)
(* What holds of RunDispatch for any number of people, requests, turns and *)
(* faults: its type invariant, and that a turn never runs in a canopy      *)
(* session that somebody other than its requester created; and what holds  *)
(* as long as requests come one at a time.                                 *)
(*                                                                         *)
(* And, in the second half, what holds of SummaryPage for any number of    *)
(* comments and pages in flight, and any ceilings: comments are kept, and  *)
(* shown.                                                                  *)
(***************************************************************************)
EXTENDS RunDispatch, SummaryPage, FiniteSetTheorems, SequenceTheorems, TLAPS

DispatchPCs == {"load", "stop", "create", "send", "record"}

-----------------------------------------------------------------------------
(* The inductive strengthening of TypeOK, in three parts.                  *)

RowsOK ==
  /\ n \in 0..MaxTurns
  /\ status \in [Turns -> Statuses] /\ detail \in [Turns -> Details]
  /\ \A m \in Turns : status[m] # "none" <=> m <= n
  /\ who \in [Turns -> People \cup {Nobody}] /\ \A m \in 1..n : who[m] \in People
  /\ tid \subseteq 1..n /\ aged \subseteq Turns /\ beat \in Beats

CanopyOK ==
  /\ csid \in 0..MaxTurns /\ cactor \in People \cup {Nobody}
  /\ holder \in [Turns -> People \cup {Nobody}]
  /\ turn \in [Turns -> TurnStatuses] /\ tsess \in [Turns -> 0..MaxTurns]
  /\ \A m \in tid : turn[m] # "none"

\* A handler dispatches, reads or writes a turn that exists.
HandlerOK(r) ==
  /\ req[r].msg <= n
  /\ req[r].pc \in DispatchPCs \cup {"read", "write"} => req[r].msg # 0
  /\ req[r].pc \in {"look", "read", "again", "write", "resume"} => n # 0
  /\ req[r].pc \in {"again", "write"} => req[r].seen # "none"
  /\ req[r].pc = "read" => req[r].msg \in tid
  /\ req[r].pc = "record" => turn[req[r].msg] # "none"

TypeInv ==
  /\ RowsOK /\ CanopyOK /\ faults \in 0..MaxFaults
  /\ req \in [Requests -> Handlers] /\ \A r \in Requests : HandlerOK(r)

\* The strengthening implies the type invariant the runs check.
LEMMA TypeInvTypes == TypeInv => TypeOK
BY DEF TypeInv, RowsOK, CanopyOK, HandlerOK, TypeOK

\* A run that was just seeded, or not yet started, is well typed.
LEMMA TypeInit == Init => TypeInv
<1> SUFFICES ASSUME Init PROVE TypeInv
  OBVIOUS
<1> USE RunDispatchAssumption DEF RunDispatchAssumption
<1>1. Idle \in Handlers /\ Idle.pc = "idle" /\ Idle.msg = 0
  BY DEF Idle, Handlers, PCs, TurnStatuses, AliveTurn, TurnError
<1>2. n \in {0, 1} /\ 1 \in Turns
  BY DEF Init, Turns
<1>3. /\ status \in [Turns -> Statuses] /\ detail \in [Turns -> Details]
      /\ \A m \in Turns : status[m] # "none" <=> m <= n
      /\ beat \in Beats
  BY DEF Init, FirstTurn, Turns, Statuses, Details, Beats
<1>4. who \in [Turns -> People \cup {Nobody}] /\ \A m \in 1..n : who[m] \in People
  BY <1>2 DEF Init
<1>5. RowsOK
  BY <1>2, <1>3, <1>4 DEF Init, RowsOK
<1>6. CanopyOK
  BY DEF Init, CanopyOK, TurnStatuses
<1>7. req \in [Requests -> Handlers] /\ \A r \in Requests : HandlerOK(r)
  BY <1>1, <1>2 DEF Init, HandlerOK, DispatchPCs
<1>8. QED
  BY <1>5, <1>6, <1>7 DEF TypeInv, Init

-----------------------------------------------------------------------------
(* Lemmas about the pieces steps are made of.                              *)

\* A resume retires only turns that exist.
LEMMA RetiredAreTurns ==
  ASSUME RowsOK
  PROVE  \A m \in Retired(status, detail) : m \in Turns /\ status[m] # "none"
BY DEF RowsOK, Retired, NonTerminal, Statuses

\* Turns are only added, recorded and sent.
Grows ==
  /\ n' \in Nat /\ n <= n'
  /\ tid \subseteq tid'
  /\ \A m \in Turns : turn[m] # "none" => turn'[m] # "none"

\* A handler that does not move is not disturbed.
LEMMA HandlersApart ==
  ASSUME TypeInv, Grows, NEW r \in Requests, req'[r] = req[r]
  PROVE  HandlerOK(r)'
<1>1. HandlerOK(r) /\ req[r] \in Handlers /\ n \in Nat
  BY RunDispatchAssumption DEF TypeInv, RowsOK, RunDispatchAssumption
<1>2. req[r].msg \in Turns \cup {0} /\ req[r].msg \in Nat
  BY <1>1, RunDispatchAssumption DEF Handlers, Turns, RunDispatchAssumption
<1>3. QED
  BY <1>1, <1>2 DEF Grows, HandlerOK, DispatchPCs

\* It is enough that the one that moves is in order.
LEMMA OneMoves ==
  ASSUME TypeInv, Grows, NEW r \in Requests, NEW h \in Handlers,
         req' = [req EXCEPT ![r] = h], HandlerOK(r)'
  PROVE  req' \in [Requests -> Handlers] /\ \A q \in Requests : HandlerOK(q)'
<1>1. req \in [Requests -> Handlers]
  BY DEF TypeInv
<1>2. ASSUME NEW q \in Requests, q # r PROVE HandlerOK(q)'
  BY <1>1, <1>2, HandlersApart
<1>3. QED
  BY <1>1, <1>2

\* Steps of canopy and of the clock leave every handler in order.
LEMMA NobodyMoves ==
  ASSUME TypeInv, Grows, req' = req
  PROVE  req' \in [Requests -> Handlers] /\ \A q \in Requests : HandlerOK(q)'
BY HandlersApart DEF TypeInv

\* A handler that ends is in order, ...
LEMMA EndMoves ==
  ASSUME TypeInv, Grows, NEW r \in Requests, End(r)
  PROVE  req' \in [Requests -> Handlers] /\ \A q \in Requests : HandlerOK(q)'
<1>1. Idle \in Handlers /\ Idle.pc = "idle" /\ Idle.msg = 0
  BY RunDispatchAssumption
     DEF RunDispatchAssumption, Idle, Handlers, PCs, TurnStatuses, AliveTurn, TurnError
<1>2. req'[r] = Idle /\ req' = [req EXCEPT ![r] = Idle]
  BY DEF End, TypeInv
<1>3. HandlerOK(r)'
  BY <1>1, <1>2 DEF HandlerOK, DispatchPCs, Grows
<1>4. QED
  BY <1>1, <1>2, <1>3, OneMoves

\* ... and one that starts to dispatch a turn that exists.
LEMMA DispatchMoves ==
  ASSUME TypeInv, Grows, NEW r \in Requests, NEW m \in Turns, m <= n', Dispatching(r, m)
  PROVE  req' \in [Requests -> Handlers] /\ \A q \in Requests : HandlerOK(q)'
<1> DEFINE h == [Idle EXCEPT !.pc = "load", !.msg = m]
<1>1. h \in Handlers /\ h.pc = "load" /\ h.msg = m /\ m # 0
  <2>1. m # 0 /\ m \in 0..MaxTurns
    BY RunDispatchAssumption DEF RunDispatchAssumption, Turns
  <2>2. Idle \in Handlers
    BY RunDispatchAssumption
       DEF RunDispatchAssumption, Idle, Handlers, PCs, TurnStatuses, AliveTurn, TurnError
  <2>3. QED
    BY <2>1, <2>2 DEF Handlers, PCs
<1>2. req'[r] = h /\ req' = [req EXCEPT ![r] = h]
  BY DEF Dispatching, TypeInv
<1> HIDE DEF h
<1>3. HandlerOK(r)'
  BY <1>1, <1>2 DEF HandlerOK, DispatchPCs
<1>4. QED
  BY <1>1, <1>2, <1>3, OneMoves

\* A resume leaves the rows well typed, with one more turn.
LEMMA AppendRows ==
  ASSUME TypeInv, NEW p \in People, AppendResumeTurn(p)
  PROVE  RowsOK' /\ tid' = tid /\ n' = n + 1 /\ n' \in Turns
<1> USE RunDispatchAssumption DEF RunDispatchAssumption
<1>0. RowsOK
  BY DEF TypeInv
<1>1. n \in Turns /\ n' = n + 1 /\ n' \in Turns /\ n' \in 0..MaxTurns /\ tid' = tid /\ beat' \in Beats
  BY DEF AppendResumeTurn, Turns, Beats
<1>2. \A m \in Retired(status, detail) : m \in Turns /\ status[m] # "none"
  BY <1>0, RetiredAreTurns
<1>3. status' \in [Turns -> Statuses] /\ detail' \in [Turns -> Details] /\ aged' \subseteq Turns
  BY <1>0 DEF AppendResumeTurn, RowsOK, Statuses, Details
<1>4. \A m \in Turns : status'[m] # "none" <=> m <= n'
  BY <1>0, <1>1, <1>2 DEF AppendResumeTurn, RowsOK, Turns
<1>5. who' \in [Turns -> People \cup {Nobody}] /\ \A m \in 1..n' : who'[m] \in People
  BY <1>0, <1>1 DEF AppendResumeTurn, RowsOK, Turns
<1>6. tid' \subseteq 1..n'
  BY <1>0, <1>1 DEF RowsOK, Turns
<1>7. QED
  BY <1>1, <1>3, <1>4, <1>5, <1>6 DEF RowsOK

\* A turn whose dispatch failed leaves the rows well typed.
LEMMA FailRows ==
  ASSUME TypeInv, NEW m \in 1..n, FailTurn(m)
  PROVE  RowsOK' /\ tid' = tid /\ n' = n
<1>0. RowsOK /\ m \in Turns
  BY RunDispatchAssumption DEF RunDispatchAssumption, TypeInv, RowsOK, Turns
<1>1. status' \in [Turns -> Statuses] /\ detail' \in [Turns -> Details]
  BY <1>0 DEF FailTurn, RowsOK, Statuses, Details
<1>2. \A k \in Turns : status'[k] # "none" <=> k <= n
  BY <1>0 DEF FailTurn, RowsOK, Turns
<1>3. QED
  BY <1>0, <1>1, <1>2 DEF FailTurn, RowsOK

-----------------------------------------------------------------------------
(* The type invariant is inductive: one step per action.                   *)

\* No step of any request, of canopy or of the clock breaks it.
LEMMA TypeNext == TypeInv /\ [Next]_vars => TypeInv'
<1> SUFFICES ASSUME TypeInv, [Next]_vars PROVE TypeInv'
  OBVIOUS
<1> USE RunDispatchAssumption DEF RunDispatchAssumption
<1>0. /\ RowsOK /\ CanopyOK /\ faults \in 0..MaxFaults /\ req \in [Requests -> Handlers]
      /\ n \in Nat /\ n \in 0..MaxTurns
      /\ \A m \in 1..n : m \in Turns
      /\ \A r \in Requests : HandlerOK(r) /\ req[r] \in Handlers
  BY DEF TypeInv, RowsOK, Turns
<1>s. ASSUME Fault \/ UNCHANGED faults PROVE faults' \in 0..MaxFaults
  BY <1>0, <1>s DEF Fault
<1>1. ASSUME NEW r \in Requests, SeedRun(r) PROVE TypeInv'
  <2>1. 1 \in Turns /\ n' = 1
    BY <1>1 DEF SeedRun, Turns
  <2>2. RowsOK'
    BY <1>0, <1>1, <2>1 DEF SeedRun, RowsOK, Statuses, Turns
  <2>3. CanopyOK'
    BY <1>0, <1>1 DEF SeedRun, CanopyOK, sessVars, canopyVars
  <2>4. Grows
    BY <1>0, <1>1, <2>1 DEF SeedRun, Grows, canopyVars
  <2>5. Dispatching(r, 1)
    BY <1>1 DEF SeedRun
  <2>6. QED
    BY <1>1, <2>1, <2>2, <2>3, <2>4, <2>5, <1>s, DispatchMoves DEF TypeInv, SeedRun
<1>2. ASSUME NEW r \in Requests, NEW p \in People, AppendResumeTurn(p),
             Dispatching(r, n + 1), UNCHANGED <<sessVars, canopyVars, faults>>
      PROVE  TypeInv'
  <2>1. RowsOK' /\ tid' = tid /\ n' = n + 1 /\ n' \in Turns
    BY <1>2, AppendRows
  <2>2. CanopyOK'
    BY <1>0, <1>2, <2>1 DEF CanopyOK, sessVars, canopyVars
  <2>3. Grows
    BY <1>0, <1>2, <2>1 DEF Grows, canopyVars
  <2>4. QED
    BY <1>2, <2>1, <2>2, <2>3, <1>s, <1>0, DispatchMoves DEF TypeInv
<1>3. ASSUME NEW r \in Requests, NEW p \in People, ClickResume(r, p) PROVE TypeInv'
  BY <1>3, <1>2 DEF ClickResume
<1>4. ASSUME NEW r \in Requests, SweepResume(r) PROVE TypeInv'
  BY <1>4, <1>2 DEF SweepResume
<1>5. ASSUME NEW r \in Requests, End(r), UNCHANGED <<rowVars, sessVars, canopyVars>>,
             Fault \/ UNCHANGED faults
      PROVE  TypeInv'
  <2>1. RowsOK' /\ CanopyOK' /\ Grows
    BY <1>0, <1>5 DEF RowsOK, CanopyOK, Grows, rowVars, sessVars, canopyVars
  <2>2. QED
    BY <1>5, <2>1, <1>s, EndMoves DEF TypeInv
<1>6. ASSUME NEW r \in Requests, NEW h \in Handlers, req' = [req EXCEPT ![r] = h],
             UNCHANGED <<rowVars, sessVars, canopyVars, faults>>,
             h.msg <= n, h.pc \in DispatchPCs \cup {"read", "write"} => h.msg # 0,
             h.pc # "record", n # 0 \/ h.pc \in DispatchPCs,
             h.pc \in {"again", "write"} => h.seen # "none",
             h.pc = "read" => h.msg \in tid
      PROVE  TypeInv'
  <2>1. RowsOK' /\ CanopyOK' /\ Grows
    BY <1>0, <1>6 DEF RowsOK, CanopyOK, Grows, rowVars, sessVars, canopyVars
  <2>2. req'[r] = h
    BY <1>0, <1>6
  <2>3. HandlerOK(r)'
    BY <1>6, <2>2 DEF HandlerOK, DispatchPCs, rowVars
  <2>4. QED
    BY <1>6, <2>1, <2>3, <1>s, OneMoves DEF TypeInv
<1>7. ASSUME NEW r \in Requests, SweepSelect(r) PROVE TypeInv'
  <2> DEFINE h == [req[r] EXCEPT !.pc = IF csid # 0 THEN "look" ELSE "resume", !.sweep = TRUE]
  <2>1. h \in Handlers /\ h.msg = req[r].msg /\ h.pc \in {"look", "resume"}
    BY <1>0 DEF Handlers, PCs
  <2>2. req' = [req EXCEPT ![r] = h]
    BY <1>7, <1>0 DEF SweepSelect
  <2>3. n # 0
    BY <1>7, <1>0 DEF SweepSelect, Resumable, HardKill, GracefulCancel, RowsOK, Turns, NonTerminal
  <2> HIDE DEF h
  <2>4. QED
    BY <1>0, <1>6, <1>7, <2>1, <2>2, <2>3 DEF SweepSelect, HandlerOK, DispatchPCs
<1>8. ASSUME NEW r \in Requests, SweepOutOfTurns(r) PROVE TypeInv'
  BY <1>5, <1>8 DEF SweepOutOfTurns
<1>9. ASSUME NEW r \in Requests, Killed(r) PROVE TypeInv'
  BY <1>5, <1>9 DEF Killed
<1>10. ASSUME NEW r \in Requests, Load(r) PROVE TypeInv'
  <2> DEFINE h == [req[r] EXCEPT !.pc = IF csid # 0 THEN "stop" ELSE "create",
                                 !.loc = csid, !.mine = OwnSession(r)]
  <2>1. h \in Handlers /\ h.msg = req[r].msg /\ h.pc \in {"stop", "create"}
    BY <1>0 DEF Handlers, PCs, CanopyOK, OwnSession
  <2>2. req' = [req EXCEPT ![r] = h]
    BY <1>10, <1>0 DEF Load
  <2>3. req[r].msg # 0
    BY <1>10, <1>0 DEF Load, At, HandlerOK, DispatchPCs
  <2> HIDE DEF h
  <2>4. QED
    BY <1>0, <1>6, <1>10, <2>1, <2>2, <2>3 DEF Load, HandlerOK, DispatchPCs
<1>11. ASSUME NEW r \in Requests, Stop(r) PROVE TypeInv'
  <2> DEFINE h == [req[r] EXCEPT !.pc = IF req[r].mine THEN "send" ELSE "create"]
  <2>1. h \in Handlers /\ h.msg = req[r].msg /\ h.pc \in {"send", "create"}
    BY <1>0 DEF Handlers, PCs
  <2>2. req' = [req EXCEPT ![r] = h] /\ req'[r] = h
    BY <1>11, <1>0 DEF Stop, Goto
  <2>3. req[r].msg # 0
    BY <1>11, <1>0 DEF Stop, At, HandlerOK, DispatchPCs
  <2> HIDE DEF h
  <2>4. turn' \in [Turns -> TurnStatuses] /\ \A m \in Turns : turn[m] # "none" => turn'[m] # "none"
    BY <1>0, <1>11 DEF Stop, Stopped, CanopyOK, TurnStatuses, AliveTurn, TurnError
  <2>5. RowsOK' /\ CanopyOK' /\ Grows
    BY <1>0, <1>11, <2>4 DEF Stop, RowsOK, CanopyOK, Grows, rowVars, sessVars
  <2>6. HandlerOK(r)'
    BY <1>0, <1>11, <2>1, <2>2, <2>3 DEF Stop, HandlerOK, DispatchPCs, rowVars
  <2>7. faults' \in 0..MaxFaults
    BY <1>11, <1>s DEF Stop
  <2>8. QED
    BY <2>1, <2>2, <2>5, <2>6, <2>7, OneMoves DEF TypeInv
<1>12. ASSUME NEW r \in Requests, Create(r) PROVE TypeInv'
  <2> DEFINE m == req[r].msg
             h == [req[r] EXCEPT !.pc = "send", !.loc = m]
  <2>1. h \in Handlers /\ h.msg = m /\ h.pc = "send"
    BY <1>0 DEF Handlers, PCs
  <2>2. req' = [req EXCEPT ![r] = h] /\ req'[r] = h
    BY <1>12, <1>0 DEF Create
  <2>3. m # 0 /\ m \in Turns /\ m \in 0..MaxTurns /\ who[m] \in People
    BY <1>12, <1>0 DEF Create, At, HandlerOK, DispatchPCs, Handlers, Turns, RowsOK
  <2> HIDE DEF h
  <2>4. CanopyOK'
    BY <1>0, <1>12, <2>3 DEF Create, CanopyOK, RecordedActor, rowVars
  <2>5. RowsOK' /\ Grows
    BY <1>0, <1>12 DEF Create, RowsOK, Grows, rowVars
  <2>6. HandlerOK(r)'
    BY <1>0, <1>12, <2>1, <2>2, <2>3 DEF Create, HandlerOK, DispatchPCs, rowVars
  <2>7. QED
    BY <1>0, <1>12, <2>1, <2>2, <2>4, <2>5, <2>6, OneMoves DEF TypeInv, Create
<1>13. ASSUME NEW r \in Requests, CallFails(r) PROVE TypeInv'
  <2>1. req[r].msg \in 1..n
    BY <1>0, <1>13 DEF CallFails, At, HandlerOK, DispatchPCs, Handlers
  <2>2. RowsOK' /\ tid' = tid /\ n' = n
    BY <1>13, <2>1, FailRows DEF CallFails
  <2>3. CanopyOK' /\ Grows
    BY <1>0, <1>13, <2>2 DEF CallFails, CanopyOK, Grows, sessVars, canopyVars
  <2>4. QED
    BY <1>13, <2>2, <2>3, <1>s, EndMoves DEF TypeInv, CallFails
<1>14. ASSUME NEW r \in Requests, Send(r) PROVE TypeInv'
  <2> DEFINE m == req[r].msg
             h == [req[r] EXCEPT !.pc = "record"]
  <2>1. m \in 1..n /\ m \in Turns /\ req[r].loc \in 0..MaxTurns
    BY <1>0, <1>14 DEF Send, At, HandlerOK, DispatchPCs, Handlers
  <2>2. CASE Goto(r, "record") /\ UNCHANGED <<rowVars, faults>>
    <3>1. h \in Handlers /\ h.msg = m /\ h.pc = "record"
      BY <1>0 DEF Handlers, PCs
    <3>2. req' = [req EXCEPT ![r] = h] /\ req'[r] = h
      BY <2>2, <1>0 DEF Goto
    <3> HIDE DEF h
    <3>3. RowsOK' /\ CanopyOK' /\ Grows
      BY <1>0, <1>14, <2>1, <2>2
         DEF Send, RowsOK, CanopyOK, Grows, rowVars, sessVars, TurnStatuses, AliveTurn
    <3>4. HandlerOK(r)'
      BY <1>0, <1>14, <2>1, <2>2, <3>1, <3>2 DEF Send, HandlerOK, DispatchPCs, rowVars, CanopyOK
    <3>5. QED
      BY <1>0, <2>2, <3>1, <3>2, <3>3, <3>4, OneMoves DEF TypeInv
  <2>3. CASE Fault /\ FailTurn(m) /\ End(r)
    <3>1. RowsOK' /\ tid' = tid /\ n' = n
      BY <2>1, <2>3, FailRows
    <3>2. CanopyOK' /\ Grows
      BY <1>0, <1>14, <2>1, <3>1 DEF Send, CanopyOK, Grows, sessVars, TurnStatuses, AliveTurn
    <3>3. QED
      BY <2>3, <3>1, <3>2, <1>s, EndMoves DEF TypeInv
  <2>4. QED
    BY <1>14, <2>2, <2>3 DEF Send
<1>15. ASSUME NEW r \in Requests, Record(r) PROVE TypeInv'
  <2>1. req[r].msg \in 1..n /\ turn[req[r].msg] # "none"
    BY <1>0, <1>15 DEF Record, At, HandlerOK, DispatchPCs, Handlers
  <2>2. RowsOK'
    BY <1>0, <1>15, <2>1 DEF Record, RowsOK, Beats
  <2>3. CanopyOK' /\ Grows
    BY <1>0, <1>15, <2>1 DEF Record, CanopyOK, Grows, sessVars, canopyVars
  <2>4. QED
    BY <1>0, <1>15, <2>2, <2>3, EndMoves DEF Record, TypeInv
<1>16. ASSUME NEW r \in Requests, Reconcile(r) PROVE TypeInv'
  <2> DEFINE h == [req[r] EXCEPT !.pc = "look"]
  <2>1. h \in Handlers /\ h.msg = req[r].msg /\ h.pc = "look"
    BY <1>0 DEF Handlers, PCs
  <2>2. req' = [req EXCEPT ![r] = h] /\ n # 0
    BY <1>16, <1>0 DEF Reconcile, Goto
  <2> HIDE DEF h
  <2>3. QED
    BY <1>0, <1>6, <1>16, <2>1, <2>2 DEF Reconcile, HandlerOK, DispatchPCs
<1>17. ASSUME NEW r \in Requests, Look(r) PROVE TypeInv'
  <2>1. n # 0 /\ n \in Turns /\ n \in 0..MaxTurns
    BY <1>0, <1>17 DEF Look, At, HandlerOK, Turns
  <2>2. CASE n \in tid /\ req' = [req EXCEPT ![r].pc = "read", ![r].msg = n]
    <3> DEFINE h == [req[r] EXCEPT !.pc = "read", !.msg = n]
    <3>1. h \in Handlers /\ h.msg = n /\ h.pc = "read"
      BY <1>0, <2>1 DEF Handlers, PCs
    <3>2. req' = [req EXCEPT ![r] = h]
      BY <2>2, <1>0
    <3> HIDE DEF h
    <3>3. QED
      <4>1. h.msg <= n /\ h.msg # 0 /\ h.msg \in tid
        BY <1>0, <2>1, <2>2, <3>1
      <4>2. UNCHANGED <<rowVars, sessVars, canopyVars, faults>>
        BY <1>17 DEF Look
      <4>3. QED
        BY <1>6, <2>1, <3>1, <3>2, <4>1, <4>2
  <2>3. CASE Goto(r, "resume")
    <3> DEFINE h == [req[r] EXCEPT !.pc = "resume"]
    <3>1. h \in Handlers /\ h.msg = req[r].msg /\ h.pc = "resume"
      BY <1>0 DEF Handlers, PCs
    <3>2. req' = [req EXCEPT ![r] = h]
      BY <2>3, <1>0 DEF Goto
    <3> HIDE DEF h
    <3>3. QED
      BY <1>0, <1>6, <1>17, <2>1, <3>1, <3>2 DEF Look, HandlerOK, DispatchPCs
  <2>4. QED
    BY <1>5, <1>17, <2>2, <2>3 DEF Look
<1>18. ASSUME NEW r \in Requests, ReadTurn(r) PROVE TypeInv'
  <2>1. CASE /\ req' = [req EXCEPT ![r].pc = "again", ![r].seen = turn[req[r].msg]]
             /\ UNCHANGED faults
    <3> DEFINE h == [req[r] EXCEPT !.pc = "again", !.seen = turn[req[r].msg]]
    <3>1. req[r].msg \in tid /\ req[r].msg \in Turns /\ n # 0
      BY <1>0, <1>18 DEF ReadTurn, At, HandlerOK, RowsOK
    <3>2. h \in Handlers /\ h.msg = req[r].msg /\ h.pc = "again" /\ h.seen # "none"
      BY <1>0, <3>1 DEF Handlers, PCs, CanopyOK
    <3>3. req' = [req EXCEPT ![r] = h]
      BY <2>1, <1>0
    <3> HIDE DEF h
    <3>4. QED
      BY <1>0, <1>6, <1>18, <2>1, <3>1, <3>2, <3>3 DEF ReadTurn, HandlerOK, DispatchPCs
  <2>2. QED
    BY <1>5, <1>18, <2>1 DEF ReadTurn
<1>19. ASSUME NEW r \in Requests, req[r].pc \in {"again", "write"}, Reconciled(r),
              RowsOK', UNCHANGED <<n, tid, sessVars, canopyVars, faults>>
       PROVE  TypeInv'
  <2>1. CanopyOK' /\ Grows
    BY <1>0, <1>19 DEF CanopyOK, Grows, sessVars, canopyVars
  <2>2. CASE Goto(r, "resume")
    <3> DEFINE h == [req[r] EXCEPT !.pc = "resume"]
    <3>1. h \in Handlers /\ h.msg = req[r].msg /\ h.pc = "resume"
      BY <1>0 DEF Handlers, PCs
    <3>2. req' = [req EXCEPT ![r] = h] /\ req'[r] = h
      BY <2>2, <1>0 DEF Goto
    <3> HIDE DEF h
    <3>3. HandlerOK(r)'
      BY <1>0, <1>19, <3>1, <3>2 DEF HandlerOK, DispatchPCs
    <3>4. QED
      BY <1>0, <1>19, <2>1, <3>1, <3>2, <3>3, OneMoves DEF TypeInv
  <2>3. CASE End(r)
    BY <1>0, <1>19, <2>1, <2>3, EndMoves DEF TypeInv
  <2>4. QED
    BY <1>19, <2>2, <2>3 DEF Reconciled
<1>20. ASSUME NEW r \in Requests, LookAgain(r) PROVE TypeInv'
  <2>1. RowsOK'
    BY <1>0, <1>20 DEF LookAgain, RowsOK, Beats
  <2>2. CASE Reconciled(r)
    BY <1>19, <1>20, <2>1, <2>2 DEF LookAgain, At
  <2>3. CASE req' = [req EXCEPT ![r].pc = "write", ![r].msg = n]
    <3> DEFINE h == [req[r] EXCEPT !.pc = "write", !.msg = n]
    <3>1. h \in Handlers /\ h.msg = n /\ h.pc = "write" /\ h.seen = req[r].seen
      BY <1>0 DEF Handlers, PCs
    <3>2. req' = [req EXCEPT ![r] = h] /\ req'[r] = h
      BY <2>3, <1>0
    <3> HIDE DEF h
    <3>3. HandlerOK(r)'
      BY <1>0, <1>20, <3>1, <3>2 DEF LookAgain, At, HandlerOK, DispatchPCs
    <3>4. CanopyOK' /\ Grows
      BY <1>0, <1>20 DEF LookAgain, CanopyOK, Grows, sessVars, canopyVars
    <3>5. QED
      BY <1>0, <1>20, <2>1, <3>1, <3>2, <3>3, <3>4, OneMoves DEF LookAgain, TypeInv
  <2>4. QED
    BY <1>20, <2>2, <2>3 DEF LookAgain
<1>21. ASSUME NEW r \in Requests, WriteBack(r) PROVE TypeInv'
  <2> DEFINE m == req[r].msg
  <2>1. m \in 1..n /\ m \in Turns /\ status[m] # "none"
    BY <1>0, <1>21 DEF WriteBack, At, HandlerOK, Handlers, RowsOK
  <2>2. req[r].seen \in TurnStatuses \ {"none"}
    BY <1>0, <1>21 DEF WriteBack, At, HandlerOK, Handlers
  <2>3. Written(req[r].seen) \in {"streaming", "pending", "complete", "error"}
    BY <2>2 DEF Written, TurnStatuses, AliveTurn, TurnError
  <2>4. status' = [status EXCEPT ![m] = Written(req[r].seen)]
        /\ (detail' = detail \/ detail' = [detail EXCEPT ![m] = "canopy"])
        /\ aged' \subseteq aged
    BY <1>21 DEF WriteBack
  <2>5. status' \in [Turns -> Statuses] /\ \A k \in Turns : status'[k] # "none" <=> k <= n
    BY <1>0, <2>1, <2>3, <2>4 DEF RowsOK, Statuses
  <2>6. detail' \in [Turns -> Details] /\ aged' \subseteq Turns
    BY <1>0, <2>4 DEF RowsOK, Details
  <2>7. RowsOK'
    BY <1>0, <1>21, <2>5, <2>6 DEF WriteBack, RowsOK
  <2>8. QED
    BY <1>19, <1>21, <2>7 DEF WriteBack, At
<1>22. ASSUME UNCHANGED <<rowVars, sessVars, holder, tsess, req, faults>>,
              NEW m \in Turns, NEW t \in TurnStatuses \ {"none"}, turn' = [turn EXCEPT ![m] = t]
       PROVE  TypeInv'
  <2>1. RowsOK' /\ CanopyOK' /\ Grows
    BY <1>0, <1>22 DEF RowsOK, CanopyOK, Grows, rowVars, sessVars
  <2>2. QED
    BY <1>0, <1>22, <2>1, NobodyMoves DEF TypeInv
<1>23. ASSUME NEW m \in Turns, CanopyStep(m) PROVE TypeInv'
  BY <1>22, <1>23 DEF CanopyStep, Claim, Finish, Miss, TurnStatuses, AliveTurn, TurnError
<1>24. ASSUME BeatAges \/ \E m \in Turns : CompletionAges(m) PROVE TypeInv'
  <2>1. RowsOK'
    BY <1>0, <1>24 DEF BeatAges, CompletionAges, RowsOK, Older, Beats
  <2>2. CanopyOK' /\ Grows /\ UNCHANGED <<req, faults>>
    BY <1>0, <1>24 DEF BeatAges, CompletionAges, CanopyOK, Grows, sessVars, canopyVars
  <2>3. QED
    BY <1>0, <2>1, <2>2, NobodyMoves DEF TypeInv
<1>25. CASE UNCHANGED vars
  <2>1. RowsOK' /\ CanopyOK' /\ Grows /\ UNCHANGED <<req, faults>>
    BY <1>0, <1>25 DEF vars, RowsOK, CanopyOK, Grows, rowVars, sessVars, canopyVars
  <2>2. QED
    BY <1>0, <2>1, NobodyMoves DEF TypeInv
<1>26. QED
  BY <1>1, <1>3, <1>4, <1>7, <1>8, <1>9, <1>10, <1>11, <1>12, <1>13, <1>14, <1>15, <1>16,
     <1>17, <1>18, <1>20, <1>21, <1>23, <1>24, <1>25
     DEF Next, DispatchStep, ReconcileStep

\* The types, for any number of people, requests, turns and faults.
THEOREM TypeCorrect == Spec => []TypeOK
BY TypeInit, TypeNext, TypeInvTypes, PTL DEF Spec

-----------------------------------------------------------------------------
(* Whose canopy session a turn runs in.  The inductive invariant adds to   *)
(* NoBorrowedSession what the session row and each dispatching handler     *)
(* know of the session they will have the next turn sent into.             *)

SendOK(r) ==
  req[r].pc = "send" \/ (req[r].pc = "stop" /\ req[r].mine) =>
    req[r].loc # 0 /\ holder[req[r].loc] = who[req[r].msg]

SentOK(m) == turn[m] # "none" => m <= n /\ tsess[m] # 0 /\ holder[tsess[m]] = who[m]

RowOK == csid # 0 => holder[csid] = RowHolder

HoldersOK == \A c \in Turns : holder[c] # Nobody => c <= n /\ holder[c] = who[c]

SessionInv ==
  /\ HoldersOK /\ RowOK
  /\ \A m \in Turns : SentOK(m)
  /\ \A r \in Requests : SendOK(r)

\* A run without a canopy session holds nobody's.
LEMMA SessionInit == Init => SessionInv
BY DEF Init, SessionInv, HoldersOK, RowOK, SentOK, SendOK, Idle

\* A turn keeps its requester and a canopy session its creator.
Keeps ==
  /\ n \in Nat /\ n' \in Nat /\ n <= n'
  /\ \A m \in 1..n : who'[m] = who[m]
  /\ \A c \in Turns : holder[c] # Nobody => holder'[c] = holder[c]

\* A handler that does not move is still about to send into a session of its
\* turn's requester.
LEMMA SendKept ==
  ASSUME TypeInv, SessionInv, Keeps, NEW r \in Requests, req'[r] = req[r]
  PROVE  SendOK(r)'
<1>1. CASE req[r].pc = "send" \/ (req[r].pc = "stop" /\ req[r].mine)
  <2>1. req[r].loc # 0 /\ holder[req[r].loc] = who[req[r].msg]
    BY <1>1 DEF SessionInv, SendOK
  <2>2. req[r].msg \in 1..n /\ req[r].loc \in Turns
    BY <1>1, <2>1, RunDispatchAssumption
       DEF RunDispatchAssumption, TypeInv, HandlerOK, Handlers, DispatchPCs, Turns, RowsOK
  <2>3. who[req[r].msg] # Nobody
    BY <2>2, RunDispatchAssumption DEF RunDispatchAssumption, TypeInv, RowsOK
  <2>4. QED
    BY <2>1, <2>2, <2>3 DEF SendOK, Keeps
<1>2. QED
  BY <1>1 DEF SendOK

\* A turn that was sent stays in a session of its requester.
LEMMA SentKept ==
  ASSUME TypeInv, SessionInv, Keeps, NEW m \in Turns,
         turn[m] # "none" \/ turn'[m] = turn[m], tsess'[m] = tsess[m]
  PROVE  SentOK(m)'
<1>1. CASE turn[m] # "none"
  <2>1. m <= n /\ tsess[m] # 0 /\ holder[tsess[m]] = who[m]
    BY <1>1 DEF SessionInv, SentOK
  <2>2. m \in 1..n /\ tsess[m] \in Turns
    <3>1. tsess[m] \in 0..MaxTurns /\ n \in Nat
      BY DEF TypeInv, CanopyOK, Keeps
    <3>2. QED
      BY <2>1, <3>1, RunDispatchAssumption DEF RunDispatchAssumption, Turns
  <2>3. who[m] # Nobody
    BY <2>2, RunDispatchAssumption DEF RunDispatchAssumption, TypeInv, RowsOK
  <2>4. m <= n'
    BY <2>2 DEF Keeps
  <2>5. holder'[tsess[m]] = who'[m]
    BY <2>1, <2>2, <2>3 DEF Keeps
  <2>6. QED
    BY <2>1, <2>4, <2>5 DEF SentOK
<1>2. CASE turn[m] = "none"
  BY <1>2 DEF SentOK
<1>3. QED
  BY <1>1, <1>2

\* The row names the holder of the session it names, until somebody rewrites it.
LEMMA RowKept ==
  ASSUME TypeInv, SessionInv, Keeps, UNCHANGED sessVars
  PROVE  RowOK'
<1>1. csid # 0 => csid \in Turns /\ holder[csid] = RowHolder /\ RowHolder # Nobody
  BY RunDispatchAssumption
     DEF RunDispatchAssumption, TypeInv, CanopyOK, Turns, SessionInv, RowOK, RowHolder
<1>2. QED
  BY <1>1 DEF RowOK, RowHolder, Keeps, sessVars

\* A step that makes no canopy session keeps everything in place, but for the
\* turn it sends and the handler it moves.
LEMMA HoldersKept ==
  ASSUME TypeInv, SessionInv, Keeps, holder' = holder
  PROVE  HoldersOK'
<1>1. ASSUME NEW c \in Turns, holder[c] # Nobody PROVE c <= n' /\ holder[c] = who'[c]
  <2>1. c \in 1..n /\ holder[c] = who[c]
    BY <1>1, RunDispatchAssumption DEF RunDispatchAssumption, SessionInv, HoldersOK, Turns, Keeps
  <2>2. QED
    BY <2>1 DEF Keeps, Turns
<1>2. QED
  BY <1>1 DEF HoldersOK

\* No step breaks it; only Create, Load and Send touch what it is about.
LEMMA SessionNext == TypeInv /\ SessionInv /\ [Next]_vars => SessionInv'
<1> SUFFICES ASSUME TypeInv, SessionInv, [Next]_vars PROVE SessionInv'
  OBVIOUS
<1> USE RunDispatchAssumption DEF RunDispatchAssumption
<1>0. /\ RowsOK /\ CanopyOK /\ n \in Nat /\ req \in [Requests -> Handlers]
      /\ \A r \in Requests : HandlerOK(r) /\ req[r] \in Handlers
      /\ HoldersOK /\ RowOK
      /\ \A m \in Turns : SentOK(m)
      /\ \A r \in Requests : SendOK(r)
  BY DEF TypeInv, RowsOK, SessionInv
\* Steps in which canopy learns of no new session and no new turn, and at most
\* one handler moves, to a place where SendOK still holds.
<1>1. ASSUME Keeps, UNCHANGED <<sessVars, holder, tsess>>,
             \A m \in Turns : turn[m] # "none" \/ turn'[m] = turn[m],
             \A r \in Requests : req'[r] = req[r] \/ SendOK(r)'
      PROVE  SessionInv'
  BY <1>1, SendKept, SentKept, RowKept, HoldersKept DEF SessionInv
\* Any handler that is not about to send is in order.
<1>2. ASSUME NEW r \in Requests, req'[r].pc # "send", req'[r].pc # "stop" \/ ~req'[r].mine
      PROVE  SendOK(r)'
  BY <1>2 DEF SendOK
<1>3. ASSUME NEW r \in Requests, NEW m, Dispatching(r, m) PROVE SendOK(r)' /\ \A q \in Requests \ {r} : req'[q] = req[q]
  <2>1. req'[r].pc = "load"
    BY <1>0, <1>3 DEF Dispatching, Idle
  <2>2. \A q \in Requests \ {r} : req'[q] = req[q]
    BY <1>0, <1>3 DEF Dispatching
  <2>3. QED
    BY <1>2, <2>1, <2>2
<1>4. ASSUME NEW r \in Requests, End(r) PROVE SendOK(r)' /\ \A q \in Requests \ {r} : req'[q] = req[q]
  <2>1. req'[r].pc = "idle"
    BY <1>0, <1>4 DEF End, Idle
  <2>2. \A q \in Requests \ {r} : req'[q] = req[q]
    BY <1>0, <1>4 DEF End
  <2>3. QED
    BY <1>2, <2>1, <2>2
<1>5. ASSUME NEW r \in Requests, NEW p \in People, AppendResumeTurn(p), Dispatching(r, n + 1),
             UNCHANGED <<sessVars, canopyVars>>
      PROVE  SessionInv'
  <2>1. n \in Nat /\ n' = n + 1
    BY <1>0, <1>5 DEF AppendResumeTurn
  <2>2. \A m \in 1..n : who'[m] = who[m]
    BY <1>0, <1>5 DEF AppendResumeTurn, RowsOK, Turns
  <2>3. Keeps
    BY <1>5, <2>1, <2>2 DEF Keeps, canopyVars
  <2>4. QED
    BY <1>1, <1>3, <1>5, <2>3 DEF canopyVars
<1>6. ASSUME NEW r \in Requests, SeedRun(r) PROVE SessionInv'
  <2>1. Keeps
    BY <1>0, <1>6 DEF SeedRun, Keeps, canopyVars
  <2>2. QED
    BY <1>1, <1>3, <1>6, <2>1 DEF SeedRun, canopyVars
<1>7. ASSUME NEW r \in Requests, NEW p \in People, ClickResume(r, p) PROVE SessionInv'
  BY <1>5, <1>7 DEF ClickResume
<1>8. ASSUME NEW r \in Requests, SweepResume(r) PROVE SessionInv'
  BY <1>5, <1>8 DEF SweepResume
\* A handler moves to a step before or after the sending.
<1>9. ASSUME NEW r \in Requests, UNCHANGED <<n, who, sessVars, holder, tsess>>,
             \A m \in Turns : turn[m] # "none" \/ turn'[m] = turn[m],
             SendOK(r)', \A q \in Requests \ {r} : req'[q] = req[q]
      PROVE  SessionInv'
  <2>1. Keeps
    BY <1>0, <1>9 DEF Keeps
  <2>2. QED
    BY <1>1, <1>9, <2>1
<1>10. ASSUME NEW r \in Requests,
              SweepSelect(r) \/ SweepOutOfTurns(r) \/ CallFails(r) \/ Record(r) \/ Killed(r)
              \/ Reconcile(r) \/ Look(r) \/ ReadTurn(r) \/ LookAgain(r) \/ WriteBack(r)
       PROVE  SessionInv'
  <2>1. UNCHANGED <<n, who, sessVars, canopyVars>>
    BY <1>10 DEF SweepSelect, SweepOutOfTurns, CallFails, FailTurn, Record, Killed, Reconcile,
                 Look, ReadTurn, LookAgain, WriteBack, rowVars
  <2>2. \A q \in Requests \ {r} : req'[q] = req[q]
    BY <1>0, <1>10 DEF SweepSelect, SweepOutOfTurns, CallFails, Record, Killed, Reconcile,
                       Look, ReadTurn, LookAgain, WriteBack, Reconciled, End, Goto
  <2>3. req'[r].pc \in {"idle", "look", "resume", "read", "again", "write"}
    BY <1>0, <1>10 DEF SweepSelect, SweepOutOfTurns, CallFails, Record, Killed, Reconcile,
                       Look, ReadTurn, LookAgain, WriteBack, Reconciled, End, Goto, Idle, Handlers
  <2>4. SendOK(r)'
    BY <1>2, <2>3
  <2>5. QED
    BY <1>9, <2>1, <2>2, <2>4 DEF canopyVars
<1>11. ASSUME NEW r \in Requests, Load(r) PROVE SessionInv'
  <2>1. /\ req'[r].pc \in {"stop", "create"} /\ req'[r].mine = OwnSession(r)
        /\ req'[r].loc = csid /\ req'[r].msg = req[r].msg
        /\ \A q \in Requests \ {r} : req'[q] = req[q]
    BY <1>0, <1>11 DEF Load, Handlers
  <2>2. OwnSession(r) => csid # 0 /\ holder[csid] = who[req[r].msg]
    BY <1>0 DEF OwnSession, RowOK
  <2>3. SendOK(r)'
    BY <1>11, <2>1, <2>2 DEF SendOK, Load, rowVars, canopyVars
  <2>4. QED
    BY <1>9, <1>11, <2>1, <2>3 DEF Load, rowVars, canopyVars
<1>12. ASSUME NEW r \in Requests, Stop(r) PROVE SessionInv'
  <2>1. /\ req'[r].pc = IF req[r].mine THEN "send" ELSE "create"
        /\ req'[r].loc = req[r].loc /\ req'[r].msg = req[r].msg
        /\ \A q \in Requests \ {r} : req'[q] = req[q]
    BY <1>0, <1>12 DEF Stop, Goto, Handlers
  <2>2. req[r].mine => req[r].loc # 0 /\ holder[req[r].loc] = who[req[r].msg]
    BY <1>0, <1>12 DEF Stop, At, SendOK
  <2>3. SendOK(r)'
    BY <1>12, <2>1, <2>2 DEF SendOK, Stop, rowVars
  <2>4. \A m \in Turns : turn[m] # "none" \/ turn'[m] = turn[m]
    BY <1>0, <1>12 DEF Stop, Stopped, AliveTurn, CanopyOK
  <2>5. QED
    BY <1>9, <1>12, <2>1, <2>3, <2>4 DEF Stop, rowVars
<1>13. ASSUME NEW r \in Requests, Create(r) PROVE SessionInv'
  <2> DEFINE m == req[r].msg
  <2>1. m \in 1..n /\ m \in Turns /\ who[m] \in People
    BY <1>0, <1>13 DEF Create, At, HandlerOK, DispatchPCs, Handlers, Turns, RowsOK
  <2>2. /\ holder' = [holder EXCEPT ![m] = who[m]] /\ csid' = m
        /\ cactor' = RecordedActor(who[m]) /\ UNCHANGED <<n, who, turn, tsess>>
        /\ req'[r].loc = m /\ req'[r].msg = m /\ \A q \in Requests \ {r} : req'[q] = req[q]
    BY <1>0, <1>13 DEF Create, Handlers, rowVars
  <2>3. holder'[m] = who[m] /\ \A c \in Turns : c # m => holder'[c] = holder[c]
    BY <1>0, <2>1, <2>2 DEF CanopyOK
  <2>4. Keeps
    BY <1>0, <2>1, <2>2, <2>3 DEF Keeps, HoldersOK
  <2>5. RowOK'
    BY <2>1, <2>2, <2>3 DEF RowOK, RowHolder, RecordedActor
  <2>6. HoldersOK'
    BY <1>0, <2>1, <2>2, <2>3 DEF HoldersOK
  <2>7. \A k \in Turns : SentOK(k)'
    BY <2>2, <2>4, SentKept
  <2>8. SendOK(r)'
    BY <2>1, <2>2, <2>3 DEF SendOK
  <2>9. \A q \in Requests : SendOK(q)'
    BY <2>2, <2>4, <2>8, SendKept
  <2>10. QED
    BY <2>5, <2>6, <2>7, <2>9 DEF SessionInv
<1>14. ASSUME NEW r \in Requests, Send(r) PROVE SessionInv'
  <2> DEFINE m == req[r].msg
  <2>1. m \in 1..n /\ m \in Turns /\ req[r].loc # 0 /\ holder[req[r].loc] = who[m]
    BY <1>0, <1>14 DEF Send, At, HandlerOK, DispatchPCs, Handlers, Turns, RowsOK, SendOK
  <2>2. /\ turn' = [turn EXCEPT ![m] = "queued"] /\ tsess' = [tsess EXCEPT ![m] = req[r].loc]
        /\ UNCHANGED <<n, who, sessVars, holder>>
    BY <1>14 DEF Send, FailTurn, rowVars
  <2>3. req'[r].pc \in {"record", "idle"} /\ \A q \in Requests \ {r} : req'[q] = req[q]
    BY <1>0, <1>14 DEF Send, Goto, End, Idle, Handlers
  <2>4. Keeps
    BY <1>0, <2>2 DEF Keeps
  <2>5. ASSUME NEW k \in Turns, k = m PROVE SentOK(k)'
    <3>1. tsess'[k] = req[r].loc
      BY <1>0, <2>2, <2>5 DEF CanopyOK
    <3>2. k <= n' /\ holder'[req[r].loc] = who'[k]
      BY <1>0, <2>1, <2>2, <2>5
    <3>3. QED
      BY <2>1, <3>1, <3>2 DEF SentOK
  <2>6. ASSUME NEW k \in Turns, k # m PROVE SentOK(k)'
    <3>1. turn'[k] = turn[k] /\ tsess'[k] = tsess[k]
      BY <1>0, <2>2, <2>6 DEF CanopyOK
    <3>2. QED
      BY <2>4, <3>1, SentKept
  <2>7. \A k \in Turns : SentOK(k)'
    BY <2>5, <2>6
  <2>8. SendOK(r)'
    BY <1>2, <2>3
  <2>9. \A q \in Requests : SendOK(q)'
    BY <2>3, <2>4, <2>8, SendKept
  <2>10. QED
    BY <2>2, <2>4, <2>7, <2>9, RowKept, HoldersKept DEF SessionInv
<1>15. ASSUME \/ \E m \in Turns : CanopyStep(m) \/ CompletionAges(m)
              \/ BeatAges
              \/ UNCHANGED vars
       PROVE  SessionInv'
  <2>1. UNCHANGED <<n, who, sessVars, holder, tsess, req>>
    BY <1>15 DEF CanopyStep, Claim, Finish, Miss, CompletionAges, BeatAges, vars,
                 rowVars, canopyVars
  <2>2. \A k \in Turns : turn[k] # "none" \/ turn'[k] = turn[k]
    BY <1>0, <1>15 DEF CanopyStep, Claim, Finish, Miss, CompletionAges, BeatAges, vars,
                       canopyVars, CanopyOK
  <2>3. Keeps
    BY <1>0, <2>1 DEF Keeps
  <2>4. QED
    BY <1>1, <2>1, <2>2, <2>3
<1>16. QED
  BY <1>6, <1>7, <1>8, <1>10, <1>11, <1>12, <1>13, <1>14, <1>15
     DEF Next, DispatchStep, ReconcileStep

\* dispatch_turn never sends a turn into a canopy session that somebody else
\* created, however resumes by different people, the sweep, failed calls and
\* killed requests interleave.
THEOREM NeverBorrows == Spec => []NoBorrowedSession
<1>1. SessionInv => NoBorrowedSession
  BY DEF SessionInv, SentOK, NoBorrowedSession
<1>2. QED
  BY <1>1, TypeInit, TypeNext, SessionInit, SessionNext, PTL DEF Spec

-----------------------------------------------------------------------------
(* Requests that come one at a time: what dispatch and reconcile take for  *)
(* granted, and no lock makes true.  Calls may still fail and any request  *)
(* may be killed, half way or before its first step.                       *)

OneByOne == \A a, b \in Requests : a = b

Over == {"done"} \cup TurnError

\* What a handler that nobody overtakes knows: its session is the run's, the
\* row it dispatches is still pending, the turn it read is the newest one, and
\* a turn it saw over is over.
AloneOK(r) ==
  /\ req[r].pc \in {"stop", "send"} => req[r].loc = csid
  /\ req[r].pc \in {"load", "stop", "create", "send"} => status[req[r].msg] = "pending"
  /\ req[r].pc \in {"read", "again", "write"} => req[r].msg = n /\ n \in tid
  /\ req[r].pc \in {"again", "write"} /\ req[r].seen \in Over => turn[n] = req[r].seen
  /\ req[r].pc = "resume" => ~(n \in tid /\ turn[n] \in AliveTurn)

\* No turn is sent before the row names a session.
NoneBefore == csid = 0 => \A m \in Turns : turn[m] \notin AliveTurn

SerialInv ==
  /\ VerdictMatchesTurn /\ NoneBefore
  /\ \A r \in Requests : AloneOK(r)

\* A run that canopy has not seen has no turn alive and no verdict.
LEMMA SerialInit == Init => SerialInv
<1> SUFFICES ASSUME Init PROVE SerialInv
  OBVIOUS
<1>1. \A m \in Turns : turn[m] = "none"
  BY DEF Init
<1>2. \A m \in Turns : status[m] # "complete" /\ (status[m] = "error" => detail[m] # "canopy")
  BY DEF Init, FirstTurn
<1>3. \A r \in Requests : req[r].pc = "idle"
  BY DEF Init, Idle
<1>4. NoneBefore
  BY <1>1 DEF NoneBefore, AliveTurn
<1>5. VerdictMatchesTurn
  BY <1>2 DEF VerdictMatchesTurn
<1>6. QED
  BY <1>3, <1>4, <1>5 DEF SerialInv, AloneOK

\* A verdict stands while canopy's verdicts do and no new one is written.
LEMMA VerdictsKept ==
  ASSUME VerdictMatchesTurn,
         \A m \in Turns : turn[m] \in Over => turn'[m] = turn[m],
         \A m \in Turns : status'[m] = "complete" => status[m] = "complete",
         \A m \in Turns : status'[m] = "error" /\ detail'[m] = "canopy"
                            => status[m] = "error" /\ detail[m] = "canopy"
  PROVE  VerdictMatchesTurn'
BY DEF VerdictMatchesTurn, Over

\* No step of a lone request, of canopy or of the clock breaks it.
LEMMA SerialNext ==
  ASSUME OneByOne
  PROVE  TypeInv /\ SessionInv /\ SerialInv /\ [Next]_vars => SerialInv'
<1> SUFFICES ASSUME TypeInv, SessionInv, SerialInv, [Next]_vars PROVE SerialInv'
  OBVIOUS
<1> USE RunDispatchAssumption DEF RunDispatchAssumption
<1>0. /\ RowsOK /\ CanopyOK /\ n \in Nat /\ req \in [Requests -> Handlers]
      /\ \A r \in Requests : HandlerOK(r) /\ req[r] \in Handlers /\ AloneOK(r) /\ SendOK(r)
      /\ VerdictMatchesTurn /\ NoneBefore
  BY DEF TypeInv, RowsOK, SessionInv, SerialInv
<1>1. ASSUME NEW r \in Requests, VerdictMatchesTurn', NoneBefore', AloneOK(r)'
      PROVE  SerialInv'
  BY <1>1 DEF OneByOne, SerialInv
\* Steps that write no verdict and that canopy does not notice.
<1>2. ASSUME NEW r \in Requests, UNCHANGED <<csid, turn>>, AloneOK(r)',
             \A m \in Turns : status'[m] = "complete" => status[m] = "complete",
             \A m \in Turns : status'[m] = "error" /\ detail'[m] = "canopy"
                                => status[m] = "error" /\ detail[m] = "canopy"
      PROVE  SerialInv'
  <2>1. NoneBefore'
    BY <1>0, <1>2 DEF NoneBefore
  <2>2. VerdictMatchesTurn'
    BY <1>0, <1>2, VerdictsKept
  <2>3. QED
    BY <1>1, <1>2, <2>1, <2>2
\* A handler with nothing to know.
<1>3. ASSUME NEW r \in Requests, req'[r].pc \in {"idle", "look", "record"}
      PROVE  AloneOK(r)'
  BY <1>3 DEF AloneOK
<1>4. ASSUME NEW r \in Requests, NEW m, Dispatching(r, m), status'[m] = "pending"
      PROVE  AloneOK(r)'
  <2>1. req'[r].pc = "load" /\ req'[r].msg = m
    BY <1>0, <1>4 DEF Dispatching, Idle
  <2>2. QED
    BY <1>4, <2>1 DEF AloneOK
<1>5. ASSUME NEW r \in Requests, End(r) PROVE req'[r].pc = "idle" /\ AloneOK(r)'
  <2>1. req'[r].pc = "idle"
    BY <1>0, <1>5 DEF End, Idle
  <2>2. QED
    BY <1>3, <2>1
<1>6. ASSUME NEW r \in Requests, NEW p \in People, AppendResumeTurn(p), Dispatching(r, n + 1),
             UNCHANGED <<sessVars, canopyVars>>
      PROVE  SerialInv'
  <2>1. n + 1 \in Turns /\ status'[n + 1] = "pending"
    BY <1>0, <1>6 DEF AppendResumeTurn, Turns
  <2>2. AloneOK(r)'
    BY <1>4, <1>6, <2>1
  <2>3. ASSUME NEW m \in Turns, status'[m] = "complete" PROVE status[m] = "complete"
    BY <1>6, <2>3 DEF AppendResumeTurn
  <2>4. ASSUME NEW m \in Turns, status'[m] = "error", detail'[m] = "canopy"
        PROVE  status[m] = "error" /\ detail[m] = "canopy"
    BY <1>6, <2>4 DEF AppendResumeTurn
  <2>5. QED
    BY <1>2, <1>6, <2>2, <2>3, <2>4 DEF sessVars, canopyVars
<1>7. ASSUME NEW r \in Requests, NEW p \in People, ClickResume(r, p) PROVE SerialInv'
  BY <1>6, <1>7 DEF ClickResume
<1>8. ASSUME NEW r \in Requests, SweepResume(r) PROVE SerialInv'
  BY <1>6, <1>8 DEF SweepResume
<1>9. ASSUME NEW r \in Requests, SeedRun(r) PROVE SerialInv'
  <2>1. 1 \in Turns /\ status' = [status EXCEPT ![1] = "pending"] /\ detail' = detail
    BY <1>9 DEF SeedRun, Turns
  <2>2. status'[1] = "pending" /\ \A m \in Turns : m # 1 => status'[m] = status[m]
    BY <1>0, <2>1 DEF RowsOK
  <2>3. AloneOK(r)'
    BY <1>4, <1>9, <2>2 DEF SeedRun
  <2>4. \A m \in Turns : status'[m] \in {"complete", "error"} => status[m] = status'[m]
    BY <2>2
  <2>5. QED
    BY <1>2, <1>9, <2>1, <2>3, <2>4 DEF SeedRun, sessVars, canopyVars
\* Steps that write nothing but a beacon.
<1>10. ASSUME NEW r \in Requests, AloneOK(r)', UNCHANGED <<status, detail, sessVars, canopyVars>>
       PROVE  SerialInv'
  BY <1>2, <1>10 DEF sessVars, canopyVars
<1>11. ASSUME NEW r \in Requests, SweepSelect(r) PROVE SerialInv'
  <2>1. req'[r].pc = IF csid # 0 THEN "look" ELSE "resume"
    BY <1>0, <1>11 DEF SweepSelect, Handlers
  <2>2. csid = 0 => \A m \in Turns : turn[m] \notin AliveTurn
    BY <1>0 DEF NoneBefore
  <2>3. n \in tid => n \in Turns
    BY <1>0 DEF RowsOK, Turns
  <2>4. AloneOK(r)'
    BY <1>3, <1>11, <2>1, <2>2, <2>3 DEF AloneOK, SweepSelect, rowVars, canopyVars
  <2>5. QED
    BY <1>10, <1>11, <2>4 DEF SweepSelect, rowVars
<1>12. ASSUME NEW r \in Requests, SweepOutOfTurns(r) \/ Record(r) \/ Killed(r) PROVE SerialInv'
  BY <1>5, <1>10, <1>12 DEF SweepOutOfTurns, Record, Killed, rowVars
<1>13. ASSUME NEW r \in Requests, Reconcile(r) PROVE SerialInv'
  <2>1. req'[r].pc = "look"
    BY <1>0, <1>13 DEF Reconcile, Goto, Handlers
  <2>2. QED
    BY <1>3, <1>10, <1>13, <2>1 DEF Reconcile, rowVars
<1>14. ASSUME NEW r \in Requests, CallFails(r) PROVE SerialInv'
  <2> DEFINE m == req[r].msg
  <2>1. /\ status' = [status EXCEPT ![m] = "error"] /\ detail' = [detail EXCEPT ![m] = "dispatch"]
        /\ End(r) /\ UNCHANGED <<sessVars, canopyVars>>
    BY <1>14 DEF CallFails, FailTurn
  <2>2. \A k \in Turns : k # m => status'[k] = status[k] /\ detail'[k] = detail[k]
    BY <1>0, <2>1 DEF RowsOK
  <2>3. \A k \in Turns : k = m => status'[k] = "error" /\ detail'[k] = "dispatch"
    BY <1>0, <2>1 DEF RowsOK
  <2>4. AloneOK(r)'
    BY <1>5, <2>1
  <2>5. QED
    BY <1>2, <2>1, <2>2, <2>3, <2>4 DEF sessVars, canopyVars
<1>15. ASSUME NEW r \in Requests, Load(r) PROVE SerialInv'
  <2>1. /\ req'[r].pc = IF csid # 0 THEN "stop" ELSE "create"
        /\ req'[r].loc = csid /\ req'[r].msg = req[r].msg
    BY <1>0, <1>15 DEF Load, Handlers
  <2>2. csid = 0 => \A m \in Turns : turn[m] \notin AliveTurn
    BY <1>0 DEF NoneBefore
  <2>3. status[req[r].msg] = "pending"
    BY <1>0, <1>15 DEF Load, At, AloneOK
  <2>4. AloneOK(r)'
    BY <1>15, <2>1, <2>2, <2>3 DEF AloneOK, Load, rowVars, sessVars, canopyVars
  <2>5. QED
    BY <1>10, <1>15, <2>4 DEF Load, rowVars
<1>16. ASSUME NEW r \in Requests, Stop(r) PROVE SerialInv'
  <2>1. /\ req'[r].pc \in {"send", "create"}
        /\ req'[r].loc = req[r].loc /\ req'[r].msg = req[r].msg
    BY <1>0, <1>16 DEF Stop, Goto, Handlers
  <2>2. /\ req[r].loc = csid /\ status[req[r].msg] = "pending"
        /\ turn' \in {turn, Stopped(csid)} /\ UNCHANGED <<rowVars, sessVars>>
    BY <1>0, <1>16 DEF Stop, At, AloneOK
  <2>3. AloneOK(r)'
    BY <2>1, <2>2 DEF AloneOK, rowVars, sessVars
  <2>4. \A m \in Turns : turn'[m] = turn[m] \/ (turn[m] \in AliveTurn /\ turn'[m] = "cancelled")
    BY <2>2 DEF Stopped
  <2>5. \A m \in Turns : turn[m] \in Over => turn'[m] = turn[m]
    BY <2>4 DEF Over, TurnError, AliveTurn
  <2>6. VerdictMatchesTurn'
    BY <1>0, <2>2, <2>5, VerdictsKept DEF rowVars
  <2>7. NoneBefore'
    BY <1>0, <2>2, <2>4 DEF NoneBefore, sessVars, AliveTurn
  <2>8. QED
    BY <1>1, <2>3, <2>6, <2>7
<1>17. ASSUME NEW r \in Requests, Create(r) PROVE SerialInv'
  <2>1. /\ req'[r].pc = "send" /\ req'[r].loc = csid' /\ req'[r].msg = req[r].msg
        /\ csid' = req[r].msg
    BY <1>0, <1>17 DEF Create, Handlers
  <2>2. /\ status[req[r].msg] = "pending" /\ req[r].msg # 0 /\ UNCHANGED <<rowVars, turn>>
    BY <1>0, <1>17 DEF Create, At, AloneOK, HandlerOK, DispatchPCs
  <2>3. AloneOK(r)'
    BY <2>1, <2>2 DEF AloneOK, rowVars
  <2>4. NoneBefore'
    BY <2>1, <2>2 DEF NoneBefore
  <2>5. VerdictMatchesTurn'
    BY <1>0, <2>2, VerdictsKept DEF rowVars
  <2>6. QED
    BY <1>1, <2>3, <2>4, <2>5
<1>18. ASSUME NEW r \in Requests, Send(r) PROVE SerialInv'
  <2> DEFINE m == req[r].msg
  <2>1. m \in Turns /\ csid # 0 /\ status[m] = "pending"
    BY <1>0, <1>18 DEF Send, At, AloneOK, SendOK, HandlerOK, DispatchPCs, Handlers, Turns
  <2>2. turn' = [turn EXCEPT ![m] = "queued"] /\ csid' = csid
    BY <1>18, <2>1 DEF Send, sessVars
  <2>3. \A k \in Turns : k # m => turn'[k] = turn[k]
    BY <1>0, <2>1, <2>2 DEF CanopyOK
  <2>4. NoneBefore'
    BY <2>1, <2>2 DEF NoneBefore
  <2>5. CASE Goto(r, "record") /\ UNCHANGED <<rowVars, faults>>
    <3>1. VerdictMatchesTurn'
      BY <1>0, <2>1, <2>3, <2>5 DEF VerdictMatchesTurn, rowVars
    <3>2. req'[r].pc = "record"
      BY <1>0, <2>5 DEF Goto, Handlers
    <3>3. QED
      BY <1>1, <1>3, <2>4, <3>1, <3>2
  <2>6. CASE Fault /\ FailTurn(m) /\ End(r)
    <3>1. /\ status'[m] = "error" /\ detail'[m] = "dispatch"
          /\ \A k \in Turns : k # m => status'[k] = status[k] /\ detail'[k] = detail[k]
      BY <1>0, <2>1, <2>6 DEF FailTurn, RowsOK
    <3>2. VerdictMatchesTurn'
      BY <1>0, <2>1, <2>3, <3>1 DEF VerdictMatchesTurn
    <3>3. QED
      BY <1>1, <1>5, <2>4, <2>6, <3>2
  <2>7. QED
    BY <1>18, <2>5, <2>6 DEF Send
<1>19. ASSUME NEW r \in Requests, Look(r) PROVE SerialInv'
  <2>1. CASE n \in tid /\ req' = [req EXCEPT ![r].pc = "read", ![r].msg = n]
    <3>1. req'[r].pc = "read" /\ req'[r].msg = n
      BY <1>0, <2>1 DEF Handlers
    <3>2. AloneOK(r)'
      BY <1>19, <2>1, <3>1 DEF Look, AloneOK, rowVars
    <3>3. QED
      BY <1>10, <1>19, <3>2 DEF Look, rowVars
  <2>2. CASE n \notin tid /\ Goto(r, "resume")
    <3>1. req'[r].pc = "resume"
      BY <1>0, <2>2 DEF Goto, Handlers
    <3>2. AloneOK(r)'
      BY <1>19, <2>2, <3>1 DEF Look, AloneOK, rowVars
    <3>3. QED
      BY <1>10, <1>19, <3>2 DEF Look, rowVars
  <2>3. CASE End(r)
    BY <1>5, <1>10, <1>19, <2>3 DEF Look, rowVars
  <2>4. QED
    BY <1>19, <2>1, <2>2, <2>3 DEF Look
<1>20. ASSUME NEW r \in Requests, ReadTurn(r) PROVE SerialInv'
  <2>0. req[r].msg = n /\ n \in tid
    BY <1>0, <1>20 DEF ReadTurn, At, AloneOK
  <2>1. CASE req' = [req EXCEPT ![r].pc = "again", ![r].seen = turn[req[r].msg]]
    <3>1. req'[r].pc = "again" /\ req'[r].seen = turn[n] /\ req'[r].msg = n
      BY <1>0, <2>0, <2>1 DEF Handlers
    <3>2. AloneOK(r)'
      BY <1>20, <2>0, <3>1 DEF ReadTurn, AloneOK, rowVars, canopyVars
    <3>3. QED
      BY <1>10, <1>20, <3>2 DEF ReadTurn, rowVars
  <2>2. CASE End(r)
    BY <1>5, <1>10, <1>20, <2>2 DEF ReadTurn, rowVars
  <2>3. QED
    BY <1>20, <2>1, <2>2 DEF ReadTurn
\* Whoever reconciled ends, or is a sweep that saw the newest turn over.
<1>21. ASSUME NEW r \in Requests, At(r, "again") \/ At(r, "write"), Reconciled(r),
              UNCHANGED <<n, tid, turn>>
       PROVE  AloneOK(r)'
  <2>1. CASE SweepGoesOn(req[r].seen) /\ Goto(r, "resume")
    <3>1. req[r].seen \in Over
      BY <1>0, <1>21, <2>1
         DEF At, HandlerOK, Handlers, SweepGoesOn, Over, TurnStatuses
    <3>2. turn[n] = req[r].seen
      BY <1>0, <1>21, <3>1 DEF At, AloneOK
    <3>3. req'[r].pc = "resume"
      BY <1>0, <2>1 DEF Goto, Handlers
    <3>4. QED
      BY <1>21, <3>1, <3>2, <3>3 DEF AloneOK, Over, TurnError, AliveTurn
  <2>2. CASE End(r)
    BY <1>5, <2>2
  <2>3. QED
    BY <1>21, <2>1, <2>2 DEF Reconciled
<1>22. ASSUME NEW r \in Requests, LookAgain(r) PROVE SerialInv'
  <2>1. UNCHANGED <<n, status, detail, tid, sessVars, canopyVars>> /\ At(r, "again")
    BY <1>22 DEF LookAgain
  <2>2. CASE Reconciled(r)
    BY <1>10, <1>21, <2>1, <2>2 DEF canopyVars
  <2>3. CASE req' = [req EXCEPT ![r].pc = "write", ![r].msg = n]
    <3>1. req'[r].pc = "write" /\ req'[r].msg = n /\ req'[r].seen = req[r].seen
      BY <1>0, <2>3 DEF Handlers
    <3>2. n \in tid /\ (req[r].seen \in Over => turn[n] = req[r].seen)
      BY <1>0, <2>1 DEF At, AloneOK
    <3>3. AloneOK(r)'
      BY <2>1, <3>1, <3>2 DEF AloneOK, canopyVars
    <3>4. QED
      BY <1>10, <2>1, <3>3
  <2>4. QED
    BY <1>22, <2>2, <2>3 DEF LookAgain
<1>23. ASSUME NEW r \in Requests, WriteBack(r) PROVE SerialInv'
  <2> DEFINE s == req[r].seen
  <2>1. /\ At(r, "write") /\ req[r].msg = n /\ n \in tid /\ n \in Turns
        /\ s \in AliveTurn \cup Over /\ (s \in Over => turn[n] = s)
    BY <1>0, <1>23 DEF WriteBack, At, AloneOK, HandlerOK, Handlers, TurnStatuses, Over, RowsOK, Turns
  <2>2. /\ status' = [status EXCEPT ![n] = Written(s)]
        /\ detail' = IF s \in TurnError THEN [detail EXCEPT ![n] = "canopy"] ELSE detail
        /\ Reconciled(r) /\ UNCHANGED <<n, tid, sessVars, canopyVars>>
    BY <1>23, <2>1 DEF WriteBack
  <2>3. /\ status'[n] = Written(s)
        /\ \A k \in Turns : k # n => status'[k] = status[k] /\ detail'[k] = detail[k]
    BY <1>0, <2>1, <2>2 DEF RowsOK
  <2>4. Written(s) = "complete" => s = "done"
    BY <2>1 DEF Written, AliveTurn, Over, TurnError
  <2>5. Written(s) = "error" => s \in TurnError
    BY <2>1 DEF Written, AliveTurn, Over, TurnError
  <2>6. VerdictMatchesTurn'
    BY <1>0, <2>1, <2>2, <2>3, <2>4, <2>5 DEF VerdictMatchesTurn, Over, canopyVars
  <2>7. AloneOK(r)'
    BY <1>21, <2>1, <2>2 DEF canopyVars
  <2>8. NoneBefore'
    BY <1>0, <2>2 DEF NoneBefore, sessVars, canopyVars
  <2>9. QED
    BY <1>1, <2>6, <2>7, <2>8
\* canopy and the clock: a turn that is over stays so, and none comes alive.
<1>24. ASSUME UNCHANGED <<n, tid, csid, req, status, detail>>,
              \A m \in Turns : turn[m] \in Over => turn'[m] = turn[m],
              \A m \in Turns : turn'[m] \in AliveTurn => turn[m] \in AliveTurn
       PROVE  SerialInv'
  <2>1. NoneBefore'
    BY <1>0, <1>24 DEF NoneBefore
  <2>2. VerdictMatchesTurn'
    BY <1>0, <1>24, VerdictsKept
  <2>3. n \in tid => n \in Turns
    BY <1>0 DEF RowsOK, Turns
  <2>4. ASSUME NEW r \in Requests PROVE AloneOK(r)'
    <3>1. AloneOK(r)
      BY <1>0
    <3>2. QED
      BY <1>24, <2>3, <3>1 DEF AloneOK
  <2>5. QED
    BY <2>1, <2>2, <2>4 DEF SerialInv
<1>25. ASSUME NEW m \in Turns, CanopyStep(m) PROVE SerialInv'
  <2>1. turn[m] \in AliveTurn /\ \E t : turn' = [turn EXCEPT ![m] = t]
    BY <1>25 DEF CanopyStep, Claim, Finish, Miss, AliveTurn
  <2>2. \A k \in Turns : k # m => turn'[k] = turn[k]
    BY <1>0, <2>1 DEF CanopyOK
  <2>3. UNCHANGED <<n, tid, csid, req, status, detail>>
    BY <1>25 DEF CanopyStep, Claim, Finish, Miss, rowVars, sessVars
  <2>4. turn[m] \notin Over
    BY <2>1 DEF AliveTurn, Over, TurnError
  <2>5. QED
    BY <1>24, <2>1, <2>2, <2>3, <2>4
<1>26. CASE BeatAges \/ (\E m \in Turns : CompletionAges(m)) \/ UNCHANGED vars
  <2>1. UNCHANGED <<n, tid, csid, turn, req, status, detail>>
    BY <1>26 DEF BeatAges, CompletionAges, vars, rowVars, sessVars, canopyVars
  <2>2. QED
    BY <1>24, <2>1
<1>27. QED
  BY <1>7, <1>8, <1>9, <1>11, <1>12, <1>13, <1>14, <1>15, <1>16, <1>17, <1>18, <1>19, <1>20,
     <1>22, <1>23, <1>25, <1>26
     DEF Next, DispatchStep, ReconcileStep

\* Requests that come one at a time keep it, from the start.
LEMMA SerialCorrect == OneByOne => (Spec => []SerialInv)
<1> SUFFICES ASSUME OneByOne PROVE Spec => []SerialInv
  OBVIOUS
<1>1. TypeInv /\ SessionInv /\ SerialInv /\ [Next]_vars => SerialInv'
  BY SerialNext
<1>2. QED
  BY <1>1, TypeInit, TypeNext, SessionInit, SessionNext, SerialInit, PTL DEF Spec

-----------------------------------------------------------------------------
(* One turn at a time needs more: that a stop does not fail.               *)

\* A turn that is alive is in the session the row names, ...
AliveHere == \A m \in Turns : turn[m] \in AliveTurn => tsess[m] = csid

\* ... and none is once the handler has stopped that session.
Stilled(r) ==
  req[r].pc \in {"create", "send"} => \A m \in Turns : turn[m] \notin AliveTurn

LiveInv == OneLiveTurn /\ AliveHere /\ \A r \in Requests : Stilled(r)

\* A run that canopy has not seen has no turn alive.
LEMMA LiveInit == Init => LiveInv
<1> SUFFICES ASSUME Init PROVE LiveInv
  OBVIOUS
<1>1. \A m \in Turns : turn[m] \notin AliveTurn
  BY DEF Init, AliveTurn
<1>2. QED
  BY <1>1 DEF Init, Idle, LiveInv, OneLiveTurn, AliveHere, Stilled

\* Turns that end leave one turn alive, where it was, ...
LEMMA AliveKept ==
  ASSUME OneLiveTurn, AliveHere, UNCHANGED <<csid, tsess>>,
         \A m \in Turns : turn'[m] \in AliveTurn => turn[m] \in AliveTurn
  PROVE  OneLiveTurn' /\ AliveHere'
BY DEF OneLiveTurn, AliveHere

\* ... and with none alive it does not matter where.
LEMMA NoneAlive ==
  ASSUME \A m \in Turns : turn'[m] \notin AliveTurn
  PROVE  OneLiveTurn' /\ AliveHere' /\ \A r \in Requests : Stilled(r)'
BY DEF OneLiveTurn, AliveHere, Stilled

\* No step of a lone request breaks it, whose stops do what they say.
LEMMA LiveNext ==
  ASSUME OneByOne, ~StopFails
  PROVE  TypeInv /\ SessionInv /\ SerialInv /\ LiveInv /\ [Next]_vars => LiveInv'
<1> SUFFICES ASSUME TypeInv, SessionInv, SerialInv, LiveInv, [Next]_vars PROVE LiveInv'
  OBVIOUS
<1> USE RunDispatchAssumption DEF RunDispatchAssumption
<1>0. /\ CanopyOK /\ req \in [Requests -> Handlers]
      /\ \A r \in Requests : HandlerOK(r) /\ req[r] \in Handlers
      /\ \A r \in Requests : AloneOK(r) /\ Stilled(r)
      /\ NoneBefore /\ OneLiveTurn /\ AliveHere
  BY DEF TypeInv, SerialInv, LiveInv
\* Steps canopy does not notice, but for those that come to create or send.
<1>1. ASSUME NEW r \in Requests, UNCHANGED <<csid, turn, tsess>>,
             req'[r].pc \notin {"create", "send"}
      PROVE  LiveInv'
  <2>1. OneLiveTurn' /\ AliveHere'
    BY <1>0, <1>1, AliveKept
  <2>2. \A q \in Requests : q = r
    BY DEF OneByOne
  <2>3. Stilled(r)'
    BY <1>1 DEF Stilled
  <2>4. QED
    BY <2>1, <2>2, <2>3 DEF LiveInv
<1>2. ASSUME NEW r \in Requests, NEW m, Dispatching(r, m), UNCHANGED <<sessVars, canopyVars>>
      PROVE  LiveInv'
  <2>1. req'[r].pc = "load"
    BY <1>0, <1>2 DEF Dispatching, Idle
  <2>2. QED
    BY <1>1, <1>2, <2>1 DEF sessVars, canopyVars
<1>3. ASSUME NEW r \in Requests,
             SeedRun(r) \/ SweepResume(r) \/ \E p \in People : ClickResume(r, p)
      PROVE  LiveInv'
  BY <1>2, <1>3 DEF SeedRun, SweepResume, ClickResume
<1>4. ASSUME NEW r \in Requests,
             SweepSelect(r) \/ SweepOutOfTurns(r) \/ CallFails(r) \/ Record(r) \/ Killed(r)
             \/ Reconcile(r) \/ Look(r) \/ ReadTurn(r) \/ LookAgain(r) \/ WriteBack(r)
      PROVE  LiveInv'
  <2>1. UNCHANGED <<sessVars, canopyVars>>
    BY <1>4 DEF SweepSelect, SweepOutOfTurns, CallFails, Record, Killed, Reconcile,
                Look, ReadTurn, LookAgain, WriteBack
  <2>2. req'[r].pc \in {"idle", "look", "resume", "read", "again", "write"}
    BY <1>0, <1>4 DEF SweepSelect, SweepOutOfTurns, CallFails, Record, Killed, Reconcile,
                      Look, ReadTurn, LookAgain, WriteBack, Reconciled, End, Goto, Idle, Handlers
  <2>3. QED
    BY <1>1, <2>1, <2>2 DEF sessVars, canopyVars
<1>5. ASSUME NEW r \in Requests, Load(r) PROVE LiveInv'
  <2>1. /\ req'[r].pc = IF csid # 0 THEN "stop" ELSE "create"
        /\ UNCHANGED <<sessVars, canopyVars>>
    BY <1>0, <1>5 DEF Load, Handlers
  <2>2. CASE csid = 0
    <3>1. \A m \in Turns : turn'[m] \notin AliveTurn
      BY <1>0, <2>1, <2>2 DEF NoneBefore, canopyVars
    <3>2. QED
      BY <3>1, NoneAlive DEF LiveInv
  <2>3. CASE csid # 0
    BY <1>1, <2>1, <2>3 DEF sessVars, canopyVars
  <2>4. QED
    BY <2>2, <2>3
<1>6. ASSUME NEW r \in Requests, Stop(r) PROVE LiveInv'
  <2>1. turn' = Stopped(csid)
    BY <1>0, <1>6 DEF Stop, At, AloneOK
  <2>2. \A m \in Turns : turn'[m] \notin AliveTurn
    BY <1>0, <2>1 DEF Stopped, AliveHere, AliveTurn
  <2>3. QED
    BY <2>2, NoneAlive DEF LiveInv
<1>7. ASSUME NEW r \in Requests, Create(r) PROVE LiveInv'
  <2>1. \A m \in Turns : turn'[m] \notin AliveTurn
    BY <1>0, <1>7 DEF Create, At, Stilled
  <2>2. QED
    BY <2>1, NoneAlive DEF LiveInv
<1>8. ASSUME NEW r \in Requests, Send(r) PROVE LiveInv'
  <2> DEFINE m == req[r].msg
  <2>1. /\ m \in Turns /\ req[r].loc = csid
        /\ \A k \in Turns : turn[k] \notin AliveTurn
    BY <1>0, <1>8 DEF Send, At, AloneOK, Stilled, HandlerOK, DispatchPCs, Handlers, Turns, TypeInv, RowsOK
  <2>2. /\ turn' = [turn EXCEPT ![m] = "queued"] /\ tsess' = [tsess EXCEPT ![m] = csid]
        /\ csid' = csid
    BY <1>8, <2>1 DEF Send, sessVars
  <2>3. /\ tsess'[m] = csid
        /\ \A k \in Turns : k # m => turn'[k] = turn[k]
    BY <1>0, <2>1, <2>2 DEF CanopyOK
  <2>4. OneLiveTurn' /\ AliveHere'
    BY <2>1, <2>2, <2>3 DEF OneLiveTurn, AliveHere
  <2>5. req'[r].pc \in {"record", "idle"}
    BY <1>0, <1>8 DEF Send, Goto, End, Idle, Handlers
  <2>6. \A q \in Requests : Stilled(q)'
    BY <2>5 DEF OneByOne, Stilled
  <2>7. QED
    BY <2>4, <2>6 DEF LiveInv
<1>9. ASSUME \/ \E m \in Turns : CanopyStep(m) \/ CompletionAges(m)
             \/ BeatAges
             \/ UNCHANGED vars
      PROVE  LiveInv'
  <2>1. UNCHANGED <<csid, tsess, req>>
    BY <1>9 DEF CanopyStep, Claim, Finish, Miss, CompletionAges, BeatAges, vars,
                sessVars, canopyVars
  <2>2. \A k \in Turns : turn'[k] \in AliveTurn => turn[k] \in AliveTurn
    BY <1>0, <1>9 DEF CanopyStep, Claim, Finish, Miss, CompletionAges, BeatAges, vars,
                      canopyVars, CanopyOK, AliveTurn
  <2>3. OneLiveTurn' /\ AliveHere'
    BY <1>0, <2>1, <2>2, AliveKept
  <2>4. \A r \in Requests : Stilled(r)'
    BY <1>0, <2>1, <2>2 DEF Stilled
  <2>5. QED
    BY <2>3, <2>4 DEF LiveInv
<1>10. QED
  BY <1>3, <1>4, <1>5, <1>6, <1>7, <1>8, <1>9 DEF Next, DispatchStep, ReconcileStep

\* As long as requests come one at a time and stops do not fail, dispatch_turn
\* keeps its promise of one turn at a time within a run: whatever other call
\* fails and wherever a request is killed, the next dispatch finds and stops
\* the turn that was left alive before it sends its own.
THEOREM OneTurnAtATime == OneByOne /\ ~StopFails => (Spec => []OneLiveTurn)
<1> SUFFICES ASSUME OneByOne, ~StopFails PROVE Spec => []OneLiveTurn
  OBVIOUS
<1>1. TypeInv /\ SessionInv /\ SerialInv /\ LiveInv /\ [Next]_vars => LiveInv'
  BY LiveNext
<1>2. LiveInv => OneLiveTurn
  BY DEF LiveInv
<1>3. Spec => []SerialInv
  BY SerialCorrect
<1>4. QED
  BY <1>1, <1>2, <1>3, TypeInit, TypeNext, SessionInit, SessionNext, LiveInit, PTL DEF Spec

\* As long as requests come one at a time, even with stops that fail, a message
\* never says complete of a turn canopy did not finish, nor that canopy failed
\* it when it did not: reconcile_session reads one turn and writes another row
\* only if somebody resumed the run between the two.
THEOREM VerdictsMatch == OneByOne => (Spec => []VerdictMatchesTurn)
<1> SUFFICES ASSUME OneByOne PROVE Spec => []VerdictMatchesTurn
  OBVIOUS
<1>1. SerialInv => VerdictMatchesTurn
  BY DEF SerialInv
<1>2. Spec => []SerialInv
  BY SerialCorrect
<1>3. QED
  BY <1>1, <1>2, PTL

\* As long as requests come one at a time, resume_interrupted never resumes a run whose newest
\* turn is recorded and alive, though it decides in one step and acts in a
\* later one.
THEOREM SweepSpares == OneByOne => (Spec => SweepSparesLiveRuns)
<1> SUFFICES ASSUME OneByOne PROVE Spec => SweepSparesLiveRuns
  OBVIOUS
<1>1. SerialInv /\ [Next]_vars =>
        [\A r \in Requests : SweepResume(r) => ~(n \in tid /\ turn[n] \in AliveTurn)]_vars
  BY DEF SerialInv, AloneOK, SweepResume, At
<1>2. Spec => []SerialInv
  BY SerialCorrect
<1>3. QED
  BY <1>1, <1>2, PTL DEF Spec, SweepSparesLiveRuns

-----------------------------------------------------------------------------
(* SummaryPage.  The invariant has four parts: what is on Drive and what   *)
(* each task knows of it (StoreInv); that written comments stay, under ids *)
(* of their own, whatever the tasks write back (LedgerInv); what holds     *)
(* until two comments overlap (TurnInv); and what the caches, and the      *)
(* pages in the making, may hold (CachesInv).                              *)

\* What the records on Drive, the comments and the tasks are.
Items       == [id : Decisions \X Nat, of : Nat]
Slugs       == {SlugOf[by] : by \in Reviewers} \X Nat
Records     == [folder : Nat, slug : Slugs, run : Runs, items : Seq(Items)]
Values      == Nat \cup (SUBSET Nat) \cup Records
Pages       == [shows : SUBSET Nat, short : BOOLEAN]
CommentRows == [run : Runs, by : Reviewers, decision : Decisions,
                state : {"open", "acked", "rejected", "failed"}, file : Nat,
                id : (Decisions \X Nat) \cup {<<>>}, overlapped : BOOLEAN]

WrittenSteps == {"updated", "uploaded", "clear"}
Seeking      == {"seek", "mkdir", "made", "write"}
ReaderSteps  == {"idle", "opp", "folder", "bodies", "page", "reply"}
WriterSteps  == {"idle", "opp", "folder", "bodies"} \cup Seeking \cup WrittenSteps

TaskRows == [step : ReaderSteps \cup WriterSteps, comment : Nat, run : Runs \cup {0},
             force : BOOLEAN, got : {NoEntry} \cup (Keys \X Values), folder : Nat,
             list : SUBSET Nat, left : SUBSET Nat, total : Nat, n : Nat, target : Nat,
             items : Seq(Items), page : Pages, owed : SUBSET Nat]

PagesTyped ==
  /\ folders \in Nat /\ files \in Seq(Records) /\ comments \in Seq(CommentRows)
  /\ cache \in [Keys -> Seq(Values)] /\ payload \in [Runs -> Seq(Pages)]
  /\ task \in [Tasks -> TaskRows] /\ crossed \in BOOLEAN

\* No id has a number beyond the number of items on its decision.
OnDecision(items, d) == {i \in DOMAIN items : items[i].id[1] = d}
Numbered(items) == \A i \in DOMAIN items : items[i].id[2] <= Cardinality(OnDecision(items, items[i].id[1]))

\* The items of record f, now or earlier.
ItemsOK(items, f) ==
  /\ items \in Seq(Items) /\ Numbered(items) /\ Len(items) <= MaxPerRecord
  /\ \A i \in DOMAIN items : items[i].of \in DOMAIN comments /\ comments[items[i].of].file = f

Looks(v, f) ==
  /\ f \in DOMAIN files /\ v \in Records /\ ItemsOK(v.items, f)
  /\ v.slug = files[f].slug /\ v.run = files[f].run

In(d) == {f \in DOMAIN files : files[f].folder = d}

\* What a read of `key` has brought, now or earlier.
Fits(key, v) ==
  /\ v \in Values
  /\ key = Opp => v \in 0..folders
  /\ \A d \in Nat : key = Folder(d) => d \in 1..folders /\ v \subseteq In(d)
  /\ \A f \in Nat : key = Body(f) => Looks(v, f)

\* A task at k needs `key`.
Asks(k, key) ==
  \/ k.step = "opp" /\ key = Opp
  \/ k.step = "folder" /\ key = Folder(k.folder)
  \/ k.step = "bodies" /\ \E f \in k.left : key = Body(f)
  \/ k.step = "seek" /\ \E f \in k.list : key = Body(f)

TaskOK(k) ==
  /\ k.folder \in 0..folders /\ (k.step = "folder" => k.folder # 0)
  /\ k.list \subseteq In(k.folder) /\ k.left \subseteq k.list /\ (k.step = "opp" => k.folder = 0 /\ k.list = {})
  /\ k.got # NoEntry => Fits(k.got[1], k.got[2]) /\ Asks(k, k.got[1])

WriterOK(k) ==
  /\ k.step \in WriterSteps
  /\ k.step # "idle" =>
       /\ k.force /\ k.run \in Runs /\ k.comment \in DOMAIN comments
       /\ comments[k.comment].run = k.run /\ comments[k.comment].state = "open"
       /\ comments[k.comment].file # 0 <=> k.step \in WrittenSteps
       /\ k.step = "mkdir" => k.folder = 0
       /\ k.step \in {"made", "write"} => k.folder # 0
       /\ k.step \notin {"write"} \cup WrittenSteps => k.target = 0
       /\ k.target = 0 => k.items = <<>>
       /\ k.step = "write" /\ k.target # 0 =>
            /\ k.target \in k.list /\ files[k.target].run = k.run /\ ItemsOK(k.items, k.target)
       /\ k.step \in WrittenSteps => files[comments[k.comment].file].folder = k.folder
       /\ k.step = "updated" => k.target = comments[k.comment].file

ReaderOK(k) ==
  /\ k.step \in ReaderSteps
  /\ k.step # "idle" => k.run \in Runs
  /\ \A c \in k.owed : /\ c \in DOMAIN comments /\ comments[c].state = "acked"
                       /\ comments[c].run = k.run

CommentOK(c) ==
  /\ comments[c].file # 0 =>
       /\ comments[c].file \in DOMAIN files /\ files[comments[c].file].run = comments[c].run
       /\ comments[c].id \in Decisions \X Nat
  /\ comments[c].state = "acked" => comments[c].file # 0

FileOK(f) == files[f].folder \in 1..folders /\ ItemsOK(files[f].items, f)

Working(w) == task[w].step # "idle"

StoreInv ==
  /\ PagesTyped
  /\ \A f \in DOMAIN files : FileOK(f)
  /\ \A c \in DOMAIN comments : CommentOK(c)
  /\ \A key \in Keys : cache[key] # NoEntry => Fits(key, cache[key][1])
  /\ \A t \in Tasks : TaskOK(task[t])
  /\ \A w \in Writers : WriterOK(task[w])
  /\ \A r \in Readers : ReaderOK(task[r])
  /\ \A v, w \in Writers : Working(v) /\ Working(w) /\ task[v].comment = task[w].comment => v = w

-----------------------------------------------------------------------------
HasItem(items, c) == \E i \in DOMAIN items : items[i] = [id |-> comments[c].id, of |-> c]

\* Comments during which no other was submitted, once they are written.
Solid == {c \in DOMAIN comments : /\ ~comments[c].overlapped /\ comments[c].file # 0
                                  /\ comments[c].state \in {"open", "acked"}}

\* What was read does not hide c.
Good(c, key, v) ==
  LET f == comments[c].file IN
  /\ key = Opp => v # 0
  /\ key = Folder(files[f].folder) => f \in v
  /\ key = Body(f) => HasItem(v.items, c)

Knows(k) == \A c \in Solid :
  /\ k.got # NoEntry => Good(c, k.got[1], k.got[2])
  /\ k.step = "write" /\ k.target = comments[c].file => HasItem(k.items, c)

Lone(w) == Working(w) /\ ~comments[task[w].comment].overlapped

LedgerInv ==
  /\ \A c \in Solid : HasItem(files[comments[c].file].items, c)
  /\ \A c, d \in Solid : c # d /\ comments[c].file = comments[d].file => comments[c].id # comments[d].id
  /\ \A w \in Writers : Knows(task[w])
  /\ \A v, w \in Writers : Lone(w) /\ v # w => ~Working(v)
  /\ \A w \in Writers : Lone(w) /\ task[w].got # NoEntry => task[w].got[2] = Truth(task[w].got[1])

-----------------------------------------------------------------------------
InTurn == \A c \in DOMAIN comments : ~comments[c].overlapped

AllShows(run) == UNION {Shows(run, files[f]) : f \in DOMAIN files}

Counts(k) ==
  /\ k.folder = 0 /\ k.step \in {"bodies"} \cup Seeking => folders = 0
  /\ k.step \in {"bodies"} \cup Seeking => k.list = DOMAIN files
  /\ k.step \notin WrittenSteps => \A f \in k.list \ k.left : Shows(k.run, files[f]) \subseteq k.page.shows
  /\ IsFiniteSet(k.page.shows) /\ Cardinality(k.page.shows) <= k.total
  /\ k.step \in Seeking => k.left = {}
  /\ k.step \in Seeking \ {"seek"} \/ (k.step = "seek" /\ k.got # NoEntry) => k.total < MaxPerRun
  /\ k.step \in Seeking \ {"seek"} /\ k.target = 0 =>
       \A f \in DOMAIN files : files[f].slug # <<SlugOf[comments[k.comment].by], k.n>>
  /\ k.step = "write" /\ k.target # 0 => k.items = files[k.target].items

TurnInv ==
  InTurn =>
    /\ folders <= 1
    /\ \A f, g \in DOMAIN files : files[f].slug = files[g].slug => f = g
    /\ \A run \in Runs : IsFiniteSet(AllShows(run)) /\ Cardinality(AllShows(run)) <= MaxPerRun
    /\ \A w \in Writers : Working(w) => Counts(task[w])

-----------------------------------------------------------------------------
Outdating(w, key) ==
  \/ TaskAt(w, "made") /\ key = Opp
  \/ task[w].step \in {"updated", "uploaded"} /\ key = OutdatedBy(w)

\* An entry there is holds what Drive does.
True(key) == key \in Keys /\ cache[key] # NoEntry => cache[key][1] = Truth(key)

\* What a lone writer has read or dropped, nobody makes stale.
Tidy(w) ==
  LET k == task[w] IN
  /\ k.step \notin {"idle", "opp", "made"} => True(Opp)
  /\ k.folder # 0 /\ k.step \in {"bodies", "updated", "clear"} \cup Seeking => True(Folder(k.folder))
  /\ k.step \in {"uploaded", "clear"} => True(Body(comments[k.comment].file))

\* A page in the making does not leave out c.
Finds(k, c) ==
  comments[c].run = k.run =>
    /\ k.step = "bodies" => k.page.short \/ comments[c].file \in k.left \/ c \in k.page.shows
    /\ k.step = "page" => k.page.short \/ c \in k.page.shows
    /\ k.step = "reply" /\ c \in k.owed => k.page.short \/ c \in k.page.shows

Visible(c) ==
  /\ \A key \in Keys : cache[key] # NoEntry => Good(c, key, cache[key][1])
  /\ \A r \in Readers : /\ task[r].got # NoEntry => Good(c, task[r].got[1], task[r].got[2])
                        /\ Finds(task[r], c)
  /\ LET run == comments[c].run
     IN payload[run] # NoEntry => payload[run][1].short \/ c \in payload[run][1].shows

Current(got) ==
  got # NoEntry => got[2] = Truth(got[1]) \/ \E w \in Writers : Outdating(w, got[1])

CachesInv ==
  ~crossed =>
    /\ \A r \in Readers : Current(task[r].got)
    /\ folders <= 1 => /\ \A w \in Writers : Lone(w) => Tidy(w)
                       /\ \A c \in Alone : Visible(c)

PageInv == StoreInv /\ LedgerInv /\ TurnInv /\ CachesInv
-----------------------------------------------------------------------------
\* Keys of one kind are no keys of another, and tell what they are of.
LEMMA KeyKinds ==
  /\ \A d \in Nat : Folder(d) # Opp /\ Folder(d)[2] = d /\ Folder(d)[1] = "folder"
  /\ \A f \in Nat : Body(f) # Opp /\ Body(f)[2] = f /\ Body(f)[1] = "body"
  /\ \A d, f \in Nat : Folder(d) # Body(f)
  /\ \A d, e \in Nat : Folder(d) = Folder(e) => d = e
  /\ \A f, g \in Nat : Body(f) = Body(g) => f = g
  /\ \A d \in Nat : Folder(d) # NoEntry /\ Body(d) # NoEntry
BY DEF Opp, Folder, Body, NoEntry

LEMMA TruthIs ==
  /\ Truth(Opp) = folders
  /\ \A d \in Nat : Truth(Folder(d)) = In(d)
  /\ \A f \in Nat : Truth(Body(f)) = files[f]
<1>1. Truth(Opp) = folders
  <2>1. Opp[1] = "opp"
    BY DEF Opp
  <2> QED BY <2>1 DEF Truth
<1>2. ASSUME NEW d \in Nat PROVE Truth(Folder(d)) = In(d)
  <2>1. Folder(d) # Opp /\ Folder(d)[1] = "folder" /\ Folder(d)[2] = d
    BY KeyKinds
  <2> QED BY <2>1 DEF Truth, In
<1>3. ASSUME NEW f \in Nat PROVE Truth(Body(f)) = files[f]
  <2>1. Body(f) # Opp /\ Body(f)[1] = "body" /\ Body(f)[2] = f
    BY KeyKinds
  <2> QED BY <2>1 DEF Truth
<1> QED BY <1>1, <1>2, <1>3

LEMMA Held == ASSUME NEW S, NEW s \in Seq(S), s # <<>> PROVE s[1] \in S
<1>1. Len(s) \in Nat /\ s \in [1..Len(s) -> S]
  BY LenProperties
<1>2. Len(s) # 0
  BY EmptySeq
<1> QED BY <1>1, <1>2

LEMMA Single == ASSUME NEW S, NEW x \in S PROVE <<x>> \in Seq(S) /\ <<x>>[1] = x /\ <<x>> # <<>>
OBVIOUS

\* Files and comments have numbers.
LEMMA Numbers ==
  ASSUME PagesTyped
  PROVE  /\ Len(files) \in Nat /\ DOMAIN files = 1..Len(files)
         /\ Len(comments) \in Nat /\ DOMAIN comments = 1..Len(comments)
         /\ \A f \in DOMAIN files : f \in Nat \ {0} /\ files[f] \in Records
         /\ \A c \in DOMAIN comments : c \in Nat \ {0} /\ comments[c] \in CommentRows
         /\ \A t \in Tasks : task[t] \in TaskRows
         /\ 0 \notin DOMAIN files
<1>1. Len(files) \in Nat /\ DOMAIN files = 1..Len(files) /\ \A f \in DOMAIN files : files[f] \in Records
  BY LenProperties, ElementOfSeq DEF PagesTyped
<1>2. Len(comments) \in Nat /\ DOMAIN comments = 1..Len(comments)
      /\ \A c \in DOMAIN comments : comments[c] \in CommentRows
  BY LenProperties, ElementOfSeq DEF PagesTyped
<1> QED BY <1>1, <1>2 DEF PagesTyped

\* What a record shows of a run is finite.
LEMMA ShowsIs ==
  ASSUME NEW v \in Records, NEW r
  PROVE  /\ Shows(r, v) \subseteq Nat /\ IsFiniteSet(Shows(r, v)) /\ Cardinality(Shows(r, v)) \in Nat
         /\ v.run = r => Shows(r, v) = {v.items[i].of : i \in DOMAIN v.items}
         /\ v.run # r => Shows(r, v) = {}
<1>1. v.items \in Seq(Items)
  BY DEF Records
<1>2. Len(v.items) \in Nat /\ DOMAIN v.items = 1..Len(v.items)
  BY <1>1, LenProperties
<1>3. \A i \in DOMAIN v.items : v.items[i] \in Items
  BY <1>1, <1>2, ElementOfSeq
<1> DEFINE T == {v.items[i].of : i \in DOMAIN v.items}
<1>4. T \subseteq Nat
  BY <1>3 DEF Items
<1>5. IsFiniteSet(DOMAIN v.items)
  BY <1>2, FS_Interval
<1>6. IsFiniteSet(T)
  <2> DEFINE h == [i \in DOMAIN v.items |-> v.items[i].of]
  <2>1. h \in Surjection(DOMAIN v.items, T)
    BY DEF Surjection
  <2> QED BY <1>5, <2>1, FS_Surjection
<1>7. IsFiniteSet({}) /\ Cardinality({}) = 0
  BY FS_EmptySet
<1>8. Cardinality(T) \in Nat
  BY <1>6, FS_CardinalityType
<1>9. v.run = r => Shows(r, v) = T
  BY DEF Shows
<1>10. v.run # r => Shows(r, v) = {}
  BY DEF Shows
<1>11. CASE v.run = r
  BY <1>4, <1>6, <1>8, <1>9, <1>11
<1>12. CASE v.run # r
  BY <1>7, <1>10, <1>12
<1> QED BY <1>11, <1>12
-----------------------------------------------------------------------------
\* Folders, records and comments are never taken away, nor moved.
Grown ==
  /\ folders <= folders' /\ DOMAIN files \subseteq DOMAIN files' /\ DOMAIN comments \subseteq DOMAIN comments'
  /\ \A f \in DOMAIN files :
       /\ files'[f].folder = files[f].folder /\ files'[f].slug = files[f].slug
       /\ files'[f].run = files[f].run
  /\ \A c \in DOMAIN comments :
       /\ comments'[c].run = comments[c].run /\ comments'[c].by = comments[c].by
       /\ comments[c].file # 0 => comments'[c].file = comments[c].file /\ comments'[c].id = comments[c].id

LEMMA GrownItems ==
  ASSUME Grown, NEW items, NEW f, f # 0, ItemsOK(items, f) PROVE ItemsOK(items, f)'
BY DEF Grown, ItemsOK

LEMMA GrownLooks ==
  ASSUME Grown, NEW v, NEW f, f # 0, Looks(v, f) PROVE Looks(v, f)'
<1>1. ItemsOK(v.items, f)'
  BY GrownItems DEF Looks
<1> QED BY <1>1 DEF Looks, Grown

LEMMA GrownFits ==
  ASSUME PagesTyped, PagesTyped', Grown, NEW key, NEW v, Fits(key, v) PROVE Fits(key, v)'
<1>1. folders \in Nat /\ folders' \in Nat /\ folders <= folders'
  BY DEF PagesTyped, Grown
<1>2. \A d \in Nat : In(d) \subseteq In(d)'
  BY DEF In, Grown
<1>3. ASSUME NEW f \in Nat, key = Body(f) PROVE Looks(v, f)'
  <2>1. Looks(v, f) /\ f # 0
    BY <1>3, Numbers DEF Fits, Looks
  <2> QED BY <2>1, GrownLooks
<1> QED BY <1>1, <1>2, <1>3 DEF Fits

LEMMA GrownTask ==
  ASSUME PagesTyped, PagesTyped', Grown, NEW k, TaskOK(k) PROVE TaskOK(k)'
<1>1. folders \in Nat /\ folders' \in Nat /\ folders <= folders'
  BY DEF PagesTyped, Grown
<1>2. In(k.folder) \subseteq In(k.folder)'
  BY DEF In, Grown
<1>3. k.got # NoEntry => Fits(k.got[1], k.got[2])'
  BY GrownFits DEF TaskOK
<1> QED BY <1>1, <1>2, <1>3 DEF TaskOK, Asks

\* A writer whose comment nobody else touches.
LEMMA GrownWriter ==
  ASSUME StoreInv, PagesTyped', Grown, NEW k, WriterOK(k), TaskOK(k),
         k.step # "idle" => /\ comments'[k.comment].state = comments[k.comment].state
                            /\ comments'[k.comment].file = comments[k.comment].file
  PROVE  WriterOK(k)'
<1>1. CASE k.step = "idle"
  BY <1>1 DEF WriterOK
<1>2. CASE k.step # "idle"
  <2>1. k.comment \in DOMAIN comments /\ comments'[k.comment].run = comments[k.comment].run
    BY <1>2 DEF WriterOK, Grown
  <2>2. k.step = "write" /\ k.target # 0 =>
          /\ files'[k.target].run = k.run /\ ItemsOK(k.items, k.target)'
    BY <1>2, GrownItems DEF WriterOK, TaskOK, In, Grown
  <2>3. k.step \in WrittenSteps => files'[comments[k.comment].file].folder = k.folder
    BY <1>2, <2>1 DEF WriterOK, StoreInv, CommentOK, Grown
  <2>4. k.comment \in DOMAIN comments'
    BY <2>1 DEF Grown
  <2> QED BY <1>2, <2>1, <2>2, <2>3, <2>4 DEF WriterOK
<1> QED BY <1>1, <1>2

LEMMA GrownReader ==
  ASSUME Grown, NEW k, ReaderOK(k),
         \A c \in DOMAIN comments : comments[c].state = "acked" => comments'[c].state = "acked"
  PROVE  ReaderOK(k)'
BY DEF ReaderOK, Grown

\* One task goes on; what it leaves in the cache fits.
LEMMA StoreKept ==
  ASSUME StoreInv, PagesTyped', Grown, NEW t \in Tasks, NEW k, Goes(t, k),
         \A f \in DOMAIN files' : FileOK(f)', \A c \in DOMAIN comments' : CommentOK(c)',
         \A key \in Keys : cache'[key] \in {cache[key], NoEntry} \/ Fits(key, cache[key][1])',
         TaskOK(k)', t \in Writers => WriterOK(k)', t \in Readers => ReaderOK(k)',
         \A w \in Writers : w # t /\ Working(w) =>
           /\ comments'[task[w].comment].state = comments[task[w].comment].state
           /\ comments'[task[w].comment].file = comments[task[w].comment].file,
         \A c \in DOMAIN comments : comments[c].state = "acked" => comments'[c].state = "acked",
         t \in Writers /\ k.step # "idle" =>
           (Working(t) /\ k.comment = task[t].comment) \/ k.comment \notin DOMAIN comments
  PROVE  StoreInv'
<1>1. task'[t] = k /\ \A u \in Tasks : u # t => task'[u] = task[u]
  BY DEF Goes, StoreInv, PagesTyped
<1>2. \A key \in Keys : cache'[key] # NoEntry => Fits(key, cache[key][1])'
  BY GrownFits DEF StoreInv
<1>3. \A u \in Tasks : TaskOK(task[u])'
  BY <1>1, GrownTask DEF StoreInv
<1>4. ASSUME NEW w \in Writers PROVE WriterOK(task[w])'
  <2>1. w \in Tasks
    BY DEF Tasks
  <2>2. CASE w # t
    BY <1>1, <2>1, <2>2, GrownWriter DEF StoreInv, Working
  <2> QED BY <1>1, <2>2
<1>5. ASSUME NEW r \in Readers PROVE ReaderOK(task[r])'
  <2>1. r \in Tasks
    BY DEF Tasks
  <2>2. CASE r # t
    BY <1>1, <2>1, <2>2, GrownReader DEF StoreInv
  <2> QED BY <1>1, <2>2
<1>6. ASSUME NEW v \in Writers, NEW w \in Writers, Working(v)', Working(w)',
             task'[v].comment = task'[w].comment
      PROVE  v = w
  <2>1. v \in Tasks /\ w \in Tasks
    BY DEF Tasks
  <2>2. \A u \in Writers : Working(u) => task[u].comment \in DOMAIN comments
    BY DEF Working, StoreInv, WriterOK
  <2>3. \A u \in Tasks : u # t /\ Working(u)' => Working(u)
    BY <1>1 DEF Working
  <2>4. Working(t)' => k.step # "idle"
    BY <1>1 DEF Working
  <2>5. CASE v # t /\ w # t
    BY <1>1, <1>6, <2>1, <2>3, <2>5 DEF StoreInv
  <2>6. CASE v = t /\ w # t
    BY <1>1, <1>6, <2>1, <2>2, <2>3, <2>4, <2>6 DEF StoreInv
  <2>7. CASE v # t /\ w = t
    BY <1>1, <1>6, <2>1, <2>2, <2>3, <2>4, <2>7 DEF StoreInv
  <2> QED BY <2>5, <2>6, <2>7
<1> QED BY <1>2, <1>3, <1>4, <1>5, <1>6 DEF StoreInv

\* The same, when Drive and the comments stay as they are.
LEMMA StoreMoves ==
  ASSUME StoreInv, UNCHANGED <<folders, files, comments>>, NEW t \in Tasks, NEW k \in TaskRows, Goes(t, k),
         cache' \in [Keys -> Seq(Values)], payload' \in [Runs -> Seq(Pages)], crossed' \in BOOLEAN,
         \A key \in Keys : cache'[key] \in {cache[key], NoEntry} \/ Fits(key, cache'[key][1]),
         TaskOK(k), t \in Writers => WriterOK(k), t \in Readers => ReaderOK(k),
         t \in Writers /\ k.step # "idle" => Working(t) /\ k.comment = task[t].comment
  PROVE  StoreInv'
<1>1. PagesTyped'
  BY DEF StoreInv, PagesTyped, Goes
<1>2. Grown
  BY DEF Grown, StoreInv, PagesTyped
<1>3. \A key \in Keys : cache'[key] \in {cache[key], NoEntry} \/ Fits(key, cache[key][1])'
  BY <1>1, <1>2, GrownFits DEF StoreInv
<1>4. TaskOK(k)'
  BY <1>1, <1>2, GrownTask DEF StoreInv
<1>5. t \in Writers => WriterOK(k)'
  BY <1>1, <1>2, GrownWriter
<1>6. t \in Readers => ReaderOK(k)'
  BY <1>2, GrownReader
<1>7. \A f \in DOMAIN files' : FileOK(f)'
  BY DEF StoreInv, FileOK, ItemsOK
<1>8. \A c \in DOMAIN comments' : CommentOK(c)'
  BY DEF StoreInv, CommentOK
<1> QED BY <1>1, <1>2, <1>3, <1>4, <1>5, <1>6, <1>7, <1>8, StoreKept
-----------------------------------------------------------------------------
\* What a task becomes that has learnt v of `key`.
AsksOpp(t, k, v, new) ==
  /\ k.step = "opp"
  /\ \/ v = 0 /\ new = [k EXCEPT !.got = NoEntry, !.step = Read(t)]
     \/ \E d \in 1..v : new = [k EXCEPT !.got = NoEntry, !.step = "folder", !.folder = d]

AsksFolder(t, k, v, new) ==
  /\ k.step = "folder"
  /\ new = [k EXCEPT !.got = NoEntry, !.step = IF v = {} THEN Read(t) ELSE "bodies",
                     !.list = v, !.left = v]

AsksBody(t, k, f, v, new) ==
  /\ k.step = "bodies"
  /\ new = [k EXCEPT !.got = NoEntry, !.step = IF k.left \ {f} = {} THEN Read(t) ELSE "bodies",
                     !.left = k.left \ {f}, !.total = @ + Cardinality(Shows(k.run, v)),
                     !.page = [shows |-> k.page.shows \cup Shows(k.run, v), short |-> k.page.short]]

AsksTarget(k, f, v, new) ==
  /\ k.step = "seek"
  /\ \/ v.run = k.run /\ new = [k EXCEPT !.got = NoEntry, !.step = "write", !.target = f,
                                         !.items = v.items]
     \/ v.run # k.run /\ new = [k EXCEPT !.got = NoEntry, !.n = @ + 1]

Reads(t, k, key, v, new) ==
  \/ key = Opp /\ AsksOpp(t, k, v, new)
  \/ key = Folder(k.folder) /\ AsksFolder(t, k, v, new)
  \/ \E f \in k.left : key = Body(f) /\ AsksBody(t, k, f, v, new)
  \/ \E f \in k.list : key = Body(f) /\ AsksTarget(k, f, v, new)

LEMMA LearnIs ==
  ASSUME NEW t \in Tasks, NEW key, NEW v, Learn(t, key, v), Asks(task[t], key), task[t] \in TaskRows
  PROVE  \E new : Goes(t, new) /\ Reads(t, task[t], key, v, new)
<1>0. PICK k : k = task[t]
  OBVIOUS
<1> DEFINE now == [k EXCEPT !.got = NoEntry]
<1>1. CASE k.step = "opp"
  <2>1. IF v = 0 THEN Goes(t, [now EXCEPT !.step = Read(t)])
        ELSE \E d \in 1..v : Goes(t, [now EXCEPT !.step = "folder", !.folder = d])
    BY <1>0, <1>1 DEF Learn
  <2>2. key = Opp
    BY <1>0, <1>1 DEF Asks
  <2>3. CASE v = 0
    <3>1. Goes(t, [k EXCEPT !.got = NoEntry, !.step = Read(t)])
      BY <2>1, <2>3
    <3> QED BY <1>0, <1>1, <2>2, <2>3, <3>1 DEF Reads, AsksOpp
  <2>4. CASE v # 0
    <3>1. PICK d \in 1..v : Goes(t, [k EXCEPT !.got = NoEntry, !.step = "folder", !.folder = d])
      BY <2>1, <2>4
    <3> QED BY <1>0, <1>1, <2>2, <3>1 DEF Reads, AsksOpp
  <2> QED BY <2>3, <2>4
<1>2. CASE k.step = "folder"
  <2>1. Goes(t, [now EXCEPT !.step = IF v = {} THEN Read(t) ELSE "bodies", !.list = v, !.left = v])
    BY <1>0, <1>2 DEF Learn
  <2>2. key = Folder(k.folder)
    BY <1>0, <1>2 DEF Asks
  <2>3. Goes(t, [k EXCEPT !.got = NoEntry, !.step = IF v = {} THEN Read(t) ELSE "bodies",
                          !.list = v, !.left = v])
    BY <2>1
  <2> QED BY <1>0, <1>2, <2>2, <2>3 DEF Reads, AsksFolder
<1>3. CASE k.step = "bodies"
  <2>1. PICK f \in k.left : key = Body(f)
    BY <1>0, <1>3 DEF Asks
  <2>2. key[2] = f
    BY <2>1 DEF Body
  <2>3. Goes(t, [now EXCEPT !.step = IF k.left \ {f} = {} THEN Read(t) ELSE "bodies",
                            !.left = k.left \ {f}, !.total = @ + Cardinality(Shows(k.run, v)),
                            !.page.shows = @ \cup Shows(k.run, v)])
    BY <1>0, <1>3, <2>2 DEF Learn
  <2>4. now.page \in Pages /\ now.page.shows = k.page.shows /\ now.page.short = k.page.short
    BY <1>0 DEF TaskRows, Pages
  <2>5. [now.page EXCEPT !.shows = @ \cup Shows(k.run, v)]
        = [shows |-> k.page.shows \cup Shows(k.run, v), short |-> k.page.short]
    BY <2>4 DEF Pages
  <2>6. Goes(t, [now EXCEPT !.step = IF k.left \ {f} = {} THEN Read(t) ELSE "bodies",
                            !.left = k.left \ {f}, !.total = @ + Cardinality(Shows(k.run, v)),
                            !.page = [now.page EXCEPT !.shows = @ \cup Shows(k.run, v)]])
    BY <2>3
  <2>7. Goes(t, [now EXCEPT !.step = IF k.left \ {f} = {} THEN Read(t) ELSE "bodies",
                            !.left = k.left \ {f}, !.total = @ + Cardinality(Shows(k.run, v)),
                            !.page = [shows |-> k.page.shows \cup Shows(k.run, v), short |-> k.page.short]])
    BY <2>5, <2>6
  <2>8. Goes(t, [k EXCEPT !.got = NoEntry, !.step = IF k.left \ {f} = {} THEN Read(t) ELSE "bodies",
                    !.left = k.left \ {f}, !.total = @ + Cardinality(Shows(k.run, v)),
                    !.page = [shows |-> k.page.shows \cup Shows(k.run, v), short |-> k.page.short]])
    BY <1>0, <2>7 DEF TaskRows
  <2> QED BY <1>0, <1>3, <2>1, <2>8 DEF Reads, AsksBody
<1>4. CASE k.step = "seek"
  <2>1. PICK f \in k.list : key = Body(f)
    BY <1>0, <1>4 DEF Asks
  <2>2. key[2] = f
    BY <2>1 DEF Body
  <2>3. Goes(t, IF v.run = k.run
                THEN [now EXCEPT !.step = "write", !.target = f, !.items = v.items]
                ELSE [now EXCEPT !.n = @ + 1])
    BY <1>0, <1>4, <2>2 DEF Learn
  <2>4. CASE v.run = k.run
    <3>1. Goes(t, [k EXCEPT !.got = NoEntry, !.step = "write", !.target = f, !.items = v.items])
      BY <2>3, <2>4
    <3> QED BY <1>0, <1>4, <2>1, <2>4, <3>1 DEF Reads, AsksTarget
  <2>5. CASE v.run # k.run
    <3>1. Goes(t, [k EXCEPT !.got = NoEntry, !.n = @ + 1])
      BY <2>3, <2>5 DEF TaskRows
    <3> QED BY <1>0, <1>4, <2>1, <2>5, <3>1 DEF Reads, AsksTarget
  <2> QED BY <2>4, <2>5
<1> QED BY <1>0, <1>1, <1>2, <1>3, <1>4 DEF Asks
-----------------------------------------------------------------------------
\* What a task may be.
Sound(t, k) ==
  /\ k \in TaskRows /\ TaskOK(k)
  /\ t \in Writers => WriterOK(k)
  /\ t \in Readers => ReaderOK(k)

LEMMA TasksSound == ASSUME StoreInv, NEW t \in Tasks PROVE Sound(t, task[t])
BY Numbers DEF StoreInv, Sound, Tasks

LEMMA ReadsSound ==
  ASSUME StoreInv, NEW t \in Tasks, NEW key, NEW v, Fits(key, v), NEW new, Reads(t, task[t], key, v, new)
  PROVE  Sound(t, new) /\ Working(t) /\ new.comment = task[t].comment
<1>0. PICK k : k = task[t]
  OBVIOUS
<1>1. Sound(t, k) /\ k \in TaskRows
  BY <1>0, TasksSound DEF Sound
<1>2. folders \in Nat /\ k.folder \in 0..folders /\ k.list \subseteq In(k.folder) /\ k.left \subseteq k.list
  BY <1>1 DEF Sound, TaskOK, StoreInv, PagesTyped
<1>3. \A d \in Nat : In(d) \subseteq Nat \ {0} /\ In(d) \subseteq DOMAIN files
  BY Numbers DEF In, StoreInv
<1>4. (t \in Writers /\ t \notin Readers) \/ (t \in Readers /\ t \notin Writers)
  BY SummaryPageAssumption DEF Tasks
<1>5. Read(t) = IF t \in Writers THEN "seek" ELSE "page"
  BY DEF Read
<1>6. CASE key = Opp /\ AsksOpp(t, k, v, new)
  <2>1. v \in 0..folders
    BY <1>6 DEF Fits
  <2>2. CASE v = 0 /\ new = [k EXCEPT !.got = NoEntry, !.step = Read(t)]
    <3>a. PICK step : step = Read(t) /\ step \in {"seek", "page"}
      BY <1>5
    <3>b. new = [k EXCEPT !.got = NoEntry, !.step = step]
      BY <2>2, <3>a
    <3>0. new \in TaskRows /\ new.comment = k.comment /\ new.folder = k.folder /\ new.got = NoEntry
          /\ new.list = k.list /\ new.left = k.left /\ new.step = step
      <4>1. step \in ReaderSteps \cup WriterSteps
        BY <3>a DEF ReaderSteps, WriterSteps, Seeking
      <4> QED BY <1>1, <3>b, <4>1 DEF TaskRows
    <3>1. TaskOK(new)
      BY <1>2, <3>a, <3>0 DEF TaskOK
    <3>2. t \in Writers => WriterOK(new)
      BY <1>1, <1>4, <1>5, <1>6, <2>2 DEF TaskRows, Sound, AsksOpp, WriterOK, WriterSteps, Seeking, WrittenSteps
    <3>3. t \in Readers => ReaderOK(new)
      BY <1>1, <1>4, <1>5, <1>6, <2>2 DEF TaskRows, Sound, AsksOpp, ReaderOK, ReaderSteps
    <3> QED BY <1>0, <1>6, <3>0, <3>1, <3>2, <3>3 DEF Sound, Working, AsksOpp
  <2>3. ASSUME NEW d \in 1..v, new = [k EXCEPT !.got = NoEntry, !.step = "folder", !.folder = d]
        PROVE  Sound(t, new) /\ Working(t) /\ new.comment = k.comment
    <3>0. d \in 1..folders /\ d # 0
      BY <2>1, <2>3, <1>2
    <3>1. k.list = {} /\ k.left = {}
      BY <1>1, <1>2, <1>6 DEF Sound, TaskOK, AsksOpp
    <3>2. new \in TaskRows /\ new.comment = k.comment /\ new.step = "folder" /\ new.folder = d
          /\ new.got = NoEntry /\ new.list = {} /\ new.left = {}
      <4>1. d \in Nat /\ "folder" \in ReaderSteps
        BY <1>2, <3>0 DEF ReaderSteps
      <4> QED BY <1>1, <2>3, <3>1, <4>1 DEF TaskRows
    <3>3. TaskOK(new)
      BY <3>0, <3>2, <1>2 DEF TaskOK
    <3>4. t \in Writers => WriterOK(new)
      BY <1>1, <1>4, <1>5, <1>6, <2>3 DEF TaskRows, Sound, AsksOpp, WriterOK, WriterSteps, Seeking, WrittenSteps
    <3>5. t \in Readers => ReaderOK(new)
      BY <1>1, <1>4, <1>5, <1>6, <2>3 DEF TaskRows, Sound, AsksOpp, ReaderOK, ReaderSteps
    <3> QED BY <1>0, <1>6, <3>2, <3>3, <3>4, <3>5 DEF Sound, Working, AsksOpp
  <2> QED BY <1>0, <1>6, <2>2, <2>3 DEF AsksOpp
<1>7. CASE key = Folder(k.folder) /\ AsksFolder(t, k, v, new)
  <2>1. v \subseteq In(k.folder) /\ v \subseteq Nat
    BY <1>2, <1>3, <1>7 DEF Fits
  <2>a. PICK step : step = (IF v = {} THEN Read(t) ELSE "bodies")
    OBVIOUS
  <2>b. step \in {"seek", "page", "bodies"} /\ step \in ReaderSteps \cup WriterSteps
    BY <1>5, <2>a DEF ReaderSteps, WriterSteps, Seeking
  <2>c. new = [k EXCEPT !.got = NoEntry, !.step = step, !.list = v, !.left = v]
    BY <1>7, <2>a DEF AsksFolder
  <2>2. new \in TaskRows /\ new.comment = k.comment /\ new.folder = k.folder /\ new.got = NoEntry
        /\ new.list = v /\ new.left = v /\ new.step = IF v = {} THEN Read(t) ELSE "bodies"
    BY <1>1, <2>1, <2>a, <2>b, <2>c DEF TaskRows
  <2>d. /\ new.run = k.run /\ new.force = k.force /\ new.owed = k.owed
        /\ new.target = k.target /\ new.items = k.items
    BY <1>1, <2>c DEF TaskRows
  <2>3. TaskOK(new)
    BY <1>2, <1>5, <2>1, <2>2 DEF TaskOK
  <2>e. k.step = "folder"
    BY <1>7 DEF AsksFolder
  <2>4. ASSUME t \in Writers PROVE WriterOK(new)
    <3>1. WriterOK(k) /\ new.step \in {"seek", "bodies"}
      BY <1>1, <1>5, <2>2, <2>4 DEF Sound
    <3> QED BY <2>2, <2>d, <2>e, <3>1 DEF WriterOK, WriterSteps, Seeking, WrittenSteps
  <2>5. ASSUME t \in Readers PROVE ReaderOK(new)
    <3>1. ReaderOK(k) /\ new.step \in {"page", "bodies"}
      BY <1>1, <1>4, <1>5, <2>2, <2>5 DEF Sound
    <3> QED BY <2>d, <2>e, <3>1 DEF ReaderOK, ReaderSteps
  <2> QED BY <1>0, <1>7, <2>2, <2>3, <2>4, <2>5 DEF Sound, Working, AsksFolder
<1>8. ASSUME NEW f \in k.left, key = Body(f), AsksBody(t, k, f, v, new)
      PROVE  Sound(t, new) /\ Working(t) /\ new.comment = k.comment
  <2>1. f \in Nat
    BY <1>2, <1>3
  <2>2. v \in Records
    BY <1>8, <2>1 DEF Fits, Looks
  <2>3. PICK s : s = Shows(k.run, v)
    OBVIOUS
  <2>4. s \subseteq Nat /\ Cardinality(s) \in Nat
    BY <2>2, <2>3, ShowsIs
  <2>5. PICK p : p = [shows |-> k.page.shows \cup s, short |-> k.page.short]
    OBVIOUS
  <2>6. p \in Pages
    BY <1>1, <2>4, <2>5 DEF Pages, TaskRows
  <2>7. PICK left : left = k.left \ {f}
    OBVIOUS
  <2>8. PICK total : total = k.total + Cardinality(s)
    OBVIOUS
  <2>9. total \in Nat /\ left \subseteq k.left /\ left \in SUBSET Nat
    BY <1>1, <2>4, <2>7, <2>8 DEF TaskRows
  <2>10. new = [k EXCEPT !.got = NoEntry, !.step = IF left = {} THEN Read(t) ELSE "bodies",
                         !.left = left, !.total = total, !.page = p]
    BY <1>8, <2>3, <2>5, <2>7, <2>8 DEF AsksBody, TaskRows
  <2>a. PICK step : step = (IF left = {} THEN Read(t) ELSE "bodies")
    OBVIOUS
  <2>b. step \in {"seek", "page", "bodies"} /\ step \in ReaderSteps \cup WriterSteps
    BY <1>5, <2>a DEF ReaderSteps, WriterSteps, Seeking
  <2>c. new = [k EXCEPT !.got = NoEntry, !.step = step, !.left = left, !.total = total, !.page = p]
    BY <2>10, <2>a
  <2>11. new \in TaskRows /\ new.comment = k.comment /\ new.folder = k.folder /\ new.got = NoEntry
         /\ new.list = k.list /\ new.left = left /\ new.step = IF left = {} THEN Read(t) ELSE "bodies"
    BY <1>1, <2>6, <2>9, <2>a, <2>b, <2>c DEF TaskRows
  <2>d. /\ new.run = k.run /\ new.force = k.force /\ new.owed = k.owed
        /\ new.target = k.target /\ new.items = k.items
    BY <1>1, <2>c DEF TaskRows
  <2>12. TaskOK(new)
    BY <1>2, <1>5, <2>9, <2>11 DEF TaskOK
  <2>e. k.step = "bodies"
    BY <1>8 DEF AsksBody
  <2>13. ASSUME t \in Writers PROVE WriterOK(new)
    <3>1. WriterOK(k) /\ new.step \in {"seek", "bodies"}
      BY <1>1, <1>5, <2>11, <2>13 DEF Sound
    <3> QED BY <2>11, <2>d, <2>e, <3>1 DEF WriterOK, WriterSteps, Seeking, WrittenSteps
  <2>14. ASSUME t \in Readers PROVE ReaderOK(new)
    <3>1. ReaderOK(k) /\ new.step \in {"page", "bodies"}
      BY <1>1, <1>4, <1>5, <2>11, <2>14 DEF Sound
    <3> QED BY <2>d, <2>e, <3>1 DEF ReaderOK, ReaderSteps
  <2> QED BY <1>0, <1>8, <2>11, <2>12, <2>13, <2>14 DEF Sound, Working, AsksBody
<1>9. ASSUME NEW f \in k.list, key = Body(f), AsksTarget(k, f, v, new)
      PROVE  Sound(t, new) /\ Working(t) /\ new.comment = k.comment
  <2>0. k.step = "seek" /\ t \in Writers /\ t \notin Readers
    BY <1>1, <1>4, <1>9 DEF AsksTarget, Sound, ReaderOK, ReaderSteps
  <2>1. f \in Nat \ {0} /\ f \in DOMAIN files
    BY <1>2, <1>3
  <2>2. Looks(v, f)
    BY <1>9, <2>1 DEF Fits
  <2>3. CASE v.run = k.run /\ new = [k EXCEPT !.got = NoEntry, !.step = "write", !.target = f,
                                               !.items = v.items]
    <3>1. v.items \in Seq(Items) /\ ItemsOK(v.items, f) /\ files[f].run = k.run
      BY <2>2, <2>3 DEF Looks, ItemsOK
    <3>2. new \in TaskRows /\ new.comment = k.comment /\ new.folder = k.folder /\ new.got = NoEntry
          /\ new.list = k.list /\ new.left = k.left /\ new.step = "write" /\ new.target = f
          /\ new.items = v.items /\ new.run = k.run /\ new.force = k.force
      BY <1>1, <2>1, <2>3, <3>1 DEF TaskRows, WriterSteps, Seeking
    <3>3. TaskOK(new)
      BY <1>2, <3>2 DEF TaskOK
    <3>4. k.folder # 0
      BY <1>2, <2>1, Numbers DEF In, StoreInv, FileOK
    <3>5. WriterOK(new)
      BY <1>1, <2>0, <2>1, <3>1, <3>2, <3>4 DEF Sound, WriterOK, WriterSteps, Seeking, WrittenSteps
    <3> QED BY <1>0, <2>0, <3>2, <3>3, <3>5 DEF Sound, Working
  <2>4. CASE new = [k EXCEPT !.got = NoEntry, !.n = @ + 1]
    <3>a. PICK m : m = k.n + 1 /\ m \in Nat
      BY <1>1 DEF TaskRows
    <3>b. new = [k EXCEPT !.got = NoEntry, !.n = m]
      BY <1>1, <2>4, <3>a DEF TaskRows
    <3>1. new \in TaskRows /\ new.comment = k.comment /\ new.folder = k.folder /\ new.got = NoEntry
          /\ new.list = k.list /\ new.left = k.left /\ new.step = "seek" /\ new.target = k.target
          /\ new.items = k.items /\ new.run = k.run /\ new.force = k.force
      BY <1>1, <2>0, <3>a, <3>b DEF TaskRows
    <3>2. TaskOK(new)
      BY <1>2, <3>1 DEF TaskOK
    <3>3. WriterOK(new)
      BY <1>1, <2>0, <3>1 DEF Sound, WriterOK, WriterSteps, Seeking, WrittenSteps
    <3> QED BY <1>0, <2>0, <3>1, <3>2, <3>3 DEF Sound, Working
  <2> QED BY <1>9, <2>3, <2>4 DEF AsksTarget
<1> QED BY <1>0, <1>6, <1>7, <1>8, <1>9 DEF Reads
-----------------------------------------------------------------------------
\* A task reads only what it asks for.
LEMMA WantsAsks == ASSUME NEW t, NEW key, Wants(t, key) PROVE Asks(task[t], key)
BY DEF Wants, Asks, Walking, TaskAt, Candidates

LEMMA TruthFits ==
  ASSUME StoreInv, NEW t \in Tasks, NEW key, Asks(task[t], key) PROVE Fits(key, Truth(key))
<1>0. TaskOK(task[t]) /\ folders \in Nat
  BY DEF StoreInv, PagesTyped
<1>1. \A d \in Nat : In(d) \subseteq Nat /\ In(d) \subseteq DOMAIN files
  BY Numbers DEF In, StoreInv
<1>2. CASE key = Opp
  <2>1. Truth(key) \in Values /\ Truth(key) \in 0..folders
    BY <1>0, <1>2, TruthIs DEF Values
  <2> QED BY <1>2, <2>1, KeyKinds DEF Fits
<1>3. ASSUME NEW d \in 1..folders, key = Folder(d) PROVE Fits(key, Truth(key))
  <2>0. d \in Nat
    BY <1>0, <1>3
  <2>1. Truth(key) \in Values /\ Truth(key) = In(d)
    BY <1>1, <1>3, <2>0, TruthIs DEF Values
  <2> QED BY <1>3, <2>0, <2>1, KeyKinds DEF Fits
<1>4. ASSUME NEW f \in DOMAIN files, key = Body(f) PROVE Fits(key, Truth(key))
  <2>0. f \in Nat /\ files[f] \in Records
    BY Numbers DEF StoreInv
  <2>1. Truth(key) \in Values /\ Truth(key) = files[f]
    BY <1>4, <2>0, TruthIs DEF Values
  <2>2. Looks(files[f], f)
    BY <2>0 DEF StoreInv, FileOK, Looks
  <2> QED BY <1>4, <2>0, <2>1, <2>2, KeyKinds DEF Fits
<1>5. \A f \in task[t].list : f \in DOMAIN files
  BY <1>0, <1>1 DEF TaskOK
<1>6. task[t].folder # 0 => task[t].folder \in 1..folders
  BY <1>0 DEF TaskOK
<1> QED BY <1>0, <1>2, <1>3, <1>4, <1>5, <1>6 DEF Asks, TaskOK

LEMMA FetchStore == ASSUME StoreInv, NEW t \in Tasks, NEW key \in Keys, Fetch(t, key) PROVE StoreInv'
<1>1. PICK k : k = task[t] /\ Sound(t, k)
  BY TasksSound
<1>2. Asks(k, key) /\ Fits(key, Truth(key)) /\ Truth(key) \in Values
  BY <1>1, WantsAsks, TruthFits DEF Fetch, Fits
<1>a. PICK v : v = Truth(key)
  OBVIOUS
<1>b. <<key, v>> \in Keys \X Values
  BY <1>2, <1>a
<1>3. PICK got : got = <<key, v>> /\ got \in Keys \X Values
  BY <1>b
<1>4. PICK new : new = [k EXCEPT !.got = got] /\ Goes(t, new)
  BY <1>1, <1>a, <1>3 DEF Fetch
<1>5. /\ new \in TaskRows /\ new.comment = k.comment /\ new.folder = k.folder /\ new.got = got
      /\ new.list = k.list /\ new.left = k.left /\ new.step = k.step /\ new.target = k.target
      /\ new.items = k.items /\ new.run = k.run /\ new.force = k.force /\ new.owed = k.owed
  BY <1>1, <1>3, <1>4, ZenonT(60) DEF Sound, TaskRows
<1>6. TaskOK(new)
  <2>1. Asks(new, key)
    BY <1>2, <1>5 DEF Asks
  <2>2. got[1] = key /\ got[2] = Truth(key)
    BY <1>a, <1>3
  <2> QED BY <1>1, <1>2, <1>5, <2>1, <2>2 DEF Sound, TaskOK
<1>7. (t \in Writers => WriterOK(new)) /\ (t \in Readers => ReaderOK(new))
  BY <1>1, <1>5 DEF Sound, WriterOK, ReaderOK
<1>8. k.step # "idle"
  BY <1>2 DEF Asks
<1>9. UNCHANGED <<folders, files, cache, payload, comments, crossed>>
  BY DEF Fetch
<1>10. cache' \in [Keys -> Seq(Values)] /\ payload' \in [Runs -> Seq(Pages)] /\ crossed' \in BOOLEAN
  BY <1>9 DEF StoreInv, PagesTyped
<1> QED BY <1>1, <1>4, <1>5, <1>6, <1>7, <1>8, <1>9, <1>10, StoreMoves DEF Working

LEMMA HitStore == ASSUME StoreInv, NEW t \in Tasks, NEW key \in Keys, Hit(t, key) PROVE StoreInv'
<1>1. Asks(task[t], key) /\ cache[key] # NoEntry
  BY WantsAsks DEF Hit, Hits
<1>2. Fits(key, cache[key][1]) /\ task[t] \in TaskRows
  BY <1>1, TasksSound DEF StoreInv, Sound
<1>3. PICK new : Goes(t, new) /\ Reads(t, task[t], key, cache[key][1], new)
  BY <1>1, <1>2, LearnIs DEF Hit
<1>4. Sound(t, new) /\ Working(t) /\ new.comment = task[t].comment
  BY <1>2, <1>3, ReadsSound
<1>5. UNCHANGED <<folders, files, cache, payload, comments, crossed>>
  BY DEF Hit
<1>6. cache' \in [Keys -> Seq(Values)] /\ payload' \in [Runs -> Seq(Pages)] /\ crossed' \in BOOLEAN
  BY <1>5 DEF StoreInv, PagesTyped
<1> QED BY <1>3, <1>4, <1>5, <1>6, StoreMoves DEF Sound

LEMMA StoreStore == ASSUME StoreInv, NEW t \in Tasks, Store(t) PROVE StoreInv'
<1>1. PICK key, v : task[t].got = <<key, v>> /\ key \in Keys /\ v \in Values
  BY TasksSound DEF Store, Sound, TaskRows
<1>0. task[t].got # NoEntry /\ task[t].got[1] = key /\ task[t].got[2] = v
  BY <1>1 DEF Store
<1>2. Asks(task[t], key) /\ Fits(key, v) /\ task[t] \in TaskRows
  BY <1>0, TasksSound DEF Sound, TaskOK
<1>3. Learn(t, key, v) /\ cache' = [cache EXCEPT ![key] = <<v>>]
  BY <1>0 DEF Store
<1>4. PICK new : Goes(t, new) /\ Reads(t, task[t], key, v, new)
  BY <1>2, <1>3, LearnIs
<1>5. Sound(t, new) /\ Working(t) /\ new.comment = task[t].comment
  BY <1>2, <1>4, ReadsSound
<1>6. UNCHANGED <<folders, files, payload, comments, crossed>>
  BY DEF Store
<1>7. <<v>> \in Seq(Values) /\ <<v>>[1] = v
  BY <1>1, Single
<1>8. cache' \in [Keys -> Seq(Values)] /\ payload' \in [Runs -> Seq(Pages)] /\ crossed' \in BOOLEAN
  BY <1>3, <1>6, <1>7 DEF StoreInv, PagesTyped
<1>9. \A other \in Keys : cache'[other] \in {cache[other], NoEntry} \/ Fits(other, cache'[other][1])
  BY <1>2, <1>3, <1>7 DEF StoreInv, PagesTyped
<1> QED BY <1>4, <1>5, <1>6, <1>8, <1>9, StoreMoves DEF Sound
-----------------------------------------------------------------------------
LEMMA NoTaskIs ==
  ASSUME StoreInv
  PROVE  /\ NoTask \in TaskRows /\ TaskOK(NoTask) /\ WriterOK(NoTask) /\ ReaderOK(NoTask)
         /\ NoTask.step = "idle" /\ NoTask.folder = 0 /\ NoTask.list = {} /\ NoTask.left = {}
         /\ NoTask.got = NoEntry /\ NoTask.target = 0 /\ NoTask.items = <<>> /\ NoTask.owed = {}
         /\ NoTask.page = NoPage /\ NoTask.total = 0
<1>1. NoPage \in Pages
  BY DEF NoPage, Pages
<1>2. <<>> \in Seq(Items)
  OBVIOUS
<1>3. NoTask \in TaskRows
  BY <1>1, <1>2 DEF NoTask, TaskRows, ReaderSteps
<1>4. folders \in Nat
  BY DEF StoreInv, PagesTyped
<1> QED BY <1>3, <1>4 DEF NoTask, TaskOK, WriterOK, ReaderOK, WriterSteps, ReaderSteps

LEMMA ReadersAre == ASSUME NEW r \in Readers PROVE r \in Tasks /\ r \notin Writers
BY SummaryPageAssumption DEF Tasks

LEMMA WritersAre == ASSUME NEW w \in Writers PROVE w \in Tasks /\ w \notin Readers
BY SummaryPageAssumption DEF Tasks

LEMMA CachesTyped == ASSUME StoreInv, UNCHANGED <<cache, payload, crossed>>
  PROVE cache' \in [Keys -> Seq(Values)] /\ payload' \in [Runs -> Seq(Pages)] /\ crossed' \in BOOLEAN
BY DEF StoreInv, PagesTyped

LEMMA ReadFailsStore ==
  ASSUME StoreInv, NEW r \in Readers, NEW key \in Keys, ReadFails(r, key) PROVE StoreInv'
<1>1. PICK k : k = task[r] /\ Sound(r, k)
  BY TasksSound, ReadersAre
<1>2. Asks(k, key) /\ ReaderOK(k) /\ k.got = NoEntry
  BY <1>1, WantsAsks DEF ReadFails, Sound
<1>3. PICK left : left = IF k.step = "bodies" THEN k.left \ {key[2]} ELSE {}
  OBVIOUS
<1>4. left \subseteq k.left
  BY <1>3
<1>a. [k.page EXCEPT !.short = TRUE] \in Pages
  BY <1>1 DEF Sound, TaskRows, Pages
<1>5. PICK page : page = [k.page EXCEPT !.short = TRUE] /\ page \in Pages
  BY <1>a
<1>6. PICK new : /\ new = [k EXCEPT !.page = page, !.left = left,
                                    !.step = IF left = {} THEN "page" ELSE "bodies"]
                 /\ Goes(r, new)
  BY <1>1, <1>3, <1>5 DEF ReadFails, TaskAt
<1>7. k.step \in {"opp", "folder", "bodies"} /\ (k.step # "bodies" => left = {})
  BY <1>2, <1>3 DEF Asks, ReaderOK, ReaderSteps
<1>8. /\ new \in TaskRows /\ new.folder = k.folder /\ new.got = NoEntry /\ new.list = k.list
      /\ new.left = left /\ new.run = k.run /\ new.owed = k.owed
      /\ new.step = IF left = {} THEN "page" ELSE "bodies"
  <2>1. k \in TaskRows /\ left \in SUBSET Nat /\ k.got = NoEntry
    BY <1>1, <1>2, <1>4 DEF Sound, TaskRows
  <2>2. (IF left = {} THEN "page" ELSE "bodies") \in ReaderSteps
    BY DEF ReaderSteps
  <2> QED BY <1>5, <1>6, <2>1, <2>2 DEF TaskRows
<1>9. TaskOK(new) /\ ReaderOK(new)
  BY <1>1, <1>2, <1>4, <1>7, <1>8 DEF Sound, TaskOK, ReaderOK, ReaderSteps
<1>10. UNCHANGED <<folders, files, cache, payload, comments, crossed>>
  BY DEF ReadFails
<1> QED BY <1>6, <1>8, <1>9, <1>10, CachesTyped, ReadersAre, StoreMoves

\* No task moves, and entries are at most dropped.
LEMMA StoreSame ==
  ASSUME StoreInv, UNCHANGED <<folders, files, comments, task>>,
         cache' \in [Keys -> Seq(Values)], payload' \in [Runs -> Seq(Pages)], crossed' \in BOOLEAN,
         \A key \in Keys : cache'[key] # NoEntry => cache'[key] = cache[key]
  PROVE  StoreInv'
<1>1. UNCHANGED <<folders, files, comments, task>>
  OBVIOUS
<1>4. PagesTyped'
  BY <1>1 DEF StoreInv, PagesTyped
<1>5. Grown
  BY <1>1 DEF Grown, StoreInv, PagesTyped
<1>6. \A key \in Keys : cache'[key] # NoEntry => cache'[key] = cache[key]
  OBVIOUS
<1>7. \A key \in Keys : cache'[key] # NoEntry => Fits(key, cache[key][1])'
  BY <1>4, <1>5, <1>6, GrownFits DEF StoreInv
<1>8. \A t \in Tasks : TaskOK(task[t])'
  BY <1>1, <1>4, <1>5, GrownTask DEF StoreInv
<1>9. \A w \in Writers : WriterOK(task[w])'
  BY <1>1, <1>4, <1>5, GrownWriter, WritersAre DEF StoreInv
<1>10. \A r \in Readers : ReaderOK(task[r])'
  BY <1>1, <1>5, GrownReader DEF StoreInv
<1> QED BY <1>1, <1>4, <1>7, <1>8, <1>9, <1>10 DEF StoreInv, FileOK, CommentOK, ItemsOK, Working

LEMMA ExpireStore == ASSUME StoreInv, Expire PROVE StoreInv'
<1>1. UNCHANGED <<folders, files, comments, task>>
  BY DEF Expire
<1>2. NoEntry \in Seq(Values) /\ NoEntry \in Seq(Pages)
  BY DEF NoEntry
<1>3. cache' \in [Keys -> Seq(Values)] /\ payload' \in [Runs -> Seq(Pages)] /\ crossed' \in BOOLEAN
  BY <1>2 DEF Expire, StoreInv, PagesTyped
<1>4. \A key \in Keys : cache'[key] # NoEntry => cache'[key] = cache[key]
  BY DEF Expire, StoreInv, PagesTyped
<1> QED BY <1>1, <1>3, <1>4, StoreSame

LEMMA LoadStore ==
  ASSUME StoreInv, NEW r \in Readers, NEW run \in Runs, NEW force \in BOOLEAN, LoadPage(r, run, force)
  PROVE  StoreInv'
<1>1. PICK owed : owed = Acked(run)
  OBVIOUS
<1>2. owed \subseteq Nat /\ \A c \in owed : c \in DOMAIN comments /\ comments[c].state = "acked" /\ comments[c].run = run
  BY <1>1, Numbers DEF Acked, StoreInv
<1>3. UNCHANGED <<folders, files, cache, payload, comments, crossed>>
  BY DEF LoadPage
<1>4. CASE payload[run] # NoEntry
  <2>1. PICK page : page = payload[run][1] /\ page \in Pages
    BY <1>4, Held DEF StoreInv, PagesTyped, NoEntry
  <2>2. PICK new : new = [NoTask EXCEPT !.step = "reply", !.run = run, !.page = page, !.owed = owed] /\ Goes(r, new)
    BY <1>1, <1>4, <2>1 DEF LoadPage
  <2>3. new \in TaskRows /\ TaskOK(new) /\ ReaderOK(new)
    BY <1>2, <2>1, <2>2, NoTaskIs DEF TaskRows, TaskOK, ReaderOK, ReaderSteps
  <2> QED BY <1>3, <2>2, <2>3, CachesTyped, ReadersAre, StoreMoves
<1>5. CASE payload[run] = NoEntry
  <2>2. PICK new : new = [NoTask EXCEPT !.step = "opp", !.run = run, !.force = force, !.owed = owed] /\ Goes(r, new)
    BY <1>1, <1>5 DEF LoadPage
  <2>3. new \in TaskRows /\ TaskOK(new) /\ ReaderOK(new)
    BY <1>2, <2>2, NoTaskIs DEF TaskRows, TaskOK, ReaderOK, ReaderSteps
  <2> QED BY <1>3, <2>2, <2>3, CachesTyped, ReadersAre, StoreMoves
<1> QED BY <1>4, <1>5

LEMMA SetPayloadStore == ASSUME StoreInv, NEW r \in Readers, SetPayload(r) PROVE StoreInv'
<1>1. PICK k : k = task[r] /\ Sound(r, k) /\ ReaderOK(k)
  BY TasksSound, ReadersAre DEF Sound
<1>2. k.step = "page" /\ k.run \in Runs
  BY <1>1 DEF SetPayload, TaskAt, ReaderOK
<1>3. PICK new : new = [k EXCEPT !.step = "reply"] /\ Goes(r, new)
  BY <1>1 DEF SetPayload
<1>4. new \in TaskRows /\ new.step = "reply" /\ new.folder = k.folder /\ new.list = k.list
      /\ new.left = k.left /\ new.got = k.got /\ new.run = k.run /\ new.owed = k.owed
  BY <1>1, <1>3, SMTT(60) DEF Sound, TaskRows, ReaderSteps
<1>5. TaskOK(new) /\ ReaderOK(new)
  BY <1>1, <1>2, <1>4 DEF Sound, TaskOK, ReaderOK, Asks, ReaderSteps
<1>6. UNCHANGED <<folders, files, cache, comments, crossed>>
  BY DEF SetPayload
<1>7. <<k.page>> \in Seq(Pages)
  BY <1>1, Single DEF Sound, TaskRows
<1>8. payload' \in [Runs -> Seq(Pages)]
  BY <1>1, <1>7 DEF SetPayload, StoreInv, PagesTyped
<1>9. cache' \in [Keys -> Seq(Values)] /\ crossed' \in BOOLEAN
  BY <1>6 DEF StoreInv, PagesTyped
<1> QED BY <1>3, <1>4, <1>5, <1>6, <1>8, <1>9, ReadersAre, StoreMoves

LEMMA ReplyStore == ASSUME StoreInv, NEW r \in Readers, Reply(r) PROVE StoreInv'
BY NoTaskIs, CachesTyped, ReadersAre, StoreMoves DEF Reply
-----------------------------------------------------------------------------
\* The steps of a submission that change neither the records nor the comments.
LEMMA StepsOn ==
  ASSUME StoreInv, NEW w \in Writers, NEW step, UNCHANGED <<folders, files, payload, comments>>,
         Goes(w, [task[w] EXCEPT !.step = step]), task[w].got = NoEntry, step \in WriterSteps,
         WriterOK([task[w] EXCEPT !.step = step]), Working(w), step # "folder", step # "opp",
         cache' \in [Keys -> Seq(Values)], crossed' \in BOOLEAN,
         \A key \in Keys : cache'[key] \in {cache[key], NoEntry}
  PROVE  StoreInv'
<1>1. PICK k : k = task[w] /\ Sound(w, k)
  BY TasksSound, WritersAre
<1>2. PICK new : new = [k EXCEPT !.step = step] /\ Goes(w, new) /\ WriterOK(new)
  BY <1>1
<1>3. new \in TaskRows /\ new.folder = k.folder /\ new.list = k.list /\ new.left = k.left
      /\ new.got = NoEntry /\ new.comment = k.comment /\ new.step = step
  BY <1>1, <1>2 DEF Sound, TaskRows
<1>4. TaskOK(new)
  BY <1>1, <1>3 DEF Sound, TaskOK
<1>5. payload' \in [Runs -> Seq(Pages)]
  BY DEF StoreInv, PagesTyped
<1> QED BY <1>1, <1>2, <1>3, <1>4, <1>5, WritersAre, StoreMoves

\* A task in none of the reading steps has nothing fetched.
LEMMA NothingGot ==
  ASSUME StoreInv, NEW t \in Tasks, task[t].step \notin {"opp", "folder", "bodies", "seek"}
  PROVE  task[t].got = NoEntry
BY DEF StoreInv, TaskOK, Asks

LEMMA NewRecordStore == ASSUME StoreInv, NEW w \in Writers, NewRecord(w) PROVE StoreInv'
<1>1. PICK k : k = task[w] /\ Sound(w, k) /\ WriterOK(k)
  BY TasksSound, WritersAre DEF Sound
<1>2. k.step = "seek" /\ k.got = NoEntry
  BY <1>1 DEF NewRecord, Walking, TaskAt
<1>3. PICK step : step = (IF k.folder = 0 THEN "mkdir" ELSE "write") /\ Goes(w, [k EXCEPT !.step = step])
  BY <1>1 DEF NewRecord
<1>4. PICK new : new = [k EXCEPT !.step = step]
  OBVIOUS
<1>5. /\ new.comment = k.comment /\ new.folder = k.folder /\ new.step = step /\ new.target = k.target
      /\ new.items = k.items /\ new.run = k.run /\ new.force = k.force
  BY <1>1, <1>4 DEF Sound, TaskRows
<1>6. WriterOK(new)
  BY <1>1, <1>2, <1>3, <1>5 DEF WriterOK, WriterSteps, Seeking, WrittenSteps
<1>7. UNCHANGED <<folders, files, cache, payload, comments, crossed>>
  BY DEF NewRecord
<1>8. step \in WriterSteps
  BY <1>3 DEF WriterSteps, Seeking
<1> QED BY <1>1, <1>2, <1>3, <1>4, <1>6, <1>7, <1>8, CachesTyped, StepsOn DEF Working

LEMMA DropStore ==
  ASSUME StoreInv, NEW w \in Writers, DropOpp(w) \/ DropWritten(w) PROVE StoreInv'
<1>1. PICK k : k = task[w] /\ Sound(w, k) /\ WriterOK(k)
  BY TasksSound, WritersAre DEF Sound
<1>2. PICK key, step : Drop(w, key, step) /\ ((k.step = "made" /\ step = "write")
                                              \/ (k.step \in {"updated", "uploaded"} /\ step = "clear"))
  BY <1>1 DEF DropOpp, DropWritten, TaskAt
<1>3. Goes(w, [k EXCEPT !.step = step]) /\ UNCHANGED <<folders, files, payload, comments>>
  BY <1>1, <1>2 DEF Drop
<1>4. PICK new : new = [k EXCEPT !.step = step]
  OBVIOUS
<1>5. /\ new.comment = k.comment /\ new.folder = k.folder /\ new.step = step /\ new.target = k.target
      /\ new.items = k.items /\ new.run = k.run /\ new.force = k.force
  BY <1>1, <1>4 DEF Sound, TaskRows
<1>6. WriterOK(new)
  BY <1>1, <1>2, <1>5 DEF WriterOK, WriterSteps, Seeking, WrittenSteps
<1>7. NoEntry \in Seq(Values)
  BY DEF NoEntry
<1>8. cache' \in [Keys -> Seq(Values)] /\ crossed' \in BOOLEAN
      /\ \A other \in Keys : cache'[other] \in {cache[other], NoEntry}
  BY <1>2, <1>7 DEF Drop, Crosses, StoreInv, PagesTyped
<1>9. step \in WriterSteps /\ k.got = NoEntry
  BY <1>1, <1>2, NothingGot, WritersAre DEF WriterSteps, Seeking, WrittenSteps
<1> QED BY <1>1, <1>2, <1>3, <1>4, <1>6, <1>8, <1>9, StepsOn DEF Working

\* Nobody else is at a writer's comment.
LEMMA OwnComment ==
  ASSUME StoreInv, NEW w \in Writers, Working(w)
  PROVE  /\ task[w].comment \in DOMAIN comments /\ comments[task[w].comment].state = "open"
         /\ \A v \in Writers : v # w /\ Working(v) => task[v].comment # task[w].comment
         /\ comments[task[w].comment].run = task[w].run /\ task[w].run \in Runs /\ task[w].force
BY DEF StoreInv, WriterOK, Working

\* A comment comes to an end.
LEMMA EndsStore ==
  ASSUME StoreInv, NEW w \in Writers, Working(w), NEW state \in {"acked", "rejected", "failed"},
         CommentEnds(w, state), state = "acked" => comments[task[w].comment].file # 0,
         Goes(w, NoTask), UNCHANGED <<folders, files, cache>>, crossed' \in BOOLEAN,
         payload' \in [Runs -> Seq(Pages)]
  PROVE  StoreInv'
<1>1. PICK c : c = task[w].comment /\ c \in DOMAIN comments
  BY OwnComment
<1>2. comments' = [comments EXCEPT ![c].state = state]
  BY <1>1 DEF CommentEnds
<1>3. comments \in Seq(CommentRows) /\ comments[c] \in CommentRows /\ comments[c].state = "open"
  BY <1>1, Numbers, OwnComment DEF StoreInv, PagesTyped
<1>4. PICK e : e = [comments[c] EXCEPT !.state = state]
  OBVIOUS
<1>5. e \in CommentRows /\ e.file = comments[c].file /\ e.id = comments[c].id /\ e.run = comments[c].run
      /\ e.by = comments[c].by /\ e.state = state
  BY <1>3, <1>4 DEF CommentRows
<1>6. comments' = [comments EXCEPT ![c] = e]
  BY <1>2, <1>4
<1>7. comments' \in Seq(CommentRows) /\ DOMAIN comments' = DOMAIN comments /\ comments'[c] = e
      /\ \A d \in DOMAIN comments : d # c => comments'[d] = comments[d]
  BY <1>1, <1>3, <1>5, <1>6, ExceptSeq
<1>8. PagesTyped'
  BY <1>7, NoTaskIs, WritersAre DEF StoreInv, PagesTyped, Goes
<1>9. Grown
  <2>1. \A d \in DOMAIN comments :
          /\ comments'[d].run = comments[d].run /\ comments'[d].by = comments[d].by
          /\ comments'[d].file = comments[d].file /\ comments'[d].id = comments[d].id
    BY <1>5, <1>7
  <2> QED BY <1>7, <2>1 DEF Grown, StoreInv, PagesTyped
<1>10. \A f \in DOMAIN files' : FileOK(f)'
  BY <1>9, GrownItems, Numbers DEF StoreInv, FileOK
<1>11. \A d \in DOMAIN comments' : CommentOK(d)'
  BY <1>1, <1>5, <1>7 DEF StoreInv, CommentOK
<1>12. TaskOK(NoTask)' /\ WriterOK(NoTask)'
  BY <1>8, <1>9, NoTaskIs, GrownTask DEF StoreInv, WriterOK
<1>13. \A v \in Writers : v # w /\ Working(v) =>
           /\ comments'[task[v].comment].state = comments[task[v].comment].state
           /\ comments'[task[v].comment].file = comments[task[v].comment].file
  BY <1>1, <1>7, OwnComment
<1>14. \A d \in DOMAIN comments : comments[d].state = "acked" => comments'[d].state = "acked"
  BY <1>3, <1>7
<1>15. \A key \in Keys : cache'[key] \in {cache[key], NoEntry} \/ Fits(key, cache[key][1])'
  OBVIOUS
<1> QED BY <1>8, <1>9, <1>10, <1>11, <1>12, <1>13, <1>14, <1>15, WritersAre, NoTaskIs, StoreKept
-----------------------------------------------------------------------------
LEMMA RejectStore == ASSUME StoreInv, NEW w \in Writers, Reject(w) PROVE StoreInv'
<1>1. Working(w)
  BY DEF Reject, Full, TaskAt, Working
<1> QED BY <1>1, EndsStore, CachesTyped DEF Reject

LEMMA FailStore == ASSUME StoreInv, NEW w \in Writers, Fail(w) PROVE StoreInv'
<1>1. Working(w)
  BY DEF Fail, Busy, Working
<1>2. payload' \in [Runs -> Seq(Pages)] /\ crossed' \in BOOLEAN
  BY DEF Fail, StoreInv, PagesTyped
<1> QED BY <1>1, <1>2, EndsStore DEF Fail

LEMMA ClearStore == ASSUME StoreInv, NEW w \in Writers, ClearPayload(w) PROVE StoreInv'
<1>1. Working(w) /\ comments[task[w].comment].file # 0
  BY DEF ClearPayload, TaskAt, Working, StoreInv, WriterOK, WrittenSteps
<1>2. NoEntry \in Seq(Pages)
  BY DEF NoEntry
<1>3. payload' \in [Runs -> Seq(Pages)] /\ crossed' \in BOOLEAN
  BY <1>2 DEF ClearPayload, Crosses, StoreInv, PagesTyped
<1> QED BY <1>1, <1>3, EndsStore DEF ClearPayload

LEMMA FolderStore == ASSUME StoreInv, NEW w \in Writers, CreateFolder(w) PROVE StoreInv'
<1>1. PICK k : k = task[w] /\ Sound(w, k) /\ WriterOK(k)
  BY TasksSound, WritersAre DEF Sound
<1>2. k.step = "mkdir" /\ k.folder = 0
  BY <1>1 DEF CreateFolder, TaskAt, WriterOK
<1>3. PICK d : d = folders + 1 /\ folders' = d /\ d \in Nat \ {0} /\ folders \in Nat
  BY DEF CreateFolder, StoreInv, PagesTyped
<1>4. PICK new : new = [k EXCEPT !.step = "made", !.folder = d] /\ Goes(w, new)
  BY <1>1, <1>3 DEF CreateFolder
<1>5. /\ new \in TaskRows /\ new.comment = k.comment /\ new.folder = d /\ new.step = "made"
      /\ new.target = k.target /\ new.items = k.items /\ new.run = k.run /\ new.force = k.force
      /\ new.list = k.list /\ new.left = k.left /\ new.got = k.got
  BY <1>1, <1>3, <1>4, ZenonT(60) DEF Sound, TaskRows, WriterSteps, Seeking
<1>6. UNCHANGED <<files, cache, payload, comments, crossed>>
  BY DEF CreateFolder
<1>7. PagesTyped' /\ Grown
  BY <1>3, <1>4, <1>5, <1>6, WritersAre DEF StoreInv, PagesTyped, Grown, Goes
<1>8. \A f \in DOMAIN files' : FileOK(f)'
  BY <1>3, <1>6 DEF StoreInv, FileOK, ItemsOK
<1>9. \A c \in DOMAIN comments' : CommentOK(c)'
  BY <1>6 DEF StoreInv, CommentOK
<1>10. k.list = {} /\ k.left = {}
  <2>1. \A f \in DOMAIN files : files[f].folder # 0
    BY <1>3 DEF StoreInv, FileOK
  <2>2. In(0) = {}
    BY <2>1 DEF In
  <2> QED BY <1>1, <1>2, <2>2 DEF Sound, TaskOK
<1>11. k.got = NoEntry
  BY <1>1, <1>2, NothingGot, WritersAre
<1>12. TaskOK(new)'
  BY <1>3, <1>5, <1>10, <1>11 DEF TaskOK
<1>13. WriterOK(new)
  BY <1>1, <1>2, <1>3, <1>5 DEF WriterOK, WriterSteps, Seeking, WrittenSteps
<1>14. WriterOK(new)'
  BY <1>6, <1>13, <1>5 DEF WriterOK, ItemsOK
<1> QED BY <1>1, <1>2, <1>4, <1>5, <1>6, <1>7, <1>8, <1>9, <1>12, <1>14, WritersAre, StoreKept DEF Working

\* What a submission does to the comments, and where it starts.
Submitted(w, by, run, decision, c, others, new) ==
  /\ others = {task[v].comment : v \in {u \in Writers : Working(u)}}
  /\ c \in Nat \ {0} /\ c \notin DOMAIN comments /\ DOMAIN comments' = DOMAIN comments \cup {c}
  /\ comments' \in Seq(CommentRows)
  /\ comments'[c] = [run |-> run, by |-> by, decision |-> decision, state |-> "open",
                     file |-> 0, id |-> <<>>, overlapped |-> others # {}]
  /\ \A d \in DOMAIN comments :
       /\ d \notin others => comments'[d] = comments[d]
       /\ d \in others => comments'[d] = [comments[d] EXCEPT !.overlapped = TRUE]
       /\ comments'[d] \in CommentRows
  /\ Goes(w, new) /\ new \in TaskRows /\ TaskOK(new)
  /\ new = [NoTask EXCEPT !.step = "opp", !.comment = c, !.run = run, !.force = TRUE]

LEMMA SubmitIs ==
  ASSUME StoreInv, NEW w \in Writers, NEW by \in Reviewers, NEW run \in Runs, NEW decision \in Decisions,
         Submit(w, by, run, decision)
  PROVE  \E c, others, new : Submitted(w, by, run, decision, c, others, new)
<1>1. PICK others : others = {task[v].comment : v \in Writers \cap Busy}
  OBVIOUS
<1>2. Writers \cap Busy = {u \in Writers : Working(u)}
  <2>1. ASSUME NEW v \in Writers PROVE v \in Busy <=> Working(v)
    BY WritersAre DEF Busy, Working, StoreInv, WriterOK, WriterSteps, Seeking, WrittenSteps
  <2> QED BY <2>1
<1>3. PICK c : c = Len(comments) + 1
  OBVIOUS
<1>4. c \in Nat \ {0} /\ c \notin DOMAIN comments /\ Len(comments) \in Nat /\ DOMAIN comments = 1..Len(comments)
      /\ comments \in Seq(CommentRows)
  BY <1>3, Numbers DEF StoreInv, PagesTyped
<1>5. PICK row : row = [run |-> run, by |-> by, decision |-> decision, state |-> "open",
                        file |-> 0, id |-> <<>>, overlapped |-> others # {}]
  OBVIOUS
<1>a. row \in CommentRows
  BY <1>5 DEF CommentRows
<1>6. PICK old : old = [i \in DOMAIN comments |->
                          IF i \in others THEN [comments[i] EXCEPT !.overlapped = TRUE] ELSE comments[i]]
  OBVIOUS
<1>7. \A i \in DOMAIN comments : old[i] \in CommentRows
  <2>1. \A i \in DOMAIN comments : comments[i] \in CommentRows
    BY Numbers DEF StoreInv
  <2>2. \A i \in DOMAIN comments : [comments[i] EXCEPT !.overlapped = TRUE] \in CommentRows
    BY <2>1 DEF CommentRows
  <2> QED BY <1>6, <2>1, <2>2
<1>8. old \in Seq(CommentRows) /\ Len(old) = Len(comments)
  <2>1. old \in [1..Len(comments) -> CommentRows]
    BY <1>4, <1>6, <1>7
  <2> QED BY <1>4, <2>1, SeqDef
<1>9. comments' = Append(old, row)
  BY <1>1, <1>5, <1>6 DEF Submit
<1>10. comments' \in Seq(CommentRows) /\ DOMAIN comments' = DOMAIN comments \cup {c} /\ comments'[c] = row
       /\ \A d \in DOMAIN comments : comments'[d] = old[d]
  BY <1>3, <1>4, <1>5, <1>8, <1>9, <1>a, AppendProperties, LenProperties
<1>11. \A d \in DOMAIN comments :
                /\ d \notin others => comments'[d] = comments[d]
                /\ d \in others => comments'[d] = [comments[d] EXCEPT !.overlapped = TRUE]
                /\ comments'[d] \in CommentRows
  BY <1>6, <1>7, <1>10
<1>12. PICK new : new = [NoTask EXCEPT !.step = "opp", !.comment = c, !.run = run, !.force = TRUE]
                  /\ Goes(w, new)
  BY <1>3 DEF Submit
<1>13. new \in TaskRows /\ TaskOK(new)
  BY <1>4, <1>12, NoTaskIs DEF TaskRows, TaskOK, ReaderSteps
<1> QED BY <1>1, <1>2, <1>4, <1>5, <1>10, <1>11, <1>12, <1>13 DEF Submitted
-----------------------------------------------------------------------------
LEMMA SubmitStore ==
  ASSUME StoreInv, NEW w \in Writers, NEW by \in Reviewers, NEW run \in Runs, NEW decision \in Decisions,
         Submit(w, by, run, decision)
  PROVE  StoreInv'
<1>0. PICK c, others, new : Submitted(w, by, run, decision, c, others, new)
  BY SubmitIs
<1>1. /\ c \in Nat \ {0} /\ c \notin DOMAIN comments /\ DOMAIN comments' = DOMAIN comments \cup {c}
      /\ comments' \in Seq(CommentRows)
      /\ comments'[c] = [run |-> run, by |-> by, decision |-> decision, state |-> "open",
                         file |-> 0, id |-> <<>>, overlapped |-> others # {}]
      /\ Goes(w, new) /\ new \in TaskRows /\ TaskOK(new)
      /\ new = [NoTask EXCEPT !.step = "opp", !.comment = c, !.run = run, !.force = TRUE]
  BY <1>0 DEF Submitted
<1>2. ASSUME NEW d \in DOMAIN comments
      PROVE  /\ comments'[d].run = comments[d].run /\ comments'[d].by = comments[d].by
             /\ comments'[d].file = comments[d].file /\ comments'[d].id = comments[d].id
             /\ comments'[d].state = comments[d].state
  <2>1. PICK old, row : old = comments[d] /\ row = comments'[d] /\ old \in CommentRows
    BY Numbers DEF StoreInv
  <2>2. row = old \/ row = [old EXCEPT !.overlapped = TRUE]
    BY <1>0, <2>1 DEF Submitted
  <2>3. row.run = old.run /\ row.by = old.by /\ row.file = old.file /\ row.id = old.id /\ row.state = old.state
    BY <2>1, <2>2 DEF CommentRows
  <2> QED BY <2>1, <2>3
<1>3. UNCHANGED <<folders, files, cache, payload, crossed>>
  BY DEF Submit
<1>4. PagesTyped'
  BY <1>1, <1>3, WritersAre DEF StoreInv, PagesTyped, Goes
<1>5. Grown
  BY <1>1, <1>2, <1>3 DEF Grown, StoreInv, PagesTyped
<1>6. \A f \in DOMAIN files' : FileOK(f)'
  BY <1>3, <1>5, GrownItems, Numbers DEF StoreInv, FileOK
<1>7. \A d \in DOMAIN comments' : CommentOK(d)'
  BY <1>1, <1>2, <1>3 DEF StoreInv, CommentOK
<1>8. TaskOK(new)'
  BY <1>1, <1>4, <1>5, GrownTask DEF StoreInv
<1>9. WriterOK(new)'
  <2>1. /\ new.step = "opp" /\ new.comment = c /\ new.run = run /\ new.force /\ new.target = 0 /\ new.items = <<>>
    BY <1>1, NoTaskIs DEF NoTask
  <2> QED BY <1>1, <2>1 DEF WriterOK, WriterSteps, Seeking, WrittenSteps
<1>10. new.step # "idle" /\ new.comment = c
  BY <1>1, NoTaskIs DEF NoTask
<1>11. \A v \in Writers : v # w /\ Working(v) =>
           /\ comments'[task[v].comment].state = comments[task[v].comment].state
           /\ comments'[task[v].comment].file = comments[task[v].comment].file
  BY <1>2, OwnComment
<1>12. \A d \in DOMAIN comments : comments[d].state = "acked" => comments'[d].state = "acked"
  BY <1>2
<1>13. \A key \in Keys : cache'[key] \in {cache[key], NoEntry} \/ Fits(key, cache[key][1])'
  BY <1>3
<1> QED BY <1>1, <1>4, <1>5, <1>6, <1>7, <1>8, <1>9, <1>10, <1>11, <1>12, <1>13, WritersAre, StoreKept

\* An item appended under NextId gets an id of its own, and ids stay numbered.
LEMMA NumberedOn ==
  ASSUME NEW items \in Seq(Items), Numbered(items), NEW d \in Decisions, NEW c \in Nat,
         NEW item, item = [id |-> NextId(items, d), of |-> c]
  PROVE  /\ item \in Items /\ item.id \in Decisions \X Nat /\ item.of = c
         /\ Append(items, item) \in Seq(Items) /\ Numbered(Append(items, item))
         /\ Len(Append(items, item)) = Len(items) + 1
         /\ \A i \in DOMAIN items : items[i].id # item.id
<1>1. Len(items) \in Nat /\ DOMAIN items = 1..Len(items) /\ \A i \in DOMAIN items : items[i] \in Items
  BY LenProperties, ElementOfSeq
<1>2. \A e : OnDecision(items, e) \subseteq DOMAIN items
  BY DEF OnDecision
<1>a. IsFiniteSet(DOMAIN items)
  BY <1>1, FS_Interval
<1>3. \A e : IsFiniteSet(OnDecision(items, e)) /\ Cardinality(OnDecision(items, e)) \in Nat
  BY <1>2, <1>a, FS_Subset, FS_CardinalityType
<1>4. PICK m : m = Cardinality(OnDecision(items, d)) /\ m \in Nat
  BY <1>3
<1>5. NextId(items, d) = <<d, m + 1>>
  BY <1>4 DEF NextId, OnDecision
<1>6. item.id = <<d, m + 1>> /\ item \in Items /\ item.id[1] = d /\ item.id[2] = m + 1
      /\ item.id \in Decisions \X Nat /\ item.of = c
  BY <1>4, <1>5 DEF Items
<1>7. PICK more : more = Append(items, item)
  OBVIOUS
<1>8. more \in Seq(Items) /\ Len(more) = Len(items) + 1 /\ more[Len(items) + 1] = item
      /\ DOMAIN more = 1..(Len(items) + 1) /\ \A i \in DOMAIN items : more[i] = items[i]
  BY <1>1, <1>6, <1>7, AppendProperties, LenProperties
<1>9. \A i \in DOMAIN items : items[i].id # item.id
  <2>1. SUFFICES ASSUME NEW i \in DOMAIN items, items[i].id = item.id PROVE FALSE
    OBVIOUS
  <2>2. items[i].id[1] = d /\ items[i].id[2] = m + 1
    BY <1>6, <2>1
  <2>3. m + 1 <= m
    BY <1>4, <2>2 DEF Numbered
  <2> QED BY <1>4, <2>3
<1>10. ASSUME NEW e, e # d PROVE OnDecision(more, e) = OnDecision(items, e)
  <2>1. \A i \in DOMAIN more : i \in DOMAIN items \/ i = Len(items) + 1
    BY <1>1, <1>8
  <2>2. more[Len(items) + 1].id[1] # e
    BY <1>6, <1>8, <1>10
  <2> QED BY <1>1, <1>8, <2>1, <2>2 DEF OnDecision
<1>11. OnDecision(more, d) = OnDecision(items, d) \cup {Len(items) + 1}
  <2>1. \A i \in DOMAIN more : i \in DOMAIN items \/ i = Len(items) + 1
    BY <1>1, <1>8
  <2> QED BY <1>1, <1>6, <1>8, <2>1 DEF OnDecision
<1>12. Cardinality(OnDecision(more, d)) = m + 1
  <2>1. Len(items) + 1 \notin OnDecision(items, d)
    BY <1>1, <1>2
  <2> QED BY <1>3, <1>4, <1>11, <2>1, FS_AddElement
<1>13. Numbered(more)
  <2>1. SUFFICES ASSUME NEW i \in DOMAIN more
                 PROVE  more[i].id[2] <= Cardinality(OnDecision(more, more[i].id[1]))
    BY DEF Numbered
  <2>2. CASE i = Len(items) + 1
    BY <1>4, <1>6, <1>8, <1>12, <2>2
  <2>3. CASE i \in DOMAIN items
    <3>1. more[i] = items[i] /\ items[i].id[2] <= Cardinality(OnDecision(items, items[i].id[1]))
          /\ items[i].id[2] \in Nat
      BY <1>1, <1>8, <2>3 DEF Numbered, Items
    <3>2. CASE items[i].id[1] = d
      BY <1>4, <1>12, <3>1, <3>2
    <3>3. CASE items[i].id[1] # d
      BY <1>10, <3>1, <3>3
    <3> QED BY <3>2, <3>3
  <2> QED BY <1>1, <1>8, <2>2, <2>3
<1> QED BY <1>6, <1>7, <1>8, <1>9, <1>13
-----------------------------------------------------------------------------
\* What a write appends, where, and what becomes of the comment.
Appended(w, k, c, f, item, e, g, new) ==
  /\ k = task[w] /\ k.step = "write" /\ c = k.comment /\ c \in DOMAIN comments /\ Sound(w, k) /\ k.got = NoEntry
  /\ k.items \in Seq(Items) /\ Len(k.items) < MaxPerRecord /\ Numbered(k.items)
  /\ item = [id |-> NextId(k.items, comments[c].decision), of |-> c]
  /\ item \in Items /\ item.id \in Decisions \X Nat /\ item.of = c
  /\ \A i \in DOMAIN k.items : k.items[i].id # item.id
  /\ e = [comments[c] EXCEPT !.file = f, !.id = item.id] /\ e \in CommentRows
  /\ comments' \in Seq(CommentRows) /\ DOMAIN comments' = DOMAIN comments /\ comments'[c] = e
  /\ \A d \in DOMAIN comments : d # c => comments'[d] = comments[d]
  /\ g \in Records /\ g.items = Append(k.items, item) /\ Numbered(g.items) /\ g.run = comments[c].run
  /\ Len(g.items) <= MaxPerRecord
  /\ files' \in Seq(Records) /\ DOMAIN files' = DOMAIN files \cup {f} /\ files'[f] = g
  /\ \A h \in DOMAIN files : h # f => files'[h] = files[h]
  /\ k.target # 0 => /\ f = k.target /\ f \in DOMAIN files /\ ItemsOK(k.items, f)
                     /\ g.folder = files[f].folder /\ g.slug = files[f].slug /\ g.run = files[f].run
  /\ k.target = 0 => /\ f = Len(files) + 1 /\ f \notin DOMAIN files /\ k.items = <<>>
                     /\ g.folder = k.folder /\ g.slug = <<SlugOf[comments[c].by], k.n>>
  /\ f \in Nat \ {0}
  /\ Goes(w, new) /\ new = [k EXCEPT !.step = IF k.target # 0 THEN "updated" ELSE "uploaded"]

LEMMA WriteIs ==
  ASSUME StoreInv, NEW w \in Writers, Write(w)
  PROVE  \E k, c, f, item, e, g, new : Appended(w, k, c, f, item, e, g, new)
<1>1. PICK k : k = task[w] /\ Sound(w, k) /\ WriterOK(k) /\ k \in TaskRows
  BY TasksSound, WritersAre DEF Sound
<1>2. k.step = "write" /\ ~Full(w) /\ k.got = NoEntry
  BY <1>1, NothingGot, WritersAre DEF Write, TaskAt
<1>3. PICK c : c = k.comment /\ c \in DOMAIN comments /\ c \in Nat /\ comments[c] \in CommentRows
               /\ comments[c].run = k.run
  BY <1>1, <1>2, Numbers DEF WriterOK, StoreInv
<1>4. comments[c].decision \in Decisions /\ comments[c].run \in Runs /\ comments[c].by \in Reviewers
  BY <1>3 DEF CommentRows
<1>5. k.items \in Seq(Items) /\ k.target \in Nat /\ k.n \in Nat /\ k.folder \in Nat
  BY <1>1 DEF TaskRows
<1>6. Len(k.items) \in Nat /\ Len(k.items) < MaxPerRecord
  BY <1>1, <1>2, <1>5, LenProperties, SummaryPageAssumption DEF Full, TaskAt
<1>7. Numbered(k.items)
  <2>1. CASE k.target = 0
    BY <1>1, <1>2, <2>1 DEF WriterOK, Numbered
  <2>2. CASE k.target # 0
    BY <1>1, <1>2, <2>2 DEF WriterOK, ItemsOK
  <2> QED BY <2>1, <2>2
<1>8. PICK item : item = [id |-> NextId(k.items, comments[c].decision), of |-> c]
  OBVIOUS
<1>9. /\ item \in Items /\ item.id \in Decisions \X Nat /\ item.of = c
      /\ Append(k.items, item) \in Seq(Items) /\ Numbered(Append(k.items, item))
      /\ Len(Append(k.items, item)) = Len(k.items) + 1
      /\ \A i \in DOMAIN k.items : k.items[i].id # item.id
  BY <1>3, <1>4, <1>5, <1>7, <1>8, NumberedOn
<1>10. PICK more : more = Append(k.items, item) /\ more \in Seq(Items)
  BY <1>9
<1>11. Len(more) <= MaxPerRecord /\ Numbered(more)
  BY <1>6, <1>9, <1>10, SummaryPageAssumption
<1>12. PICK f : f = IF k.target # 0 THEN k.target ELSE Len(files) + 1
  OBVIOUS
<1>13. Len(files) \in Nat /\ DOMAIN files = 1..Len(files) /\ files \in Seq(Records)
  BY Numbers DEF StoreInv, PagesTyped
<1>14. PICK e : e = [comments[c] EXCEPT !.file = f, !.id = item.id]
  OBVIOUS
<1>15. comments' = [comments EXCEPT ![c] = e]
  <2>1. comments' = [comments EXCEPT ![c].file = f, ![c].id = item.id]
    BY <1>1, <1>3, <1>8, <1>12 DEF Write, Comment
  <2>2. PICK mid : mid = [comments EXCEPT ![c].file = f]
    OBVIOUS
  <2>3. comments' = [mid EXCEPT ![c].id = item.id]
    BY <2>1, <2>2
  <2>4. DOMAIN mid = DOMAIN comments /\ mid[c] = [comments[c] EXCEPT !.file = f]
    BY <1>3, <2>2
  <2>5. [mid[c] EXCEPT !.id = item.id] = e
    BY <1>14, <2>4
  <2>6. comments' = [mid EXCEPT ![c] = e]
    BY <2>3, <2>5
  <2> QED BY <1>3, <2>2, <2>6 DEF StoreInv, PagesTyped
<1>16. f \in Nat \ {0}
  BY <1>5, <1>12, <1>13
<1>17. e \in CommentRows
  BY <1>3, <1>9, <1>14, <1>16 DEF CommentRows
<1>18. comments \in Seq(CommentRows) /\ c \in 1..Len(comments) /\ DOMAIN comments = 1..Len(comments)
  BY <1>3, Numbers DEF StoreInv, PagesTyped
<1>19. comments' \in Seq(CommentRows) /\ DOMAIN comments' = DOMAIN comments /\ comments'[c] = e
       /\ \A d \in DOMAIN comments : d # c => comments'[d] = comments[d]
  BY <1>15, <1>17, <1>18, ExceptSeq
<1>20. PICK new : new = [k EXCEPT !.step = IF k.target # 0 THEN "updated" ELSE "uploaded"] /\ Goes(w, new)
  BY <1>1 DEF Write
<1> DEFINE Rest(g) ==
      /\ g \in Records /\ g.items = more /\ g.run = comments[c].run
      /\ files' \in Seq(Records) /\ DOMAIN files' = DOMAIN files \cup {f} /\ files'[f] = g
      /\ \A h \in DOMAIN files : h # f => files'[h] = files[h]
      /\ k.target # 0 => /\ f = k.target /\ f \in DOMAIN files /\ ItemsOK(k.items, f)
                         /\ g.folder = files[f].folder /\ g.slug = files[f].slug /\ g.run = files[f].run
      /\ k.target = 0 => /\ f = Len(files) + 1 /\ f \notin DOMAIN files /\ k.items = <<>>
                         /\ g.folder = k.folder /\ g.slug = <<SlugOf[comments[c].by], k.n>>
<1>21. ASSUME k.target # 0 PROVE \E g : Rest(g)
  <2>1. f = k.target /\ f \in DOMAIN files /\ files[f] \in Records /\ files[f].run = k.run /\ ItemsOK(k.items, f)
    BY <1>1, <1>2, <1>12, <1>21, Numbers DEF WriterOK, Sound, TaskOK, In, StoreInv
  <2>2. files' = [files EXCEPT ![f].items = more]
    BY <1>1, <1>3, <1>8, <1>10, <1>12, <1>21 DEF Write, Comment
  <2>3. PICK g : g = [files[f] EXCEPT !.items = more]
    OBVIOUS
  <2>4. files' = [files EXCEPT ![f] = g]
    BY <2>2, <2>3
  <2>5. g \in Records /\ g.items = more /\ g.folder = files[f].folder /\ g.slug = files[f].slug
        /\ g.run = files[f].run
    BY <1>10, <2>1, <2>3 DEF Records
  <2>6. files' \in Seq(Records) /\ DOMAIN files' = DOMAIN files /\ files'[f] = g
        /\ \A h \in DOMAIN files : h # f => files'[h] = files[h]
    BY <1>13, <2>1, <2>4, <2>5, ExceptSeq
  <2>7. Rest(g)
    BY <1>3, <1>21, <2>1, <2>5, <2>6
  <2> QED BY <2>7
<1>22. ASSUME k.target = 0 PROVE \E g : Rest(g)
  <2>1. f = Len(files) + 1 /\ f \notin DOMAIN files /\ k.items = <<>>
    BY <1>1, <1>2, <1>12, <1>13, <1>22 DEF WriterOK
  <2>2. Append(<<>>, item) = <<item>>
    OBVIOUS
  <2>3. more = <<item>>
    BY <1>10, <2>1, <2>2
  <2>4. PICK g : g = [folder |-> k.folder, slug |-> <<SlugOf[comments[c].by], k.n>>,
                      run |-> comments[c].run, items |-> more]
    OBVIOUS
  <2>5. files' = Append(files, g)
    BY <1>1, <1>3, <1>8, <1>22, <2>3, <2>4 DEF Write, Comment
  <2>6. <<SlugOf[comments[c].by], k.n>> \in Slugs
    BY <1>4, <1>5 DEF Slugs
  <2>7. g \in Records
    BY <1>4, <1>5, <1>10, <2>4, <2>6 DEF Records
  <2>8. files' \in Seq(Records) /\ DOMAIN files' = DOMAIN files \cup {f} /\ files'[f] = g
        /\ \A h \in DOMAIN files : h # f => files'[h] = files[h]
    BY <1>13, <2>1, <2>5, <2>7, AppendProperties, LenProperties
  <2>9. Rest(g)
    BY <1>22, <2>1, <2>4, <2>7, <2>8
  <2> QED BY <2>9
<1>23. PICK g : Rest(g)
  BY <1>5, <1>21, <1>22
<1>24. Appended(w, k, c, f, item, e, g, new)
  BY <1>1, <1>2, <1>3, <1>5, <1>6, <1>7, <1>8, <1>9, <1>10, <1>11, <1>14, <1>16, <1>17, <1>19, <1>20, <1>23 DEF Appended
<1> QED BY <1>24
-----------------------------------------------------------------------------
LEMMA WriteStore == ASSUME StoreInv, NEW w \in Writers, Write(w) PROVE StoreInv'
<1>0. PICK k, c, f, item, e, g, new : Appended(w, k, c, f, item, e, g, new)
  BY WriteIs
<1>1. /\ k = task[w] /\ k.step = "write" /\ c = k.comment /\ c \in DOMAIN comments /\ Sound(w, k)
      /\ WriterOK(k) /\ k \in TaskRows /\ k.got = NoEntry /\ TaskOK(k)
  BY <1>0 DEF Appended, Sound
<1>2. comments[c] \in CommentRows /\ comments[c].state = "open" /\ comments[c].file = 0 /\ comments[c].run = k.run
  BY <1>1, Numbers DEF WriterOK, StoreInv, WrittenSteps
<1>3. e.run = comments[c].run /\ e.by = comments[c].by /\ e.state = "open" /\ e.file = f /\ e.id = item.id
      /\ f \in Nat \ {0} /\ item.id \in Decisions \X Nat /\ item.of = c
  BY <1>0, <1>2 DEF Appended, CommentRows
<1>4. /\ comments' \in Seq(CommentRows) /\ DOMAIN comments' = DOMAIN comments /\ comments'[c] = e
      /\ \A d \in DOMAIN comments : d # c => comments'[d] = comments[d]
  BY <1>0 DEF Appended
<1>5. /\ files' \in Seq(Records) /\ DOMAIN files' = DOMAIN files \cup {f} /\ files'[f] = g /\ g \in Records
      /\ \A h \in DOMAIN files : h # f => files'[h] = files[h]
  BY <1>0 DEF Appended
<1>6. UNCHANGED <<folders, cache, payload, crossed>>
  BY DEF Write
<1>7. f \in DOMAIN files => g.folder = files[f].folder /\ g.slug = files[f].slug /\ g.run = files[f].run
  BY <1>0 DEF Appended
<1>8. Grown
  <2>1. \A h \in DOMAIN files : files'[h].folder = files[h].folder /\ files'[h].slug = files[h].slug
                                /\ files'[h].run = files[h].run
    BY <1>5, <1>7
  <2>2. \A d \in DOMAIN comments :
          /\ comments'[d].run = comments[d].run /\ comments'[d].by = comments[d].by
          /\ comments[d].file # 0 => comments'[d].file = comments[d].file /\ comments'[d].id = comments[d].id
    BY <1>2, <1>3, <1>4
  <2> QED BY <1>4, <1>5, <1>6, <2>1, <2>2 DEF Grown, StoreInv, PagesTyped
<1>9. PICK step : step = (IF k.target # 0 THEN "updated" ELSE "uploaded") /\ new = [k EXCEPT !.step = step]
                  /\ Goes(w, new)
  BY <1>0 DEF Appended
<1>10. /\ new \in TaskRows /\ new.comment = k.comment /\ new.folder = k.folder /\ new.step = step
       /\ new.target = k.target /\ new.items = k.items /\ new.run = k.run /\ new.force = k.force
       /\ new.list = k.list /\ new.left = k.left /\ new.got = NoEntry
  BY <1>1, <1>9 DEF TaskRows, WriterSteps, WrittenSteps
<1>11. PagesTyped'
  BY <1>4, <1>5, <1>6, <1>9, <1>10, WritersAre DEF StoreInv, PagesTyped, Goes
<1>12. ItemsOK(g.items, f)'
  <2>1. g.items = Append(k.items, item) /\ g.items \in Seq(Items) /\ Numbered(g.items) /\ Len(g.items) <= MaxPerRecord
        /\ k.items \in Seq(Items) /\ item \in Items
    BY <1>0, <1>5 DEF Appended, Records
  <2>2. ASSUME NEW i \in DOMAIN k.items
        PROVE  k.items[i].of \in DOMAIN comments' /\ comments'[k.items[i].of].file = f
    <3>1. k.target # 0 /\ ItemsOK(k.items, f)
      BY <1>0, <2>2 DEF Appended
    <3>2. k.items[i].of \in DOMAIN comments /\ comments[k.items[i].of].file = f
      BY <2>2, <3>1 DEF ItemsOK
    <3> QED BY <1>3, <1>4, <3>2
  <2>3. \A i \in DOMAIN g.items : (i \in DOMAIN k.items /\ g.items[i] = k.items[i]) \/ g.items[i] = item
    BY <2>1, AppendProperties, LenProperties
  <2>4. c \in DOMAIN comments' /\ comments'[c].file = f /\ item.of = c
    BY <1>1, <1>3, <1>4
  <2>5. \A i \in DOMAIN g.items : g.items[i].of \in DOMAIN comments' /\ comments'[g.items[i].of].file = f
    BY <2>2, <2>3, <2>4
  <2> QED BY <2>1, <2>5 DEF ItemsOK
<1>13. g.folder \in 1..folders
  <2>1. CASE k.target # 0
    <3>1. f \in DOMAIN files /\ g.folder = files[f].folder
      BY <1>0, <2>1 DEF Appended
    <3> QED BY <3>1 DEF StoreInv, FileOK
  <2>2. CASE k.target = 0
    <3>1. g.folder = k.folder /\ k.folder # 0
      BY <1>0, <1>1, <2>2 DEF Appended, WriterOK
    <3> QED BY <1>1, <3>1 DEF TaskOK, StoreInv, PagesTyped
  <2> QED BY <2>1, <2>2
<1>14. \A h \in DOMAIN files' : FileOK(h)'
  <2>1. FileOK(f)'
    BY <1>5, <1>6, <1>12, <1>13 DEF FileOK
  <2>2. ASSUME NEW h \in DOMAIN files, h # f PROVE FileOK(h)'
    BY <1>5, <1>6, <1>8, <2>2, GrownItems, Numbers DEF StoreInv, FileOK
  <2> QED BY <1>5, <2>1, <2>2
<1>15. g.run = comments[c].run
  BY <1>0 DEF Appended
<1>16. \A d \in DOMAIN comments' : CommentOK(d)'
  <2>1. CommentOK(c)'
    BY <1>3, <1>4, <1>5, <1>15 DEF CommentOK
  <2>2. ASSUME NEW d \in DOMAIN comments, d # c PROVE CommentOK(d)'
    BY <1>4, <1>5, <1>8, <2>2 DEF StoreInv, CommentOK, Grown
  <2> QED BY <1>4, <2>1, <2>2
<1>17. TaskOK(new)'
  <2>1. TaskOK(new)
    BY <1>1, <1>9, <1>10 DEF TaskOK
  <2> QED BY <1>8, <1>11, <2>1, GrownTask DEF StoreInv
<1>18. WriterOK(new)'
  <2>1. g.folder = k.folder
    <3>1. CASE k.target # 0
      <4>1. f \in k.list /\ g.folder = files[f].folder
        BY <1>0, <1>1, <3>1 DEF Appended, WriterOK
      <4> QED BY <1>1, <4>1 DEF TaskOK, In
    <3>2. CASE k.target = 0
      BY <1>0, <3>2 DEF Appended
    <3> QED BY <3>1, <3>2
  <2>2. k.target # 0 => f = k.target
    BY <1>0 DEF Appended
  <2>3. step \in WrittenSteps /\ step \in WriterSteps /\ step \notin {"mkdir", "made", "write", "idle"}
        /\ (step = "updated" => k.target # 0)
    BY <1>9 DEF WrittenSteps, WriterSteps
  <2> QED BY <1>1, <1>2, <1>3, <1>4, <1>5, <1>10, <2>1, <2>2, <2>3 DEF WriterOK
<1>19. \A v \in Writers : v # w /\ Working(v) =>
           /\ comments'[task[v].comment].state = comments[task[v].comment].state
           /\ comments'[task[v].comment].file = comments[task[v].comment].file
  BY <1>1, <1>4, OwnComment DEF Working
<1>20. \A d \in DOMAIN comments : comments[d].state = "acked" => comments'[d].state = "acked"
  BY <1>2, <1>4
<1>21. \A key \in Keys : cache'[key] \in {cache[key], NoEntry} \/ Fits(key, cache[key][1])'
  BY <1>6
<1>22. Working(w) /\ new.comment = task[w].comment
  BY <1>1, <1>10 DEF Working
<1> QED BY <1>8, <1>9, <1>11, <1>14, <1>16, <1>17, <1>18, <1>19, <1>20, <1>21, <1>22, WritersAre, StoreKept
-----------------------------------------------------------------------------
LEMMA StoreStep == ASSUME StoreInv, [CommentsNext]_commentVars PROVE StoreInv'
<1>1. CASE UNCHANGED commentVars
  BY <1>1, CachesTyped, StoreSame DEF commentVars
<1>2. ASSUME NEW r \in Readers, Loading(r) PROVE StoreInv'
  BY <1>2, LoadStore, SetPayloadStore, ReplyStore, StoreStore, HitStore, FetchStore, ReadFailsStore, ReadersAre
     DEF Loading, Caching
<1>3. ASSUME NEW w \in Writers, Submitting(w) PROVE StoreInv'
  BY <1>3, SubmitStore, StoreStore, HitStore, FetchStore, NewRecordStore, RejectStore, FolderStore, DropStore,
     WriteStore, ClearStore, FailStore, WritersAre DEF Submitting, Caching
<1>4. CASE Expire
  BY <1>4, ExpireStore
<1> QED BY <1>1, <1>2, <1>3, <1>4 DEF CommentsNext

LEMMA StoreStart == CommentsInit => StoreInv
<1> SUFFICES ASSUME CommentsInit PROVE StoreInv
  OBVIOUS
<1>1. NoEntry \in Seq(Values) /\ NoEntry \in Seq(Pages) /\ <<>> \in Seq(Records) /\ <<>> \in Seq(CommentRows)
  BY DEF NoEntry
<1>2. NoPage \in Pages /\ <<>> \in Seq(Items)
  BY DEF NoPage, Pages
<1>3. NoTask \in TaskRows
  BY <1>2 DEF NoTask, TaskRows, ReaderSteps
<1>4. folders = 0 /\ files = <<>> /\ comments = <<>> /\ crossed = FALSE
      /\ \A t \in Tasks : task[t] = NoTask
  BY DEF CommentsInit
<1>5. PagesTyped
  BY <1>1, <1>3 DEF CommentsInit, PagesTyped, Cold, Unread
<1>6. NoTask.step = "idle" /\ NoTask.folder = 0 /\ NoTask.list = {} /\ NoTask.left = {} /\ NoTask.got = NoEntry
      /\ NoTask.owed = {}
  BY DEF NoTask
<1>7. TaskOK(NoTask) /\ WriterOK(NoTask) /\ ReaderOK(NoTask)
  BY <1>4, <1>6 DEF TaskOK, WriterOK, ReaderOK, ReaderSteps, WriterSteps
<1>8. \A key \in Keys : cache[key] = NoEntry
  BY DEF CommentsInit, Cold
<1>9. \A w \in Writers : ~Working(w)
  BY <1>4, <1>6, WritersAre DEF Working
<1>10. \A w \in Writers : WriterOK(task[w])
  BY <1>4, <1>7, WritersAre
<1>11. \A r \in Readers : ReaderOK(task[r])
  BY <1>4, <1>7, ReadersAre
<1> QED BY <1>4, <1>5, <1>7, <1>8, <1>9, <1>10, <1>11 DEF StoreInv
-----------------------------------------------------------------------------
\* What Drive holds hides no comment.
LEMMA TruthGood ==
  ASSUME StoreInv, NEW c \in DOMAIN comments, comments[c].file # 0, HasItem(files[comments[c].file].items, c),
         NEW t \in Tasks, NEW key, Asks(task[t], key)
  PROVE  Good(c, key, Truth(key))
<1>1. PICK f : f = comments[c].file /\ f \in DOMAIN files /\ f \in Nat /\ files[f].folder \in 1..folders
  BY Numbers DEF StoreInv, CommentOK, FileOK
<1>2. folders \in Nat /\ folders # 0 /\ files[f].folder \in Nat
  BY <1>1 DEF StoreInv, PagesTyped
<1>3. Truth(Opp) = folders /\ Truth(Folder(files[f].folder)) = In(files[f].folder) /\ Truth(Body(f)) = files[f]
  BY <1>1, <1>2, TruthIs
<1>4. f \in In(files[f].folder)
  BY <1>1 DEF In
<1> QED BY <1>1, <1>2, <1>3, <1>4 DEF Good

\* A writer looks nothing up.
LEMMA WritersForce == ASSUME StoreInv, NEW w \in Writers, NEW key, Hit(w, key) PROVE FALSE
<1>1. Asks(task[w], key) /\ ~task[w].force
  BY WantsAsks DEF Hit, Hits
<1>2. task[w].step # "idle"
  BY <1>1 DEF Asks
<1> QED BY <1>1, <1>2 DEF StoreInv, WriterOK

LEMMA LedgerKept ==
  ASSUME StoreInv, StoreInv', LedgerInv, Grown, UNCHANGED files, NEW t \in Tasks, NEW new, Goes(t, new),
         \A c \in Solid' : c \in Solid,
         t \in Writers => Knows(new)',
         t \in Writers /\ Lone(t)' /\ new.got # NoEntry => new.got[2] = Truth(new.got[1])',
         \A v \in Writers : v # t /\ Lone(v)' => Lone(v) /\ UNCHANGED folders,
         \A v, w \in Writers : Lone(w)' /\ v # w => ~Working(v)'
  PROVE  LedgerInv'
<1>1. task'[t] = new /\ \A u \in Tasks : u # t => task'[u] = task[u]
  BY DEF Goes, StoreInv, PagesTyped
<1>2. \A c \in Solid' : /\ c \in Solid /\ c \in DOMAIN comments
                        /\ comments'[c].file = comments[c].file /\ comments'[c].id = comments[c].id
  BY DEF Solid, Grown
<1>3. \A c \in Solid' : HasItem(files[comments[c].file].items, c)'
  BY <1>2 DEF LedgerInv, HasItem
<1>4. \A c, d \in Solid' : c # d /\ comments'[c].file = comments'[d].file => comments'[c].id # comments'[d].id
  BY <1>2 DEF LedgerInv
<1>5. ASSUME NEW w \in Writers PROVE Knows(task[w])'
  <2>1. CASE w = t
    BY <1>1, <1>5, <2>1
  <2>2. CASE w # t
    <3>1. task'[w] = task[w] /\ Knows(task[w])
      BY <1>1, <2>2, WritersAre DEF LedgerInv
    <3> QED BY <1>2, <3>1 DEF Knows, Good, HasItem
  <2> QED BY <2>1, <2>2
<1>6. ASSUME NEW w \in Writers, Lone(w)', task'[w].got # NoEntry
      PROVE  (task[w].got[2] = Truth(task[w].got[1]))'
  <2>1. CASE w = t
    BY <1>1, <1>6, <2>1
  <2>2. CASE w # t
    <3>1. task'[w] = task[w] /\ Lone(w) /\ UNCHANGED folders
      BY <1>1, <1>6, <2>2, WritersAre
    <3> QED BY <1>6, <3>1 DEF LedgerInv, Truth
  <2> QED BY <2>1, <2>2
<1> QED BY <1>3, <1>4, <1>5, <1>6 DEF LedgerInv

\* The steps that leave Drive and the comments as they are.
LEMMA LedgerMoves ==
  ASSUME StoreInv, StoreInv', LedgerInv, UNCHANGED <<folders, files, comments>>, NEW t \in Tasks, NEW new,
         Goes(t, new), t \in Writers => Knows(new),
         t \in Writers /\ Lone(t) /\ new.got # NoEntry => new.got[2] = Truth(new.got[1]),
         t \in Writers /\ new.step # "idle" => Working(t) /\ new.comment = task[t].comment
  PROVE  LedgerInv'
<1>0. task'[t] = new /\ \A u \in Tasks : u # t => task'[u] = task[u]
  BY DEF Goes, StoreInv, PagesTyped
<1>1. Grown
  BY DEF Grown, StoreInv, PagesTyped
<1>2. \A c \in Solid' : c \in Solid
  BY DEF Solid
<1>3. t \in Writers => Knows(new)'
  BY DEF Knows, Solid, Good, HasItem
<1>4. \A v \in Writers : Working(v)' => Working(v) /\ task'[v].comment = task[v].comment
  BY <1>0, WritersAre DEF Working
<1>5. \A v \in Writers : Lone(v)' => Lone(v)
  BY <1>4 DEF Lone
<1>6. \A v, w \in Writers : Lone(w)' /\ v # w => ~Working(v)'
  BY <1>4, <1>5 DEF LedgerInv
<1>7. t \in Writers /\ Lone(t)' /\ new.got # NoEntry => new.got[2] = Truth(new.got[1])'
  BY <1>5 DEF Truth
<1> QED BY <1>1, <1>2, <1>3, <1>5, <1>6, <1>7, LedgerKept

LEMMA FetchLedger ==
  ASSUME StoreInv, StoreInv', LedgerInv, NEW t \in Tasks, NEW key \in Keys, Fetch(t, key) PROVE LedgerInv'
<1>1. PICK k : k = task[t] /\ Sound(t, k)
  BY TasksSound
<1>2. Asks(k, key) /\ k.step # "write"
  BY <1>1, WantsAsks DEF Fetch, Asks
<1>3. PICK v : v = Truth(key)
  OBVIOUS
<1>4. PICK new : new = [k EXCEPT !.got = <<key, v>>] /\ Goes(t, new)
  BY <1>1, <1>3 DEF Fetch
<1>5. new.got[1] = key /\ new.got[2] = v /\ new.step = k.step /\ new.comment = k.comment
  BY <1>1, <1>4 DEF Sound, TaskRows
<1>6. t \in Writers => Knows(new)
  <2>1. ASSUME NEW c \in Solid PROVE Good(c, key, v)
    BY <1>1, <1>2, <1>3, <2>1, TruthGood DEF Solid, LedgerInv
  <2> QED BY <1>2, <1>5, <2>1 DEF Knows
<1>7. Working(t)
  BY <1>1, <1>2 DEF Working, Asks
<1>8. UNCHANGED <<folders, files, comments>>
  BY DEF Fetch
<1> QED BY <1>1, <1>3, <1>4, <1>5, <1>6, <1>7, <1>8, LedgerMoves

LEMMA HitLedger ==
  ASSUME StoreInv, StoreInv', LedgerInv, NEW t \in Tasks, NEW key \in Keys, Hit(t, key) PROVE LedgerInv'
<1>1. t \notin Writers
  BY WritersForce
<1>2. Asks(task[t], key) /\ Fits(key, cache[key][1]) /\ task[t] \in TaskRows
  BY WantsAsks, TasksSound DEF Hit, Hits, StoreInv, Sound
<1>3. PICK new : Goes(t, new)
  BY <1>2, LearnIs DEF Hit
<1>4. UNCHANGED <<folders, files, comments>>
  BY DEF Hit
<1> QED BY <1>1, <1>3, <1>4, LedgerMoves

\* What a task knows that has learnt what it had fetched.
LEMMA StoreLearns ==
  ASSUME StoreInv, NEW t \in Tasks, Store(t)
  PROVE  \E key, v, new :
           /\ task[t].got # NoEntry /\ task[t].got[1] = key /\ task[t].got[2] = v /\ key \in Keys /\ v \in Values
           /\ cache' = [cache EXCEPT ![key] = <<v>>] /\ Asks(task[t], key) /\ Fits(key, v)
           /\ Goes(t, new) /\ Reads(t, task[t], key, v, new) /\ Sound(t, new)
           /\ Working(t) /\ new.comment = task[t].comment /\ new.got = NoEntry
<1>1. PICK key, v : task[t].got = <<key, v>> /\ key \in Keys /\ v \in Values
  BY TasksSound DEF Store, Sound, TaskRows
<1>2. task[t].got # NoEntry /\ task[t].got[1] = key /\ task[t].got[2] = v
  BY <1>1 DEF Store
<1>3. Asks(task[t], key) /\ Fits(key, v) /\ task[t] \in TaskRows
  BY <1>2, TasksSound DEF Sound, TaskOK
<1>4. Learn(t, key, v) /\ cache' = [cache EXCEPT ![key] = <<v>>]
  BY <1>2 DEF Store
<1>5. PICK new : Goes(t, new) /\ Reads(t, task[t], key, v, new)
  BY <1>3, <1>4, LearnIs
<1>6. Sound(t, new) /\ Working(t) /\ new.comment = task[t].comment
  BY <1>3, <1>5, ReadsSound
<1>7. new.got = NoEntry
  BY <1>3, <1>5, ZenonT(60) DEF Reads, AsksOpp, AsksFolder, AsksBody, AsksTarget, TaskRows
<1> QED BY <1>1, <1>2, <1>3, <1>4, <1>5, <1>6, <1>7

LEMMA StoreLedger ==
  ASSUME StoreInv, StoreInv', LedgerInv, NEW t \in Tasks, Store(t) PROVE LedgerInv'
<1>1. PICK key, v, new :
           /\ task[t].got # NoEntry /\ task[t].got[1] = key /\ task[t].got[2] = v
           /\ Asks(task[t], key) /\ Fits(key, v)
           /\ Goes(t, new) /\ Reads(t, task[t], key, v, new)
           /\ Working(t) /\ new.comment = task[t].comment /\ new.got = NoEntry
  BY StoreLearns
<1>2. PICK k : k = task[t] /\ Sound(t, k)
  BY TasksSound
<1>3. ASSUME t \in Writers, NEW c \in Solid, new.step = "write", new.target = comments[c].file
      PROVE  HasItem(new.items, c)
  <2>1. PICK f \in k.list : key = Body(f) /\ AsksTarget(k, f, v, new)
    BY <1>1, <1>2, <1>3 DEF Reads, Read, AsksOpp, AsksFolder, AsksBody, Sound, TaskRows
  <2>2. new.target = f /\ new.items = v.items
    BY <1>2, <1>3, <2>1 DEF AsksTarget, Sound, TaskRows
  <2>3. Good(c, key, v)
    BY <1>1, <1>3 DEF LedgerInv, Knows
  <2> QED BY <1>3, <2>1, <2>2, <2>3 DEF Good
<1>4. t \in Writers => Knows(new)
  BY <1>1, <1>3 DEF Knows
<1>5. UNCHANGED <<folders, files, comments>>
  BY DEF Store
<1> QED BY <1>1, <1>4, <1>5, LedgerMoves
-----------------------------------------------------------------------------
LEMMA ReadersLedger ==
  ASSUME StoreInv, StoreInv', LedgerInv, NEW r \in Readers,
         \/ \E key \in Keys : ReadFails(r, key)
         \/ \E run \in Runs, force \in BOOLEAN : LoadPage(r, run, force)
         \/ SetPayload(r) \/ Reply(r)
  PROVE  LedgerInv'
<1>1. UNCHANGED <<folders, files, comments>>
  BY DEF ReadFails, LoadPage, SetPayload, Reply
<1>2. \E new : Goes(r, new)
  BY DEF ReadFails, LoadPage, SetPayload, Reply
<1> QED BY <1>1, <1>2, ReadersAre, LedgerMoves, SMTT(60)

LEMMA SameLedger == ASSUME LedgerInv, UNCHANGED <<folders, files, comments, task>> PROVE LedgerInv'
<1>1. UNCHANGED <<folders, files, comments, task>>
  OBVIOUS
<1>2. Solid' = Solid
  BY <1>1 DEF Solid
<1>3. \A w \in Writers : Knows(task[w])' <=> Knows(task[w])
  BY <1>1, <1>2 DEF Knows, Good, HasItem
<1>4. \A c \in Solid : HasItem(files[comments[c].file].items, c)' <=> HasItem(files[comments[c].file].items, c)
  BY <1>1 DEF HasItem
<1>5. \A w \in Writers : (Lone(w)' <=> Lone(w)) /\ (Working(w)' <=> Working(w))
  BY <1>1 DEF Lone, Working
<1>6. \A w \in Writers : Truth(task[w].got[1])' = Truth(task[w].got[1])
  BY <1>1 DEF Truth
<1> QED BY <1>1, <1>2, <1>3, <1>4, <1>5, <1>6 DEF LedgerInv

LEMMA StepsLedger ==
  ASSUME StoreInv, StoreInv', LedgerInv, NEW w \in Writers, NewRecord(w) \/ DropOpp(w) \/ DropWritten(w)
  PROVE  LedgerInv'
<1>1. PICK k : k = task[w] /\ Sound(w, k) /\ WriterOK(k) /\ k \in TaskRows
  BY TasksSound, WritersAre DEF Sound
<1>2. PICK step : Goes(w, [k EXCEPT !.step = step])
  BY <1>1 DEF NewRecord, DropOpp, DropWritten, Drop
<1>3. PICK new : new = [k EXCEPT !.step = step] /\ Goes(w, new)
  BY <1>2
<1>4. new.got = k.got /\ new.comment = k.comment /\ new.target = k.target
  BY <1>1, <1>3 DEF TaskRows
<1>5. k.step \in {"seek", "made", "updated", "uploaded"} /\ k.got = NoEntry
  BY <1>1, NothingGot, WritersAre DEF NewRecord, Walking, DropOpp, DropWritten, TaskAt
<1>6. new.step = "write" => k.target = 0
  <2>1. CASE NewRecord(w) \/ DropOpp(w)
    <3>1. k.step \in {"seek", "made"}
      BY <1>1, <2>1 DEF NewRecord, Walking, DropOpp, TaskAt
    <3> QED BY <1>1, <3>1 DEF WriterOK, WrittenSteps
  <2>2. CASE DropWritten(w)
    <3>1. Goes(w, [k EXCEPT !.step = "clear"])
      BY <1>1, <2>2 DEF DropWritten, Drop
    <3>2. new = [k EXCEPT !.step = "clear"]
      BY <1>3, <3>1, WritersAre DEF Goes, StoreInv, PagesTyped
    <3> QED BY <1>1, <3>2 DEF TaskRows
  <2> QED BY <2>1, <2>2
<1>7. UNCHANGED <<folders, files, comments>>
  BY DEF NewRecord, DropOpp, DropWritten, Drop
<1>8. Knows(new)
  BY <1>4, <1>5, <1>6 DEF Knows, Solid
<1>9. Working(w)
  BY <1>1, <1>5 DEF Working
<1> QED BY <1>1, <1>3, <1>4, <1>5, <1>7, <1>8, <1>9, WritersAre, LedgerMoves

LEMMA FolderLedger ==
  ASSUME StoreInv, StoreInv', LedgerInv, NEW w \in Writers, CreateFolder(w) PROVE LedgerInv'
<1>1. PICK k : k = task[w] /\ Sound(w, k) /\ WriterOK(k) /\ k \in TaskRows
  BY TasksSound, WritersAre DEF Sound
<1>2. k.step = "mkdir" /\ k.got = NoEntry
  BY <1>1, NothingGot, WritersAre DEF CreateFolder, TaskAt
<1>3. PICK new : new = [k EXCEPT !.step = "made", !.folder = folders + 1] /\ Goes(w, new)
  BY <1>1 DEF CreateFolder
<1>4. new.got = NoEntry /\ new.step = "made" /\ new.comment = k.comment
  BY <1>1, <1>2, <1>3 DEF TaskRows
<1>5. UNCHANGED <<files, comments>> /\ folders <= folders'
  BY DEF CreateFolder, StoreInv, PagesTyped
<1>6. Grown /\ \A c \in Solid' : c \in Solid
  BY <1>5 DEF Grown, Solid
<1>7. Knows(new)'
  BY <1>4 DEF Knows
<1>8. \A v \in Tasks : v # w => task'[v] = task[v]
  BY <1>3 DEF Goes
<1>9. task'[w] = new /\ Working(w)
  BY <1>1, <1>2, <1>3, WritersAre DEF Goes, StoreInv, PagesTyped, Working
<1>10. \A v \in Writers : (Working(v)' <=> Working(v)) /\ (Lone(v)' <=> Lone(v))
  <2>1. \A v \in Writers : v # w => (Working(v)' <=> Working(v)) /\ (Lone(v)' <=> Lone(v))
    BY <1>5, <1>8, WritersAre DEF Working, Lone
  <2>2. (Working(w)' <=> Working(w)) /\ (Lone(w)' <=> Lone(w))
    BY <1>1, <1>4, <1>5, <1>9 DEF Working, Lone
  <2> QED BY <2>1, <2>2
<1>11. \A v \in Writers : ~(v # w /\ Lone(v))
  BY <1>9 DEF LedgerInv
<1>12. \A u, v \in Writers : Lone(v)' /\ u # v => ~Working(u)'
  BY <1>10 DEF LedgerInv
<1> QED BY <1>3, <1>4, <1>5, <1>6, <1>7, <1>10, <1>11, <1>12, WritersAre, LedgerKept

LEMMA SubmitLedger ==
  ASSUME StoreInv, StoreInv', LedgerInv, NEW w \in Writers,
         NEW by \in Reviewers, NEW run \in Runs, NEW decision \in Decisions, Submit(w, by, run, decision)
  PROVE  LedgerInv'
<1>0. PICK c, others, new : Submitted(w, by, run, decision, c, others, new)
  BY SubmitIs
<1>1. /\ c \in Nat \ {0} /\ c \notin DOMAIN comments /\ DOMAIN comments' = DOMAIN comments \cup {c}
      /\ comments'[c] = [run |-> run, by |-> by, decision |-> decision, state |-> "open",
                         file |-> 0, id |-> <<>>, overlapped |-> others # {}]
      /\ Goes(w, new)
      /\ new = [NoTask EXCEPT !.step = "opp", !.comment = c, !.run = run, !.force = TRUE]
  BY <1>0 DEF Submitted
<1>2. new.got = NoEntry /\ new.step = "opp" /\ new.comment = c
  BY <1>1 DEF NoTask
<1>a. comments'[c].file = 0 /\ (comments'[c].overlapped <=> others # {})
  <2>1. PICK row : row = comments'[c]
    OBVIOUS
  <2>2. row = [run |-> run, by |-> by, decision |-> decision, state |-> "open",
               file |-> 0, id |-> <<>>, overlapped |-> others # {}]
    BY <1>1, <2>1
  <2>3. row.file = 0
    BY <2>2
  <2>4. row.overlapped = (others # {})
    BY <2>2, Zenon
  <2> QED BY <2>1, <2>3, <2>4
<1>3. UNCHANGED <<folders, files>>
  BY DEF Submit
<1>4. ASSUME NEW d \in DOMAIN comments
      PROVE  /\ comments'[d].run = comments[d].run /\ comments'[d].by = comments[d].by
             /\ comments'[d].file = comments[d].file /\ comments'[d].id = comments[d].id
             /\ comments'[d].state = comments[d].state
             /\ comments[d].overlapped \/ d \in others => comments'[d].overlapped
  <2>1. PICK old, row : old = comments[d] /\ row = comments'[d] /\ old \in CommentRows
    BY Numbers DEF StoreInv
  <2>2. row = IF d \in others THEN [old EXCEPT !.overlapped = TRUE] ELSE old
    BY <1>0, <2>1 DEF Submitted
  <2>3. row.run = old.run /\ row.by = old.by /\ row.file = old.file /\ row.id = old.id /\ row.state = old.state
        /\ (old.overlapped \/ d \in others => row.overlapped)
    BY <2>1, <2>2 DEF CommentRows
  <2> QED BY <2>1, <2>3
<1>5. Grown
  BY <1>1, <1>3, <1>4 DEF Grown, StoreInv, PagesTyped
<1>6. \A d \in Solid' : d \in Solid
  BY <1>1, <1>4, <1>a DEF Solid
<1>7. Knows(new)'
  BY <1>2 DEF Knows
<1>8. task'[w] = new /\ \A v \in Tasks : v # w => task'[v] = task[v]
  BY <1>1, WritersAre DEF Goes, StoreInv, PagesTyped
<1>9. \A v \in Writers : Working(v) => task[v].comment \in others
  BY <1>0 DEF Submitted
<1>10. \A v \in Writers : v # w => (Working(v)' => Working(v)) /\ ~Lone(v)'
  <2>1. ASSUME NEW v \in Writers, v # w, Working(v)' PROVE Working(v) /\ comments'[task'[v].comment].overlapped
    <3>1. task'[v] = task[v] /\ Working(v)
      BY <1>8, <2>1, WritersAre DEF Working
    <3> QED BY <1>4, <1>9, <3>1, OwnComment
  <2> QED BY <2>1 DEF Lone
<1>11. Lone(w)' => others = {}
  BY <1>2, <1>8, <1>a DEF Lone
<1>12. \A u, v \in Writers : Lone(v)' /\ u # v => ~Working(u)'
  BY <1>9, <1>10, <1>11
<1> QED BY <1>1, <1>2, <1>3, <1>5, <1>6, <1>7, <1>10, <1>12, WritersAre, LedgerKept

LEMMA EndsLedger ==
  ASSUME StoreInv, StoreInv', LedgerInv, NEW w \in Writers, Reject(w) \/ ClearPayload(w) \/ Fail(w)
  PROVE  LedgerInv'
<1>1. PICK state : CommentEnds(w, state) /\ state # "open"
  BY DEF Reject, ClearPayload, Fail
<1>2. Working(w) /\ Goes(w, NoTask) /\ UNCHANGED <<folders, files>>
  BY DEF Reject, Full, ClearPayload, Fail, TaskAt, Busy, Working
<1>3. PICK c : c = task[w].comment /\ c \in DOMAIN comments /\ comments[c].state = "open"
               /\ comments[c] \in CommentRows
  BY <1>2, OwnComment, Numbers DEF StoreInv
<1>4. PICK e : e = [comments[c] EXCEPT !.state = state] /\ comments' = [comments EXCEPT ![c] = e]
  BY <1>1, <1>3 DEF CommentEnds
<1>5. e.run = comments[c].run /\ e.by = comments[c].by /\ e.file = comments[c].file /\ e.id = comments[c].id
      /\ e.overlapped = comments[c].overlapped /\ e.state = state
  BY <1>3, <1>4 DEF CommentRows
<1>6. DOMAIN comments' = DOMAIN comments /\ comments'[c] = e
      /\ \A d \in DOMAIN comments : d # c => comments'[d] = comments[d]
  BY <1>3, <1>4 DEF StoreInv, PagesTyped
<1>7. \A d \in DOMAIN comments :
          /\ comments'[d].run = comments[d].run /\ comments'[d].by = comments[d].by
          /\ comments'[d].file = comments[d].file /\ comments'[d].id = comments[d].id
          /\ comments'[d].overlapped = comments[d].overlapped
  BY <1>5, <1>6
<1>8. Grown
  BY <1>2, <1>6, <1>7 DEF Grown, StoreInv, PagesTyped
<1>9. \A d \in Solid' : d \in Solid
  BY <1>3, <1>5, <1>6, <1>7 DEF Solid
<1>10. NoTask.step = "idle" /\ NoTask.got = NoEntry
  BY NoTaskIs
<1>11. Knows(NoTask)'
  BY <1>10 DEF Knows
<1>12. task'[w] = NoTask /\ \A v \in Tasks : v # w => task'[v] = task[v]
  BY <1>2, WritersAre DEF Goes, StoreInv, PagesTyped
<1>13. ~Working(w)' /\ ~Lone(w)'
  BY <1>10, <1>12 DEF Working, Lone
<1>14. \A v \in Writers : v # w => (Working(v)' <=> Working(v)) /\ (Lone(v)' => Lone(v))
  <2>1. ASSUME NEW v \in Writers, v # w PROVE (Working(v)' <=> Working(v)) /\ (Lone(v)' => Lone(v))
    <3>1. task'[v] = task[v] /\ (Working(v)' <=> Working(v))
      BY <1>12, <2>1, WritersAre DEF Working
    <3> QED BY <1>7, <3>1, OwnComment DEF Lone
  <2> QED BY <2>1
<1>15. \A u, v \in Writers : Lone(v)' /\ u # v => ~Working(u)'
  BY <1>13, <1>14 DEF LedgerInv
<1> QED BY <1>2, <1>8, <1>9, <1>10, <1>11, <1>14, <1>15, WritersAre, LedgerKept
-----------------------------------------------------------------------------
LEMMA WriteLedger ==
  ASSUME StoreInv, StoreInv', LedgerInv, NEW w \in Writers, Write(w) PROVE LedgerInv'
<1>0. PICK k, c, f, item, e, g, new : Appended(w, k, c, f, item, e, g, new)
  BY WriteIs
<1>1. /\ k = task[w] /\ k.step = "write" /\ c = k.comment /\ c \in DOMAIN comments /\ Sound(w, k)
      /\ k \in TaskRows /\ k.got = NoEntry /\ WriterOK(k)
  BY <1>0 DEF Appended, Sound
<1>2. comments[c] \in CommentRows /\ comments[c].state = "open" /\ comments[c].file = 0
  BY <1>1, Numbers DEF WriterOK, StoreInv, WrittenSteps
<1>3. /\ e.run = comments[c].run /\ e.by = comments[c].by /\ e.state = "open" /\ e.file = f /\ e.id = item.id
      /\ e.overlapped = comments[c].overlapped /\ f \in Nat \ {0}
  BY <1>0, <1>2 DEF Appended, CommentRows
<1>4. /\ DOMAIN comments' = DOMAIN comments /\ comments'[c] = e
      /\ \A d \in DOMAIN comments : d # c => comments'[d] = comments[d]
  BY <1>0 DEF Appended
<1>5. /\ DOMAIN files' = DOMAIN files \cup {f} /\ files'[f] = g
      /\ \A h \in DOMAIN files : h # f => files'[h] = files[h]
      /\ (f \in DOMAIN files => g.folder = files[f].folder)
  BY <1>0 DEF Appended
<1>6. UNCHANGED folders
  BY DEF Write
<1>7. /\ k.items \in Seq(Items) /\ item \in Items /\ g.items = Append(k.items, item)
      /\ item.id = e.id /\ item.of = c /\ \A i \in DOMAIN k.items : k.items[i].id # item.id
  BY <1>0, <1>3 DEF Appended
<1>8. /\ DOMAIN k.items \subseteq DOMAIN g.items /\ \A i \in DOMAIN k.items : g.items[i] = k.items[i]
      /\ \E i \in DOMAIN g.items : g.items[i] = item
  <2>1. Len(k.items) \in Nat /\ DOMAIN k.items = 1..Len(k.items) /\ g.items \in Seq(Items)
        /\ Len(g.items) = Len(k.items) + 1 /\ g.items[Len(k.items) + 1] = item
        /\ \A i \in 1..Len(k.items) : g.items[i] = k.items[i]
    BY <1>7, AppendProperties, LenProperties
  <2>2. DOMAIN g.items = 1..(Len(k.items) + 1)
    BY <2>1, LenProperties
  <2> QED BY <2>1, <2>2
<1>9. \A d \in Solid' : d = c \/ (d \in Solid /\ d # c /\ comments'[d] = comments[d])
  BY <1>2, <1>4 DEF Solid
<1>10. Knows(k)
  BY <1>1 DEF LedgerInv
<1>11. ASSUME NEW d \in Solid, comments[d].file = f PROVE HasItem(k.items, d)
  <2>1. f \in DOMAIN files
    BY <1>11 DEF Solid, StoreInv, CommentOK
  <2>2. k.target = f
    BY <1>0, <2>1 DEF Appended
  <2> QED BY <1>1, <1>10, <1>11, <2>2 DEF Knows
<1>12. item = [id |-> e.id, of |-> c]
  BY <1>0, <1>7 DEF Appended, Items
<1>13. ASSUME NEW d \in Solid' PROVE HasItem(files[comments[d].file].items, d)'
  <2>1. CASE d = c
    BY <1>3, <1>4, <1>5, <1>8, <1>12, <2>1 DEF HasItem
  <2>2. CASE d # c /\ comments[d].file = f
    <3>1. HasItem(k.items, d) /\ comments'[d] = comments[d]
      BY <1>9, <1>11, <1>13, <2>2
    <3>2. \E i \in DOMAIN g.items : g.items[i] = [id |-> comments[d].id, of |-> d]
      BY <1>8, <3>1 DEF HasItem
    <3> QED BY <1>5, <2>2, <3>1, <3>2 DEF HasItem
  <2>3. CASE d # c /\ comments[d].file # f
    <3>1. d \in Solid /\ comments'[d] = comments[d]
      BY <1>9, <1>13, <2>3
    <3>2. comments[d].file \in DOMAIN files
      BY <3>1 DEF Solid, StoreInv, CommentOK
    <3>3. files'[comments[d].file] = files[comments[d].file]
      BY <1>5, <2>3, <3>2
    <3>4. HasItem(files[comments[d].file].items, d)
      BY <3>1 DEF LedgerInv
    <3> QED BY <3>1, <3>3, <3>4 DEF HasItem
  <2> QED BY <2>1, <2>2, <2>3
<1>14. ASSUME NEW d \in Solid, comments[d].file = f PROVE comments[d].id # item.id
  <2>1. HasItem(k.items, d)
    BY <1>11, <1>14
  <2>2. PICK i \in DOMAIN k.items : k.items[i] = [id |-> comments[d].id, of |-> d]
    BY <2>1 DEF HasItem
  <2> QED BY <1>7, <2>2
<1>15. ASSUME NEW d \in Solid', NEW b \in Solid', d # b, comments'[d].file = comments'[b].file
       PROVE  comments'[d].id # comments'[b].id
  <2>1. CASE d = c
    BY <1>3, <1>4, <1>7, <1>9, <1>14, <1>15, <2>1
  <2>2. CASE b = c
    BY <1>3, <1>4, <1>7, <1>9, <1>14, <1>15, <2>2
  <2>3. CASE d # c /\ b # c
    BY <1>9, <1>15, <2>3 DEF LedgerInv
  <2> QED BY <2>1, <2>2, <2>3
<1>16. new.got = NoEntry /\ new.step # "write" /\ new.step # "idle" /\ new.comment = c
  BY <1>0, <1>1 DEF Appended, TaskRows
<1>17. task'[w] = new /\ \A v \in Tasks : v # w => task'[v] = task[v]
  BY <1>0, WritersAre DEF Appended, Goes, StoreInv, PagesTyped
<1>18. \A d \in DOMAIN comments : comments'[d].overlapped = comments[d].overlapped
  BY <1>3, <1>4
<1>19. Working(w)
  BY <1>1 DEF Working
<1>20. \A v \in Writers : v # w => (Working(v)' <=> Working(v)) /\ (Lone(v)' => Lone(v))
  <2>1. ASSUME NEW v \in Writers, v # w PROVE (Working(v)' <=> Working(v)) /\ (Lone(v)' => Lone(v))
    <3>1. task'[v] = task[v] /\ (Working(v)' <=> Working(v))
      BY <1>17, <2>1, WritersAre DEF Working
    <3> QED BY <1>18, <3>1, OwnComment DEF Lone
  <2> QED BY <2>1
<1>21. Lone(w)' => Lone(w)
  BY <1>1, <1>16, <1>17, <1>18, <1>19 DEF Lone
<1>22. \A u, v \in Writers : Lone(v)' /\ u # v => ~Working(u)'
  BY <1>19, <1>20, <1>21 DEF LedgerInv
<1>23. ASSUME NEW v \in Writers PROVE Knows(task[v])'
  <2>1. CASE v = w
    BY <1>16, <1>17, <2>1 DEF Knows
  <2>2. CASE v # w
    <3>1. task'[v] = task[v] /\ Knows(task[v])
      BY <1>17, <2>2, WritersAre DEF LedgerInv
    <3>2. ASSUME c \in Solid' PROVE task[v].got = NoEntry /\ task[v].step # "write"
      <4>1. Lone(w)
        BY <1>1, <1>3, <1>4, <1>19, <3>2 DEF Solid, Lone
      <4>2. ~Working(v)
        BY <2>2, <4>1 DEF LedgerInv
      <4>3. task[v].step = "idle"
        BY <4>2 DEF Working
      <4> QED BY <4>3, NothingGot, WritersAre
    <3>3. ASSUME NEW d \in Solid', d # c
          PROVE  /\ d \in Solid /\ comments'[d] = comments[d]
                 /\ files'[comments[d].file].folder = files[comments[d].file].folder
      <4>1. d \in Solid /\ comments'[d] = comments[d]
        BY <1>9, <3>3
      <4>2. comments[d].file \in DOMAIN files
        BY <4>1 DEF Solid, StoreInv, CommentOK
      <4> QED BY <1>5, <4>1, <4>2
    <3> QED BY <3>1, <3>2, <3>3 DEF Knows, Good, HasItem
  <2> QED BY <2>1, <2>2
<1>24. ASSUME NEW v \in Writers, Lone(v)', task'[v].got # NoEntry
       PROVE  (task[v].got[2] = Truth(task[v].got[1]))'
  <2>1. v # w
    BY <1>16, <1>17, <1>24
  <2>2. Lone(v)
    BY <1>20, <1>24, <2>1
  <2>3. FALSE
    BY <1>19, <2>1, <2>2 DEF LedgerInv
  <2> QED BY <2>3
<1> QED BY <1>13, <1>15, <1>22, <1>23, <1>24 DEF LedgerInv

LEMMA LedgerStep ==
  ASSUME StoreInv, StoreInv', LedgerInv, [CommentsNext]_commentVars PROVE LedgerInv'
<1>1. CASE UNCHANGED commentVars
  BY <1>1, SameLedger DEF commentVars
<1>2. ASSUME NEW r \in Readers, Loading(r) PROVE LedgerInv'
  BY <1>2, ReadersLedger, StoreLedger, HitLedger, FetchLedger, ReadersAre DEF Loading, Caching
<1>3. ASSUME NEW w \in Writers, Submitting(w) PROVE LedgerInv'
  BY <1>3, SubmitLedger, StoreLedger, HitLedger, FetchLedger, StepsLedger, EndsLedger, FolderLedger, WriteLedger,
     WritersAre DEF Submitting, Caching
<1>4. CASE Expire
  BY <1>4, SameLedger DEF Expire
<1> QED BY <1>1, <1>2, <1>3, <1>4 DEF CommentsNext

LEMMA LedgerStart == CommentsInit => LedgerInv
<1> SUFFICES ASSUME CommentsInit PROVE LedgerInv
  OBVIOUS
<1>1. Solid = {}
  BY DEF CommentsInit, Solid
<1>2. \A w \in Writers : task[w] = NoTask
  BY WritersAre DEF CommentsInit
<1>3. \A w \in Writers : task[w].step = "idle" /\ task[w].got = NoEntry
  BY <1>2 DEF NoTask
<1> QED BY <1>1, <1>3 DEF LedgerInv, Knows, Lone, Working
-----------------------------------------------------------------------------
\* Comments that come one after the other have no writer but one at work.
LEMMA OneAtATime ==
  ASSUME StoreInv, LedgerInv, InTurn, NEW w \in Writers, Working(w)
  PROVE  Lone(w) /\ (\A v \in Writers : v # w => ~Working(v))
         /\ (task[w].got # NoEntry => task[w].got[2] = Truth(task[w].got[1]))
<1>1. Lone(w)
  BY OwnComment DEF Lone, InTurn
<1> QED BY <1>1 DEF LedgerInv

\* A task that goes on while the records stay as they are.
LEMMA TurnKept ==
  ASSUME StoreInv, StoreInv', LedgerInv, LedgerInv', TurnInv, UNCHANGED files, InTurn' => InTurn,
         InTurn' => folders' <= 1, NEW t \in Tasks, NEW new, Goes(t, new),
         t \in Writers => Working(t) \/ Working(t)',
         InTurn' /\ t \in Writers /\ new.step # "idle" => Counts(new)',
         t \in Writers \/ UNCHANGED <<folders, comments>>
  PROVE  TurnInv'
<1> SUFFICES ASSUME InTurn'
             PROVE  /\ folders' <= 1
                    /\ \A f, g \in DOMAIN files' : files'[f].slug = files'[g].slug => f = g
                    /\ \A run \in Runs : IsFiniteSet(AllShows(run)') /\ Cardinality(AllShows(run)') <= MaxPerRun
                    /\ \A w \in Writers : Working(w)' => Counts(task[w])'
  BY DEF TurnInv
<1>1. InTurn
  OBVIOUS
<1>2. task'[t] = new /\ \A u \in Tasks : u # t => task'[u] = task[u]
  BY DEF Goes, StoreInv, PagesTyped
<1>3. \A f, g \in DOMAIN files' : files'[f].slug = files'[g].slug => f = g
  BY <1>1 DEF TurnInv
<1>4. \A run : AllShows(run)' = AllShows(run)
  BY DEF AllShows, Shows
<1>5. \A run \in Runs : IsFiniteSet(AllShows(run)') /\ Cardinality(AllShows(run)') <= MaxPerRun
  BY <1>1, <1>4 DEF TurnInv
<1>6. ASSUME NEW w \in Writers, Working(w)' PROVE Counts(task[w])'
  <2>1. CASE w = t
    BY <1>2, <1>6, <2>1 DEF Working
  <2>2. CASE w # t
    <3>1. task'[w] = task[w] /\ Working(w)
      BY <1>2, <1>6, <2>2, WritersAre DEF Working
    <3>2. t \notin Writers
      <4>1. \A v \in Writers : v # w => ~Working(v)
        BY <1>1, <3>1, OneAtATime
      <4>2. \A v \in Writers : v # w => ~Working(v)'
        <5>1. Lone(w)'
          BY <1>6, <3>1, OwnComment DEF Lone, InTurn, Working, StoreInv, WriterOK
        <5> QED BY <5>1 DEF LedgerInv
      <4> QED BY <2>2, <4>1, <4>2
    <3>3. UNCHANGED <<folders, comments>> /\ Counts(task[w])
      BY <1>1, <3>1, <3>2 DEF TurnInv
    <3> QED BY <3>1, <3>3 DEF Counts, Shows
  <2> QED BY <2>1, <2>2
<1> QED BY <1>3, <1>5, <1>6

LEMMA SameTurn == ASSUME TurnInv, UNCHANGED <<folders, files, comments, task>> PROVE TurnInv'
<1>1. InTurn' <=> InTurn
  BY DEF InTurn
<1>2. \A run : AllShows(run)' = AllShows(run)
  BY DEF AllShows, Shows
<1>3. \A w \in Writers : (Counts(task[w])' <=> Counts(task[w])) /\ (Working(w)' <=> Working(w))
  BY DEF Counts, Shows, Working
<1> QED BY <1>1, <1>2, <1>3 DEF TurnInv

LEMMA ReadersTurn ==
  ASSUME StoreInv, StoreInv', LedgerInv, LedgerInv', TurnInv, NEW r \in Readers, Loading(r) PROVE TurnInv'
<1>1. UNCHANGED <<folders, files, comments>>
  BY DEF Loading, Caching, ReadFails, LoadPage, SetPayload, Reply, Store, Hit, Fetch
<1>2. \E new : Goes(r, new)
  <2>1. CASE Store(r)
    BY <2>1, StoreLearns, ReadersAre
  <2>2. ASSUME NEW key \in Keys, Hit(r, key) PROVE \E new : Goes(r, new)
    <3>1. Asks(task[r], key) /\ task[r] \in TaskRows
      BY <2>2, WantsAsks, TasksSound, ReadersAre DEF Hit, Sound
    <3> QED BY <2>2, <3>1, LearnIs, ReadersAre DEF Hit
  <2>3. CASE ~Store(r) /\ ~(\E key \in Keys : Hit(r, key))
    BY <2>3 DEF Loading, Caching, ReadFails, LoadPage, SetPayload, Reply, Fetch
  <2> QED BY <2>1, <2>2, <2>3
<1>3. InTurn' <=> InTurn
  BY <1>1 DEF InTurn
<1>4. InTurn' => folders' <= 1
  BY <1>1, <1>3 DEF TurnInv
<1> QED BY <1>1, <1>2, <1>3, <1>4, ReadersAre, TurnKept, SMTT(60)

\* The steps of a submission that leave Drive and the comments as they are.
LEMMA TurnMoves ==
  ASSUME StoreInv, StoreInv', LedgerInv, LedgerInv', TurnInv, UNCHANGED <<folders, files, comments>>,
         NEW w \in Writers, Working(w), NEW new, Goes(w, new), InTurn /\ Counts(task[w]) => Counts(new)
  PROVE  TurnInv'
<1>1. InTurn' <=> InTurn
  BY DEF InTurn
<1>2. InTurn' => folders' <= 1
  BY <1>1 DEF TurnInv
<1>3. InTurn' => Counts(new)'
  <2>1. Counts(new)' <=> Counts(new)
    BY DEF Counts, Shows
  <2> QED BY <1>1, <2>1 DEF TurnInv
<1> QED BY <1>1, <1>2, <1>3, WritersAre, TurnKept

LEMMA FetchTurn ==
  ASSUME StoreInv, StoreInv', LedgerInv, LedgerInv', TurnInv, NEW w \in Writers, NEW key \in Keys, Fetch(w, key)
  PROVE  TurnInv'
<1>1. PICK k : k = task[w] /\ Sound(w, k) /\ k \in TaskRows
  BY TasksSound, WritersAre DEF Sound
<1>2. Asks(k, key) /\ (k.step = "seek" => k.total < MaxPerRun)
  BY <1>1, WantsAsks DEF Fetch, Wants, Walking, TaskAt
<1>3. PICK got : got = <<key, Truth(key)>>
  OBVIOUS
<1>4. PICK new : new = [k EXCEPT !.got = got] /\ Goes(w, new)
  BY <1>1, <1>3 DEF Fetch
<1>5. /\ new.step = k.step /\ new.comment = k.comment /\ new.folder = k.folder /\ new.list = k.list
      /\ new.left = k.left /\ new.run = k.run /\ new.page = k.page /\ new.total = k.total /\ new.n = k.n
      /\ new.target = k.target /\ new.items = k.items
  BY <1>1, <1>4 DEF TaskRows
<1>6. Counts(k) => Counts(new)
  BY <1>2, <1>5 DEF Counts
<1>7. UNCHANGED <<folders, files, comments>> /\ Working(w)
  BY <1>1, <1>2 DEF Fetch, Working, Asks
<1> QED BY <1>1, <1>4, <1>6, <1>7, TurnMoves
-----------------------------------------------------------------------------
\* Two finite sets together have at most as many members as both.
LEMMA UnionBound ==
  ASSUME NEW S, NEW T, IsFiniteSet(S), IsFiniteSet(T)
  PROVE  IsFiniteSet(S \cup T) /\ Cardinality(S \cup T) \in Nat
         /\ Cardinality(S \cup T) <= Cardinality(S) + Cardinality(T)
<1>1. Cardinality(S) \in Nat /\ Cardinality(T) \in Nat /\ Cardinality(S \cap T) \in Nat
  BY FS_Subset, FS_CardinalityType
<1>2. IsFiniteSet(S \cup T)
      /\ Cardinality(S \cup T) = Cardinality(S) + Cardinality(T) - Cardinality(S \cap T)
  BY FS_Union
<1>3. Cardinality(S \cup T) \in Nat
  BY <1>2, FS_CardinalityType
<1> QED BY <1>1, <1>2, <1>3

\* A lone writer learns what Drive holds.
LEMMA StoreTurn ==
  ASSUME StoreInv, StoreInv', LedgerInv, LedgerInv', TurnInv, NEW w \in Writers, Store(w) PROVE TurnInv'
<1>1. PICK key, v, new :
           /\ task[w].got # NoEntry /\ task[w].got[1] = key /\ task[w].got[2] = v
           /\ Asks(task[w], key) /\ Fits(key, v)
           /\ Goes(w, new) /\ Reads(w, task[w], key, v, new) /\ Sound(w, new)
           /\ Working(w) /\ new.comment = task[w].comment /\ new.got = NoEntry
  BY StoreLearns, WritersAre
<1>2. PICK k : k = task[w] /\ Sound(w, k) /\ k \in TaskRows /\ TaskOK(k) /\ WriterOK(k)
  BY TasksSound, WritersAre DEF Sound
<1>3. ASSUME InTurn, Counts(k) PROVE Counts(new)
  <2>0. v = Truth(key) /\ folders \in Nat /\ folders <= 1
    BY <1>1, <1>3, OneAtATime DEF TurnInv, StoreInv, PagesTyped
  <2>1. Read(w) = "seek" /\ k.total \in Nat /\ k.left \subseteq k.list /\ k.got # NoEntry
    BY <1>1, <1>2 DEF Read, TaskRows, TaskOK
  <2>2. \A f \in DOMAIN files : files[f].folder \in 1..folders /\ files[f] \in Records /\ f \in Nat
    BY Numbers DEF StoreInv, FileOK
  <2>3. k.page \in Pages /\ IsFiniteSet(k.page.shows) /\ Cardinality(k.page.shows) <= k.total
    BY <1>2, <1>3 DEF Counts, TaskRows
  <2>4. CASE key = Opp /\ AsksOpp(w, k, v, new)
    <3>1. v = folders /\ k.list = {} /\ k.step = "opp"
      BY <1>2, <2>0, <2>4, TruthIs DEF TaskOK, AsksOpp
    <3>2. CASE v = 0 /\ new = [k EXCEPT !.got = NoEntry, !.step = Read(w)]
      <4>a. folders = 0
        BY <3>1, <3>2
      <4>1. DOMAIN files = {}
        BY <2>2, <4>a
      <4>2. /\ new.step = "seek" /\ new.comment = k.comment /\ new.folder = k.folder /\ new.list = k.list
            /\ new.left = k.left /\ new.run = k.run /\ new.page = k.page /\ new.total = k.total
        BY <1>2, <2>1, <3>2 DEF TaskRows
      <4> QED BY <1>1, <2>1, <2>3, <3>1, <3>2, <4>1, <4>2 DEF Counts, Seeking, WrittenSteps
    <3>3. ASSUME NEW d \in 1..v, new = [k EXCEPT !.got = NoEntry, !.step = "folder", !.folder = d]
          PROVE  Counts(new)
      <4>2. /\ new.step = "folder" /\ new.comment = k.comment /\ new.list = k.list
            /\ new.left = k.left /\ new.run = k.run /\ new.page = k.page /\ new.total = k.total
        BY <1>2, <3>3 DEF TaskRows
      <4> QED BY <1>1, <2>1, <2>3, <3>1, <4>2 DEF Counts, Seeking, WrittenSteps
    <3> QED BY <2>4, <3>2, <3>3 DEF AsksOpp
  <2>5. CASE key = Folder(k.folder) /\ AsksFolder(w, k, v, new)
    <3>1. k.step = "folder" /\ k.folder = 1 /\ folders = 1
      BY <1>2, <2>0, <2>5 DEF AsksFolder, TaskOK
    <3>2. v = In(1)
      BY <2>0, <2>5, <3>1, TruthIs
    <3>3. v = DOMAIN files
      <4>1. \A f \in DOMAIN files : files[f].folder = 1
        BY <2>2, <3>1
      <4> QED BY <3>2, <4>1 DEF In
    <3>4. /\ new.step = (IF v = {} THEN "seek" ELSE "bodies") /\ new.folder = 1 /\ new.list = v /\ new.left = v
          /\ new.page = k.page /\ new.total = k.total
      <4>1. new = [k EXCEPT !.got = NoEntry, !.step = IF v = {} THEN "seek" ELSE "bodies",
                            !.list = v, !.left = v]
        BY <2>1, <2>5 DEF AsksFolder
      <4> QED BY <1>2, <3>1, <4>1 DEF TaskRows
    <3> QED BY <1>1, <2>3, <3>3, <3>4 DEF Counts, Seeking, WrittenSteps
  <2>6. ASSUME NEW f \in k.left, key = Body(f), AsksBody(w, k, f, v, new) PROVE Counts(new)
    <3>0. k.step = "bodies" /\ f \in DOMAIN files /\ f \in Nat /\ k.list = DOMAIN files
          /\ (k.folder = 0 => folders = 0)
      BY <1>2, <1>3, <2>1, <2>2, <2>6 DEF AsksBody, Counts
    <3>1. v = files[f]
      BY <2>0, <2>6, <3>0, TruthIs
    <3>2. PICK s : s = Shows(k.run, v)
      OBVIOUS
    <3>3. IsFiniteSet(s) /\ Cardinality(s) \in Nat
      BY <2>2, <3>0, <3>1, <3>2, ShowsIs
    <3>4. PICK shows : shows = k.page.shows \cup s
      OBVIOUS
    <3>5. IsFiniteSet(shows) /\ Cardinality(shows) \in Nat
          /\ Cardinality(shows) <= Cardinality(k.page.shows) + Cardinality(s)
      BY <2>3, <3>3, <3>4, UnionBound
    <3>6. Cardinality(k.page.shows) \in Nat
      BY <2>3, FS_CardinalityType
    <3>7. PICK left, total, p : /\ left = k.left \ {f} /\ total = k.total + Cardinality(s)
                                /\ p = [shows |-> shows, short |-> k.page.short]
      OBVIOUS
    <3>8. new = [k EXCEPT !.got = NoEntry, !.step = IF left = {} THEN "seek" ELSE "bodies",
                          !.left = left, !.total = total, !.page = p]
      BY <1>2, <2>1, <2>6, <3>2, <3>4, <3>7 DEF AsksBody, TaskRows
    <3>9. /\ new.step = (IF left = {} THEN "seek" ELSE "bodies") /\ new.folder = k.folder /\ new.list = k.list
          /\ new.left = left /\ new.run = k.run /\ new.page.shows = shows /\ new.total = total
      BY <1>2, <3>7, <3>8 DEF TaskRows
    <3>10. Cardinality(shows) <= total
      BY <2>1, <2>3, <3>3, <3>5, <3>6, <3>7
    <3>11. \A h \in k.list \ left : Shows(k.run, files[h]) \subseteq shows
      <4>1. \A h \in k.list \ k.left : Shows(k.run, files[h]) \subseteq k.page.shows
        BY <1>3, <3>0 DEF Counts, WrittenSteps
      <4> QED BY <3>1, <3>2, <3>4, <3>7, <4>1
    <3> QED BY <1>1, <3>0, <3>5, <3>9, <3>10, <3>11 DEF Counts, Seeking, WrittenSteps
  <2>7. ASSUME NEW f \in k.list, key = Body(f), AsksTarget(k, f, v, new) PROVE Counts(new)
    <3>0. k.step = "seek" /\ f \in DOMAIN files /\ f \in Nat /\ k.list = DOMAIN files /\ k.left = {}
          /\ (k.folder = 0 => folders = 0) /\ k.total < MaxPerRun
          /\ \A h \in k.list : Shows(k.run, files[h]) \subseteq k.page.shows
      BY <1>3, <2>1, <2>2, <2>7 DEF AsksTarget, Counts, Seeking, WrittenSteps
    <3>1. v = files[f] /\ f # 0
      BY <2>0, <2>7, <3>0, TruthIs, Numbers DEF StoreInv
    <3>2. CASE v.run = k.run /\ new = [k EXCEPT !.got = NoEntry, !.step = "write", !.target = f,
                                                 !.items = v.items]
      <4>1. /\ new.step = "write" /\ new.comment = k.comment /\ new.folder = k.folder /\ new.list = k.list
            /\ new.left = k.left /\ new.run = k.run /\ new.page = k.page /\ new.total = k.total
            /\ new.target = f /\ new.items = v.items
        BY <1>2, <3>2 DEF TaskRows
      <4> QED BY <1>1, <2>3, <3>0, <3>1, <4>1 DEF Counts, Seeking, WrittenSteps
    <3>3. CASE new = [k EXCEPT !.got = NoEntry, !.n = @ + 1]
      <4>1. /\ new.step = "seek" /\ new.comment = k.comment /\ new.folder = k.folder /\ new.list = k.list
            /\ new.left = k.left /\ new.run = k.run /\ new.page = k.page /\ new.total = k.total
        BY <1>2, <3>0, <3>3 DEF TaskRows
      <4> QED BY <1>1, <2>3, <3>0, <3>1, <4>1 DEF Counts, Seeking, WrittenSteps
    <3> QED BY <2>7, <3>2, <3>3 DEF AsksTarget
  <2> QED BY <1>1, <1>2, <2>4, <2>5, <2>6, <2>7 DEF Reads
<1>4. UNCHANGED <<folders, files, comments>>
  BY DEF Store
<1> QED BY <1>1, <1>2, <1>3, <1>4, TurnMoves
-----------------------------------------------------------------------------
LEMMA StepsTurn ==
  ASSUME StoreInv, StoreInv', LedgerInv, LedgerInv', TurnInv, NEW w \in Writers,
         NewRecord(w) \/ DropOpp(w) \/ DropWritten(w)
  PROVE  TurnInv'
<1>1. PICK k : k = task[w] /\ k \in TaskRows /\ WriterOK(k)
  BY TasksSound, WritersAre DEF Sound
<1>2. PICK step : /\ Goes(w, [k EXCEPT !.step = step])
                  /\ \/ NewRecord(w) /\ step \in {"mkdir", "write"}
                     \/ DropOpp(w) /\ step = "write"
                     \/ DropWritten(w) /\ step = "clear"
  BY <1>1 DEF NewRecord, DropOpp, DropWritten, Drop
<1>3. PICK new : new = [k EXCEPT !.step = step] /\ Goes(w, new)
  BY <1>2
<1>4. /\ new.step = step /\ new.comment = k.comment /\ new.folder = k.folder /\ new.list = k.list
      /\ new.left = k.left /\ new.run = k.run /\ new.page = k.page /\ new.total = k.total /\ new.n = k.n
      /\ new.target = k.target /\ new.items = k.items
  BY <1>1, <1>3 DEF TaskRows
<1>5. UNCHANGED <<folders, files, comments>> /\ Working(w)
  BY DEF NewRecord, DropOpp, DropWritten, Drop, Walking, TaskAt, Working
<1>6. ASSUME Counts(k) PROVE Counts(new)
  <2>1. CASE NewRecord(w) /\ step \in {"mkdir", "write"}
    <3>1. k.step = "seek" /\ k.total < MaxPerRun /\ k.target = 0
      BY <1>1, <2>1 DEF NewRecord, Walking, TaskAt, WriterOK, WrittenSteps
    <3>2. k.list = DOMAIN files /\ k.left = {}
      BY <1>6, <3>1 DEF Counts, Seeking
    <3>3. \A f \in k.list : files[f].slug # <<SlugOf[comments[k.comment].by], k.n>>
      BY <1>1, <2>1 DEF NewRecord, Candidates, Comment
    <3> QED BY <1>4, <1>6, <2>1, <3>1, <3>2, <3>3 DEF Counts, Seeking, WrittenSteps
  <2>2. CASE DropOpp(w) /\ step = "write"
    <3>1. k.step = "made" /\ k.target = 0
      BY <1>1, <2>2 DEF DropOpp, TaskAt, WriterOK, WrittenSteps
    <3> QED BY <1>4, <1>6, <2>2, <3>1 DEF Counts, Seeking, WrittenSteps
  <2>3. CASE DropWritten(w) /\ step = "clear"
    BY <1>4, <1>6, <2>3 DEF Counts, Seeking, WrittenSteps
  <2> QED BY <1>2, <2>1, <2>2, <2>3
<1> QED BY <1>1, <1>3, <1>5, <1>6, TurnMoves

LEMMA FolderTurn ==
  ASSUME StoreInv, StoreInv', LedgerInv, LedgerInv', TurnInv, NEW w \in Writers, CreateFolder(w) PROVE TurnInv'
<1>1. PICK k : k = task[w] /\ k \in TaskRows /\ WriterOK(k)
  BY TasksSound, WritersAre DEF Sound
<1>2. k.step = "mkdir" /\ k.folder = 0 /\ Working(w)
  BY <1>1 DEF CreateFolder, TaskAt, WriterOK, Working
<1>3. PICK new : new = [k EXCEPT !.step = "made", !.folder = folders + 1] /\ Goes(w, new)
  BY <1>1 DEF CreateFolder
<1>4. /\ new.step = "made" /\ new.comment = k.comment /\ new.folder = folders + 1 /\ new.list = k.list
      /\ new.left = k.left /\ new.run = k.run /\ new.page = k.page /\ new.total = k.total /\ new.n = k.n
      /\ new.target = k.target /\ new.items = k.items
  BY <1>1, <1>3 DEF TaskRows
<1>5. UNCHANGED <<files, comments>> /\ folders' = folders + 1 /\ folders \in Nat
  BY DEF CreateFolder, StoreInv, PagesTyped
<1>6. InTurn' <=> InTurn
  BY <1>5 DEF InTurn
<1>7. ASSUME InTurn PROVE folders' <= 1 /\ Counts(new)'
  <2>1. Counts(k)
    BY <1>1, <1>2, <1>7 DEF TurnInv
  <2>2. folders = 0
    BY <1>2, <2>1 DEF Counts, Seeking
  <2>3. \A r, f : Shows(r, files[f])' = Shows(r, files[f])
    BY <1>5 DEF Shows
  <2> QED BY <1>2, <1>4, <1>5, <2>1, <2>2, <2>3 DEF Counts, Seeking, WrittenSteps
<1> QED BY <1>2, <1>3, <1>5, <1>6, <1>7, WritersAre, TurnKept

LEMMA SubmitTurn ==
  ASSUME StoreInv, StoreInv', LedgerInv, LedgerInv', TurnInv, NEW w \in Writers,
         NEW by \in Reviewers, NEW run \in Runs, NEW decision \in Decisions, Submit(w, by, run, decision)
  PROVE  TurnInv'
<1>0. PICK c, others, new : Submitted(w, by, run, decision, c, others, new)
  BY SubmitIs
<1>1. /\ DOMAIN comments' = DOMAIN comments \cup {c} /\ Goes(w, new)
      /\ new = [NoTask EXCEPT !.step = "opp", !.comment = c, !.run = run, !.force = TRUE]
  BY <1>0 DEF Submitted
<1>2. UNCHANGED <<folders, files>>
  BY DEF Submit
<1>3. ASSUME NEW d \in DOMAIN comments, comments[d].overlapped PROVE comments'[d].overlapped
  <2>1. PICK old, row : old = comments[d] /\ row = comments'[d] /\ old \in CommentRows
    BY Numbers DEF StoreInv
  <2>2. row = IF d \in others THEN [old EXCEPT !.overlapped = TRUE] ELSE old
    BY <1>0, <2>1 DEF Submitted
  <2>3. old.overlapped => row.overlapped
    BY <2>1, <2>2 DEF CommentRows
  <2> QED BY <1>3, <2>1, <2>3
<1>4. InTurn' => InTurn
  BY <1>1, <1>3 DEF InTurn
<1>5. new.step = "opp" /\ new.list = {} /\ new.left = {} /\ new.page.shows = {} /\ new.total = 0 /\ new.got = NoEntry
  BY <1>1 DEF NoTask, NoPage
<1>6. Counts(new)'
  <2>1. IsFiniteSet({}) /\ Cardinality({}) = 0
    BY FS_EmptySet
  <2> QED BY <1>5, <2>1 DEF Counts, Seeking
<1>7. task'[w] = new
  BY <1>1, WritersAre DEF Goes, StoreInv, PagesTyped
<1>8. Working(w)'
  BY <1>5, <1>7 DEF Working
<1>9. InTurn' => folders' <= 1
  BY <1>2, <1>4 DEF TurnInv
<1> QED BY <1>1, <1>2, <1>4, <1>6, <1>8, <1>9, WritersAre, TurnKept

LEMMA EndsTurn ==
  ASSUME StoreInv, StoreInv', LedgerInv, LedgerInv', TurnInv, NEW w \in Writers,
         Reject(w) \/ ClearPayload(w) \/ Fail(w)
  PROVE  TurnInv'
<1>1. PICK state : CommentEnds(w, state)
  BY DEF Reject, ClearPayload, Fail
<1>2. Working(w) /\ Goes(w, NoTask) /\ UNCHANGED <<folders, files>>
  BY DEF Reject, Full, ClearPayload, Fail, TaskAt, Busy, Working
<1>3. PICK c : c = task[w].comment /\ c \in DOMAIN comments /\ comments[c] \in CommentRows
  BY <1>2, OwnComment, Numbers DEF StoreInv
<1>4. PICK e : e = [comments[c] EXCEPT !.state = state] /\ comments' = [comments EXCEPT ![c] = e]
  BY <1>1, <1>3 DEF CommentEnds
<1>5. e.overlapped = comments[c].overlapped
  BY <1>3, <1>4 DEF CommentRows
<1>6. DOMAIN comments' = DOMAIN comments /\ \A d \in DOMAIN comments : comments'[d].overlapped = comments[d].overlapped
  BY <1>3, <1>4, <1>5 DEF StoreInv, PagesTyped
<1>7. InTurn' => InTurn
  BY <1>6 DEF InTurn
<1>8. InTurn' => folders' <= 1
  BY <1>2, <1>7 DEF TurnInv
<1> QED BY <1>2, <1>7, <1>8, NoTaskIs, WritersAre, TurnKept
-----------------------------------------------------------------------------
LEMMA WriteTurn ==
  ASSUME StoreInv, StoreInv', LedgerInv, LedgerInv', TurnInv, NEW w \in Writers, Write(w) PROVE TurnInv'
<1>0. PICK k, c, f, item, e, g, new : Appended(w, k, c, f, item, e, g, new)
  BY WriteIs
<1>1. /\ k = task[w] /\ k.step = "write" /\ c = k.comment /\ c \in DOMAIN comments
      /\ k \in TaskRows /\ WriterOK(k) /\ TaskOK(k) /\ c \in Nat
  BY <1>0, Numbers DEF Appended, Sound, StoreInv
<1>2. comments[c] \in CommentRows /\ comments[c].run = k.run
  BY <1>1, Numbers DEF WriterOK, StoreInv
<1>3. e.overlapped = comments[c].overlapped
  BY <1>0, <1>2 DEF Appended, CommentRows
<1>4. /\ DOMAIN comments' = DOMAIN comments /\ comments'[c] = e
      /\ \A d \in DOMAIN comments : d # c => comments'[d] = comments[d]
  BY <1>0 DEF Appended
<1>5. /\ DOMAIN files' = DOMAIN files \cup {f} /\ files'[f] = g /\ g \in Records
      /\ \A h \in DOMAIN files : h # f => files'[h] = files[h]
      /\ g.run = k.run
  BY <1>0, <1>1, <1>2 DEF Appended
<1>6. UNCHANGED folders
  BY DEF Write
<1>7. InTurn' => InTurn
  <2>1. \A d \in DOMAIN comments : comments'[d].overlapped = comments[d].overlapped
    BY <1>3, <1>4
  <2> QED BY <1>4, <2>1 DEF InTurn
<1>8. /\ k.items \in Seq(Items) /\ item \in Items /\ g.items = Append(k.items, item) /\ item.of = c
  BY <1>0 DEF Appended
<1>9. Shows(k.run, g) = {k.items[i].of : i \in DOMAIN k.items} \cup {c}
  <2>1. Len(k.items) \in Nat /\ DOMAIN k.items = 1..Len(k.items) /\ g.items \in Seq(Items)
        /\ Len(g.items) = Len(k.items) + 1 /\ g.items[Len(k.items) + 1] = item
        /\ \A i \in 1..Len(k.items) : g.items[i] = k.items[i]
    BY <1>8, AppendProperties, LenProperties
  <2>2. DOMAIN g.items = DOMAIN k.items \cup {Len(k.items) + 1}
    BY <2>1, LenProperties
  <2>3. Shows(k.run, g) = {g.items[i].of : i \in DOMAIN g.items}
    BY <1>5, ShowsIs
  <2> QED BY <1>8, <2>1, <2>2, <2>3
<1>10. \A r : r # k.run => Shows(r, g) = {}
  BY <1>5, ShowsIs
<1> SUFFICES ASSUME InTurn'
             PROVE  /\ folders' <= 1
                    /\ \A a, b \in DOMAIN files' : files'[a].slug = files'[b].slug => a = b
                    /\ \A run \in Runs : IsFiniteSet(AllShows(run)') /\ Cardinality(AllShows(run)') <= MaxPerRun
                    /\ \A v \in Writers : Working(v)' => Counts(task[v])'
  BY DEF TurnInv
<1>11. InTurn /\ Working(w) /\ Counts(k)
  BY <1>1, <1>7 DEF TurnInv, Working
<1>12. /\ k.list = DOMAIN files /\ k.left = {}
       /\ \A h \in DOMAIN files : Shows(k.run, files[h]) \subseteq k.page.shows
  BY <1>1, <1>11 DEF Counts, Seeking, WrittenSteps
<1>a. IsFiniteSet(k.page.shows) /\ Cardinality(k.page.shows) <= k.total
  BY <1>11 DEF Counts
<1>b. k.total \in Nat /\ k.total < MaxPerRun
  BY <1>1, <1>11 DEF Counts, Seeking, TaskRows
<1>13. k.target # 0 => /\ f \in DOMAIN files /\ k.items = files[f].items
                       /\ g.slug = files[f].slug /\ files[f].run = k.run
  BY <1>0, <1>1, <1>5, <1>11 DEF Appended, Counts
<1>14. k.target = 0 => f \notin DOMAIN files /\ k.items = <<>> /\ \A h \in DOMAIN files : files[h].slug # g.slug
  <2>1. CASE k.target = 0
    <3>1. f \notin DOMAIN files /\ k.items = <<>> /\ g.slug = <<SlugOf[comments[c].by], k.n>>
      BY <1>0, <2>1 DEF Appended
    <3>2. \A h \in DOMAIN files : files[h].slug # <<SlugOf[comments[k.comment].by], k.n>>
      BY <1>1, <1>11, <2>1 DEF Counts, Seeking
    <3> QED BY <1>1, <3>1, <3>2
  <2> QED BY <2>1
<1>15. ASSUME NEW a \in DOMAIN files', NEW b \in DOMAIN files', files'[a].slug = files'[b].slug PROVE a = b
  <2>1. \A h \in DOMAIN files : h # f => files[h].slug # g.slug
    <3>1. CASE k.target = 0
      BY <1>14, <3>1
    <3>2. CASE k.target # 0
      BY <1>11, <1>13, <3>2 DEF TurnInv
    <3> QED BY <3>1, <3>2
  <2>2. CASE a # f /\ b # f
    <3>1. a \in DOMAIN files /\ b \in DOMAIN files /\ files[a].slug = files[b].slug
      BY <1>5, <1>15, <2>2
    <3> QED BY <1>11, <3>1 DEF TurnInv
  <2>3. CASE a = f \/ b = f
    BY <1>5, <1>15, <2>1, <2>3
  <2> QED BY <2>2, <2>3
<1>16. ASSUME NEW h \in DOMAIN files' PROVE Shows(k.run, files'[h]) \subseteq k.page.shows \cup {c}
  <2>1. CASE h # f
    BY <1>5, <1>12, <1>16, <2>1
  <2>2. CASE h = f
    <3>1. {k.items[i].of : i \in DOMAIN k.items} \subseteq k.page.shows
      <4>1. CASE k.target = 0
        BY <1>14, <4>1
      <4>2. CASE k.target # 0
        <5>1. files[f] \in Records /\ files[f].run = k.run /\ files[f].items = k.items
          BY <1>13, <4>2, Numbers DEF StoreInv
        <5>2. Shows(k.run, files[f]) = {k.items[i].of : i \in DOMAIN k.items}
          BY <5>1, ShowsIs, SMTT(60)
        <5> QED BY <1>12, <1>13, <4>2, <5>2
      <4> QED BY <4>1, <4>2
    <3> QED BY <1>5, <1>9, <2>2, <3>1
  <2> QED BY <2>1, <2>2
<1>17. AllShows(k.run)' \subseteq k.page.shows \cup {c}
  <2>1. AllShows(k.run)' = UNION {Shows(k.run, files'[h]) : h \in DOMAIN files'}
    BY DEF AllShows, Shows
  <2> QED BY <1>16, <2>1
<1>18. IsFiniteSet(k.page.shows \cup {c}) /\ Cardinality(k.page.shows \cup {c}) <= MaxPerRun
  <2>1. PICK s, total : s = k.page.shows /\ total = k.total
    OBVIOUS
  <2>2. IsFiniteSet(s) /\ Cardinality(s) <= total /\ total \in Nat /\ total < MaxPerRun
    BY <1>a, <1>b, <2>1
  <2>3. Cardinality(s) \in Nat
    BY <2>2, FS_CardinalityType
  <2>4. IsFiniteSet({c}) /\ Cardinality({c}) = 1
    BY FS_Singleton
  <2>5. IsFiniteSet(s \cup {c}) /\ Cardinality(s \cup {c}) \in Nat
        /\ Cardinality(s \cup {c}) <= Cardinality(s) + 1
    BY <2>2, <2>4, UnionBound
  <2>6. Cardinality(s \cup {c}) <= MaxPerRun
    BY <2>2, <2>3, <2>5, SummaryPageAssumption
  <2> QED BY <2>1, <2>5, <2>6
<1>19. ASSUME NEW run \in Runs PROVE IsFiniteSet(AllShows(run)') /\ Cardinality(AllShows(run)') <= MaxPerRun
  <2>1. CASE run = k.run
    <3>1. PICK s, u : s = AllShows(run)' /\ u = k.page.shows \cup {c} /\ s \subseteq u /\ IsFiniteSet(u)
                      /\ Cardinality(u) <= MaxPerRun
      BY <1>17, <1>18, <2>1
    <3>2. IsFiniteSet(s) /\ Cardinality(s) <= Cardinality(u) /\ Cardinality(s) \in Nat /\ Cardinality(u) \in Nat
      BY <3>1, FS_Subset, FS_CardinalityType
    <3> QED BY <3>1, <3>2, SummaryPageAssumption
  <2>2. CASE run # k.run
    <3>1. \A h \in DOMAIN files' : h # f => Shows(run, files'[h]) = Shows(run, files[h])
      BY <1>5
    <3>2. Shows(run, files'[f]) = {} /\ (f \in DOMAIN files => Shows(run, files[f]) = {})
      <4>1. f \in DOMAIN files => files[f].run = k.run /\ files[f] \in Records
        BY <1>13, <1>14, Numbers DEF StoreInv
      <4> QED BY <1>5, <1>10, <2>2, <4>1, ShowsIs
    <3>3. AllShows(run)' = UNION {Shows(run, files'[h]) : h \in DOMAIN files'}
      BY DEF AllShows, Shows
    <3>4. AllShows(run)' = AllShows(run)
      BY <1>5, <3>1, <3>2, <3>3 DEF AllShows
    <3> QED BY <1>11, <3>4 DEF TurnInv
  <2> QED BY <2>1, <2>2
<1>20. ASSUME NEW v \in Writers, Working(v)' PROVE Counts(task[v])'
  <2>1. task'[w] = new /\ \A u \in Tasks : u # w => task'[u] = task[u]
    BY <1>0, WritersAre DEF Appended, Goes, StoreInv, PagesTyped
  <2>2. v = w
    <3>1. v # w => Working(v)
      BY <1>20, <2>1, WritersAre DEF Working
    <3> QED BY <1>11, <3>1, OneAtATime
  <2>3. new.step \in WrittenSteps /\ new.page = k.page /\ new.total = k.total
    BY <1>0, <1>1 DEF Appended, TaskRows, WrittenSteps
  <2>4. IsFiniteSet(new.page.shows) /\ Cardinality(new.page.shows) <= new.total
    BY <1>a, <2>3
  <2>5. Counts(new)'
    BY <2>3, <2>4 DEF Counts, Seeking, WrittenSteps
  <2> QED BY <2>1, <2>2, <2>5
<1>21. folders' <= 1
  BY <1>6, <1>11 DEF TurnInv
<1> QED BY <1>15, <1>19, <1>20, <1>21

LEMMA TurnStep ==
  ASSUME StoreInv, StoreInv', LedgerInv, LedgerInv', TurnInv, [CommentsNext]_commentVars PROVE TurnInv'
<1>1. CASE UNCHANGED commentVars
  BY <1>1, SameTurn DEF commentVars
<1>2. ASSUME NEW r \in Readers, Loading(r) PROVE TurnInv'
  BY <1>2, ReadersTurn
<1>3. ASSUME NEW w \in Writers, Submitting(w) PROVE TurnInv'
  BY <1>3, SubmitTurn, StoreTurn, WritersForce, FetchTurn, StepsTurn, EndsTurn, FolderTurn, WriteTurn
     DEF Submitting, Caching
<1>4. CASE Expire
  BY <1>4, SameTurn DEF Expire
<1> QED BY <1>1, <1>2, <1>3, <1>4 DEF CommentsNext

LEMMA TurnStart == CommentsInit => TurnInv
<1> SUFFICES ASSUME CommentsInit PROVE TurnInv
  OBVIOUS
<1>1. folders = 0 /\ DOMAIN files = {}
  BY DEF CommentsInit
<1>2. \A run : AllShows(run) = {}
  BY <1>1 DEF AllShows
<1>3. IsFiniteSet({}) /\ Cardinality({}) = 0
  BY FS_EmptySet
<1>4. \A w \in Writers : ~Working(w)
  BY WritersAre DEF CommentsInit, Working, NoTask
<1>5. \A run \in Runs : IsFiniteSet(AllShows(run)) /\ Cardinality(AllShows(run)) <= MaxPerRun
  <2>1. 0 <= MaxPerRun
    BY SummaryPageAssumption
  <2> QED BY <1>2, <1>3, <2>1
<1> QED BY <1>1, <1>4, <1>5 DEF TurnInv
-----------------------------------------------------------------------------
\* A reading task asks for Drive's root, one folder or one record.
LEMMA AskedKinds ==
  ASSUME StoreInv, NEW t \in Tasks, NEW key, Asks(task[t], key)
  PROVE  \/ key = Opp
         \/ \E d \in Nat : key = Folder(d)
         \/ \E f \in DOMAIN files : key = Body(f) /\ f \in Nat
<1>1. TaskOK(task[t]) /\ folders \in Nat
  BY DEF StoreInv, PagesTyped
<1>2. task[t].folder \in Nat /\ \A f \in task[t].list : f \in DOMAIN files /\ f \in Nat
  BY <1>1, Numbers DEF TaskOK, In, StoreInv
<1> QED BY <1>1, <1>2 DEF Asks, TaskOK

\* The comments pages are to show are written, and their records are there.
LEMMA AloneIs ==
  ASSUME StoreInv, LedgerInv, NEW c \in Alone
  PROVE  /\ c \in Solid /\ c \in DOMAIN comments /\ comments[c].state = "acked" /\ comments[c].file # 0
         /\ comments[c].file \in DOMAIN files /\ comments[c].file \in Nat
         /\ files[comments[c].file].run = comments[c].run /\ comments[c].run \in Runs
         /\ files[comments[c].file].folder \in 1..folders
         /\ HasItem(files[comments[c].file].items, c)
<1>1. c \in DOMAIN comments /\ comments[c].state = "acked" /\ ~comments[c].overlapped
  BY DEF Alone
<1>2. comments[c].file # 0 /\ comments[c].file \in DOMAIN files /\ files[comments[c].file].run = comments[c].run
  BY <1>1 DEF StoreInv, CommentOK
<1>3. c \in Solid
  BY <1>1, <1>2 DEF Solid
<1> QED BY <1>1, <1>2, <1>3, Numbers DEF StoreInv, LedgerInv, FileOK, CommentRows

\* A page in the making misses no comment that what it reads does not hide.
LEMMA ReadsFinds ==
  ASSUME StoreInv, LedgerInv, NEW r \in Readers, NEW key, NEW v, Fits(key, v), NEW new,
         Reads(r, task[r], key, v, new), NEW c \in Alone, Good(c, key, v), Finds(task[r], c), folders <= 1
  PROVE  Finds(new, c)
<1>1. PICK k : k = task[r] /\ Sound(r, k) /\ k \in TaskRows /\ TaskOK(k) /\ ReaderOK(k) /\ Finds(k, c)
  BY TasksSound, ReadersAre DEF Sound
<1>2. PICK f : f = comments[c].file /\ f \in DOMAIN files /\ f \in Nat /\ files[f].run = comments[c].run
               /\ files[f].folder \in 1..folders /\ HasItem(files[f].items, c)
  BY AloneIs
<1>3. folders \in Nat /\ folders = 1 /\ files[f].folder = 1
  BY <1>2 DEF StoreInv, PagesTyped
<1>4. Read(r) = "page"
  BY ReadersAre DEF Read
<1>5. CASE key = Opp /\ AsksOpp(r, k, v, new)
  <2>1. v # 0
    BY <1>5 DEF Good
  <2>2. PICK d \in 1..v : new = [k EXCEPT !.got = NoEntry, !.step = "folder", !.folder = d]
    BY <1>5, <2>1 DEF AsksOpp
  <2>3. new.step = "folder"
    BY <1>1, <2>2 DEF TaskRows
  <2> QED BY <2>3 DEF Finds
<1>6. CASE key = Folder(k.folder) /\ AsksFolder(r, k, v, new)
  <2>1. k.folder = 1
    BY <1>1, <1>3, <1>6 DEF AsksFolder, TaskOK
  <2>2. f \in v
    BY <1>2, <1>3, <1>6, <2>1 DEF Good
  <2>3. new = [k EXCEPT !.got = NoEntry, !.step = "bodies", !.list = v, !.left = v]
    BY <1>6, <2>2 DEF AsksFolder
  <2>4. new.step = "bodies" /\ new.left = v
    BY <1>1, <2>3 DEF TaskRows
  <2> QED BY <1>2, <2>2, <2>4 DEF Finds
<1>7. ASSUME NEW h \in k.left, key = Body(h), AsksBody(r, k, h, v, new) PROVE Finds(new, c)
  <2>1. h \in Nat /\ k.step = "bodies"
    BY <1>1, <1>7, Numbers DEF TaskOK, In, AsksBody, StoreInv
  <2>2. PICK left, total, p : /\ left = k.left \ {h} /\ total = k.total + Cardinality(Shows(k.run, v))
                              /\ p = [shows |-> k.page.shows \cup Shows(k.run, v), short |-> k.page.short]
    OBVIOUS
  <2>3. new = [k EXCEPT !.got = NoEntry, !.step = IF left = {} THEN "page" ELSE "bodies",
                        !.left = left, !.total = total, !.page = p]
    BY <1>1, <1>4, <1>7, <2>2 DEF AsksBody, TaskRows
  <2>4. /\ new.step = (IF left = {} THEN "page" ELSE "bodies") /\ new.left = left /\ new.run = k.run
        /\ new.page.short = k.page.short /\ new.page.shows = k.page.shows \cup Shows(k.run, v)
    BY <1>1, <2>2, <2>3 DEF TaskRows
  <2>5. ASSUME h = f, comments[c].run = k.run PROVE c \in Shows(k.run, v)
    <3>1. HasItem(v.items, c) /\ v.run = k.run
      BY <1>2, <1>7, <2>1, <2>5 DEF Good, Fits, Looks
    <3>2. PICK i \in DOMAIN v.items : v.items[i] = [id |-> comments[c].id, of |-> c]
      BY <3>1 DEF HasItem
    <3>3. v.items[i].of = c
      BY <3>2
    <3> QED BY <3>1, <3>3 DEF Shows
  <2>6. comments[c].run = k.run => k.page.short \/ f \in k.left \/ c \in k.page.shows
    BY <1>1, <1>2, <2>1 DEF Finds
  <2>7. comments[c].run = k.run => k.page.short \/ f \in left \/ c \in new.page.shows
    BY <2>2, <2>4, <2>5, <2>6
  <2> QED BY <1>2, <2>4, <2>7 DEF Finds
<1>8. ASSUME NEW h \in k.list, key = Body(h), AsksTarget(k, h, v, new) PROVE Finds(new, c)
  BY <1>1, <1>8 DEF AsksTarget, ReaderOK, ReaderSteps
<1> QED BY <1>1, <1>5, <1>6, <1>7, <1>8 DEF Reads

\* A page goes on.
LEMMA ReaderCaches ==
  ASSUME StoreInv, StoreInv', LedgerInv, CachesInv, NEW r \in Readers, NEW new, Goes(r, new),
         UNCHANGED <<folders, files, comments, crossed>>, Current(new.got),
         \A key \in Keys : cache'[key] = cache[key]
           \/ (task[r].got # NoEntry /\ key = task[r].got[1] /\ cache'[key][1] = task[r].got[2]),
         folders <= 1 => \A c \in Alone : Visible(c) =>
           /\ Finds(new, c) /\ (new.got # NoEntry => Good(c, new.got[1], new.got[2]))
           /\ payload'[comments[c].run] # NoEntry =>
                payload'[comments[c].run][1].short \/ c \in payload'[comments[c].run][1].shows
  PROVE  CachesInv'
<1> SUFFICES ASSUME ~crossed'
             PROVE  /\ \A q \in Readers : Current(task[q].got)'
                    /\ folders' <= 1 => /\ \A w \in Writers : Lone(w)' => Tidy(w)'
                                        /\ \A c \in Alone' : Visible(c)'
  BY DEF CachesInv
<1>1. task'[r] = new /\ \A u \in Tasks : u # r => task'[u] = task[u]
  BY ReadersAre DEF Goes, StoreInv, PagesTyped
<1>2. ~crossed /\ folders' = folders
  OBVIOUS
<1>3. \A w \in Writers : task'[w] = task[w]
  BY <1>1, ReadersAre, WritersAre
<1>4. \A key : Truth(key)' = Truth(key)
  BY DEF Truth
<1>5. \A w \in Writers : \A key : Outdating(w, key)' <=> Outdating(w, key)
  BY <1>3 DEF Outdating, OutdatedBy, TaskAt
<1>6. ASSUME NEW q \in Readers PROVE Current(task[q].got)'
  <2>1. Current(task[q].got)' <=> Current(task'[q].got)
    BY <1>4, <1>5 DEF Current
  <2>2. CASE q = r
    BY <1>1, <2>1, <2>2
  <2>3. CASE q # r
    BY <1>1, <1>2, <2>1, <2>3, ReadersAre DEF CachesInv
  <2> QED BY <2>2, <2>3
<1>7. ASSUME folders <= 1, NEW w \in Writers, Lone(w)' PROVE Tidy(w)'
  <2>1. Lone(w) /\ Tidy(w)
    BY <1>2, <1>3, <1>7 DEF Lone, Working, CachesInv
  <2>2. \A u \in Writers : u # w => ~Working(u)
    BY <2>1 DEF LedgerInv
  <2>3. ASSUME NEW key, True(key), ~Outdating(w, key) PROVE True(key)'
    <3>1. CASE key \in Keys /\ task[r].got # NoEntry /\ key = task[r].got[1] /\ cache'[key][1] = task[r].got[2]
      <4>1. \A u \in Writers : ~Outdating(u, key)
        BY <2>2, <2>3 DEF Outdating, Working, TaskAt
      <4>2. task[r].got[2] = Truth(key)
        BY <1>2, <3>1, <4>1 DEF CachesInv, Current
      <4> QED BY <1>4, <3>1, <4>2 DEF True
    <3>2. CASE key \in Keys /\ cache'[key] = cache[key]
      BY <1>4, <2>3, <3>2 DEF True
    <3>3. CASE key \notin Keys
      BY <3>3 DEF True
    <3> QED BY <3>1, <3>2, <3>3
  <2>4. PICK k : k = task[w] /\ TaskOK(k) /\ WriterOK(k)
    BY WritersAre DEF StoreInv
  <2>5. k.folder \in Nat /\ k.target \in Nat /\ (k.step = "uploaded" => comments[k.comment].file \in Nat)
        /\ (k.step # "idle" => comments[k.comment].file \in Nat)
    BY <2>4, Numbers, OwnComment, WritersAre DEF StoreInv, TaskRows, Working, CommentRows
  <2>6. task'[w] = k
    BY <1>3, <2>4
  <2>7. k.step \notin {"idle", "opp", "made"} => True(Opp)'
    <3>1. ASSUME k.step # "made" PROVE ~Outdating(w, Opp)
      BY <2>4, <2>5, <3>1, KeyKinds DEF Outdating, OutdatedBy, TaskAt
    <3> QED BY <2>1, <2>3, <2>4, <3>1 DEF Tidy
  <2>8. k.folder # 0 /\ k.step \in {"bodies", "updated", "clear"} \cup Seeking => True(Folder(k.folder))'
    <3>1. ASSUME k.step # "uploaded" PROVE ~Outdating(w, Folder(k.folder))
      BY <2>4, <2>5, <3>1, KeyKinds DEF Outdating, OutdatedBy, TaskAt
    <3>2. k.step \in {"bodies", "updated", "clear"} \cup Seeking => k.step # "uploaded"
      BY DEF Seeking
    <3> QED BY <2>1, <2>3, <2>4, <3>1, <3>2 DEF Tidy
  <2>9. k.step \in {"uploaded", "clear"} => True(Body(comments[k.comment].file))'
    <3>1. ASSUME k.step \in {"uploaded", "clear"} PROVE ~Outdating(w, Body(comments[k.comment].file))
      BY <2>4, <2>5, <3>1, KeyKinds DEF Outdating, OutdatedBy, TaskAt
    <3> QED BY <2>1, <2>3, <2>4, <3>1 DEF Tidy
  <2> QED BY <2>6, <2>7, <2>8, <2>9 DEF Tidy
<1>8. ASSUME folders <= 1, NEW c \in Alone' PROVE Visible(c)'
  <2>1. c \in Alone /\ Visible(c)
    BY <1>2, <1>8 DEF Alone, CachesInv
  <2>2. \A key, v : Good(c, key, v)' <=> Good(c, key, v)
    BY DEF Good, HasItem
  <2>3. \A k : Finds(k, c)' <=> Finds(k, c)
    BY DEF Finds
  <2>4. \A key \in Keys : cache'[key] # NoEntry => Good(c, key, cache'[key][1])
    BY <2>1 DEF Visible
  <2>5. \A q \in Readers : /\ task'[q].got # NoEntry => Good(c, task'[q].got[1], task'[q].got[2])
                           /\ Finds(task'[q], c)
    BY <1>1, <1>8, <2>1, ReadersAre DEF Visible
  <2>6. payload'[comments[c].run] # NoEntry =>
                payload'[comments[c].run][1].short \/ c \in payload'[comments[c].run][1].shows
    BY <1>8, <2>1
  <2> QED BY <2>2, <2>3, <2>4, <2>5, <2>6 DEF Visible
<1> QED BY <1>2, <1>6, <1>7, <1>8
-----------------------------------------------------------------------------
LEMMA ReaderFetch ==
  ASSUME StoreInv, StoreInv', LedgerInv, CachesInv, NEW r \in Readers, NEW key \in Keys, Fetch(r, key)
  PROVE  CachesInv'
<1>1. PICK k : k = task[r] /\ k \in TaskRows
  BY TasksSound, ReadersAre DEF Sound
<1>2. Asks(k, key)
  BY <1>1, WantsAsks DEF Fetch
<1>3. PICK v : v = Truth(key)
  OBVIOUS
<1>4. PICK new : new = [k EXCEPT !.got = <<key, v>>] /\ Goes(r, new)
  BY <1>1, <1>3 DEF Fetch
<1>5. new.got[1] = key /\ new.got[2] = v /\ new.step = k.step /\ new.run = k.run /\ new.left = k.left
      /\ new.page = k.page /\ new.owed = k.owed
  BY <1>1, <1>4 DEF TaskRows
<1>6. Current(new.got)
  BY <1>3, <1>5 DEF Current
<1>7. ASSUME NEW c \in Alone, Visible(c) PROVE Finds(new, c) /\ Good(c, key, v)
  <2>1. Good(c, key, v)
    BY <1>1, <1>2, <1>3, AloneIs, TruthGood, ReadersAre
  <2>2. Finds(k, c)
    BY <1>1, <1>7 DEF Visible
  <2> QED BY <1>5, <2>1, <2>2 DEF Finds
<1>8. UNCHANGED <<folders, files, cache, payload, comments, crossed>>
  BY DEF Fetch
<1> QED BY <1>4, <1>5, <1>6, <1>7, <1>8, ReaderCaches DEF Visible

\* A reader goes on with what it has learnt.
LEMMA ReaderLearns ==
  ASSUME StoreInv, StoreInv', LedgerInv, CachesInv, NEW r \in Readers, NEW key \in Keys, NEW v, Fits(key, v),
         NEW new, Goes(r, new), Reads(r, task[r], key, v, new), new.got = NoEntry,
         UNCHANGED <<folders, files, payload, comments, crossed>>,
         \A other \in Keys : cache'[other] = cache[other]
           \/ (task[r].got # NoEntry /\ other = task[r].got[1] /\ cache'[other][1] = task[r].got[2]),
         folders <= 1 => \A c \in Alone : Visible(c) => Good(c, key, v)
  PROVE  CachesInv'
<1>1. Current(new.got)
  BY DEF Current
<1>2. ASSUME folders <= 1, NEW c \in Alone, Visible(c) PROVE Finds(new, c)
  <2>1. Good(c, key, v) /\ Finds(task[r], c)
    BY <1>2 DEF Visible
  <2> QED BY <1>2, <2>1, ReadsFinds
<1> QED BY <1>1, <1>2, ReaderCaches DEF Visible

LEMMA ReaderHit ==
  ASSUME StoreInv, StoreInv', LedgerInv, CachesInv, NEW r \in Readers, NEW key \in Keys, Hit(r, key)
  PROVE  CachesInv'
<1>1. Asks(task[r], key) /\ cache[key] # NoEntry /\ task[r] \in TaskRows
  BY WantsAsks, TasksSound, ReadersAre DEF Hit, Hits, Sound
<1>2. Fits(key, cache[key][1])
  BY <1>1 DEF StoreInv
<1>3. PICK new : Goes(r, new) /\ Reads(r, task[r], key, cache[key][1], new)
  BY <1>1, LearnIs, ReadersAre DEF Hit
<1>4. new.got = NoEntry
  BY <1>1, <1>3 DEF Reads, AsksOpp, AsksFolder, AsksBody, AsksTarget, TaskRows
<1>5. UNCHANGED <<folders, files, cache, payload, comments, crossed>>
  BY DEF Hit
<1> QED BY <1>1, <1>2, <1>3, <1>4, <1>5, ReaderLearns DEF Visible

LEMMA ReaderStore ==
  ASSUME StoreInv, StoreInv', LedgerInv, CachesInv, NEW r \in Readers, Store(r) PROVE CachesInv'
<1>1. PICK key, v, new :
           /\ task[r].got # NoEntry /\ task[r].got[1] = key /\ task[r].got[2] = v /\ key \in Keys /\ v \in Values
           /\ cache' = [cache EXCEPT ![key] = <<v>>] /\ Fits(key, v)
           /\ Goes(r, new) /\ Reads(r, task[r], key, v, new) /\ new.got = NoEntry
  BY StoreLearns, ReadersAre
<1>2. \A other \in Keys : cache'[other] = cache[other]
           \/ (task[r].got # NoEntry /\ other = task[r].got[1] /\ cache'[other][1] = task[r].got[2])
  BY <1>1, Single DEF StoreInv, PagesTyped
<1>3. \A c \in Alone : Visible(c) => Good(c, key, v)
  BY <1>1 DEF Visible
<1>4. UNCHANGED <<folders, files, payload, comments, crossed>>
  BY DEF Store
<1> QED BY <1>1, <1>2, <1>3, <1>4, ReaderLearns

\* A read that fails leaves the page short.
LEMMA ReaderFails ==
  ASSUME StoreInv, StoreInv', LedgerInv, CachesInv, NEW r \in Readers, NEW key \in Keys, ReadFails(r, key)
  PROVE  CachesInv'
<1>1. PICK k : k = task[r] /\ k \in TaskRows /\ k.got = NoEntry
  BY TasksSound, ReadersAre DEF Sound, ReadFails
<1>2. PICK left : left = IF k.step = "bodies" THEN k.left \ {key[2]} ELSE {}
  OBVIOUS
<1>3. PICK p : p = [k.page EXCEPT !.short = TRUE]
  OBVIOUS
<1>4. PICK new : /\ new = [k EXCEPT !.page = p, !.left = left, !.step = IF left = {} THEN "page" ELSE "bodies"]
                 /\ Goes(r, new)
  BY <1>1, <1>2, <1>3 DEF ReadFails, TaskAt
<1>5. new.got = NoEntry /\ new.step \in {"page", "bodies"} /\ new.page.short
  BY <1>1, <1>3, <1>4 DEF TaskRows, Pages
<1>6. \A c : Finds(new, c)
  BY <1>5 DEF Finds
<1>7. UNCHANGED <<folders, files, cache, payload, comments, crossed>>
  BY DEF ReadFails
<1> QED BY <1>4, <1>5, <1>6, <1>7, ReaderCaches DEF Visible, Current

LEMMA ReaderLoads ==
  ASSUME StoreInv, StoreInv', LedgerInv, CachesInv, NEW r \in Readers, NEW run \in Runs, NEW force \in BOOLEAN,
         LoadPage(r, run, force)
  PROVE  CachesInv'
<1>1. UNCHANGED <<folders, files, cache, payload, comments, crossed>>
  BY DEF LoadPage
<1>2. CASE payload[run] # NoEntry
  <2>1. PICK new : new = [NoTask EXCEPT !.step = "reply", !.run = run, !.page = payload[run][1],
                                        !.owed = Acked(run)] /\ Goes(r, new)
    BY <1>2 DEF LoadPage
  <2>2. new.got = NoEntry /\ new.step = "reply" /\ new.run = run /\ new.page = payload[run][1]
    BY <2>1 DEF NoTask
  <2>3. \A c : Visible(c) => Finds(new, c)
    BY <1>2, <2>2 DEF Finds, Visible
  <2> QED BY <1>1, <2>1, <2>2, <2>3, ReaderCaches DEF Visible, Current
<1>3. CASE payload[run] = NoEntry
  <2>1. PICK new : new = [NoTask EXCEPT !.step = "opp", !.run = run, !.force = force, !.owed = Acked(run)]
                   /\ Goes(r, new)
    BY <1>3 DEF LoadPage
  <2>2. new.got = NoEntry /\ new.step = "opp"
    BY <2>1 DEF NoTask
  <2>3. \A c : Finds(new, c)
    BY <2>2 DEF Finds
  <2> QED BY <1>1, <2>1, <2>2, <2>3, ReaderCaches DEF Visible, Current
<1> QED BY <1>2, <1>3

LEMMA ReaderSets ==
  ASSUME StoreInv, StoreInv', LedgerInv, CachesInv, NEW r \in Readers, SetPayload(r) PROVE CachesInv'
<1>1. PICK k : k = task[r] /\ k \in TaskRows /\ k.step = "page"
  BY TasksSound, ReadersAre DEF Sound, SetPayload, TaskAt
<1>2. PICK new : new = [k EXCEPT !.step = "reply"] /\ Goes(r, new)
  BY <1>1 DEF SetPayload
<1>3. new.got = k.got /\ new.step = "reply" /\ new.run = k.run /\ new.page = k.page
  BY <1>1, <1>2 DEF TaskRows
<1>4. k.got = NoEntry
  BY <1>1, NothingGot, ReadersAre
<1>5. UNCHANGED <<folders, files, cache, comments, crossed>> /\ payload' = [payload EXCEPT ![k.run] = <<k.page>>]
  BY <1>1 DEF SetPayload
<1>6. ASSUME NEW c \in Alone, Visible(c)
      PROVE  /\ Finds(new, c)
             /\ payload'[comments[c].run] # NoEntry =>
                  payload'[comments[c].run][1].short \/ c \in payload'[comments[c].run][1].shows
  <2>1. comments[c].run = k.run => k.page.short \/ c \in k.page.shows
    BY <1>1, <1>6 DEF Visible, Finds
  <2>2. Finds(new, c)
    BY <1>3, <2>1 DEF Finds
  <2>3. CASE comments[c].run = k.run
    <3>1. comments[c].run \in Runs
      BY AloneIs
    <3>2. payload'[comments[c].run] = <<k.page>>
      BY <1>5, <2>3, <3>1 DEF StoreInv, PagesTyped
    <3>3. payload'[comments[c].run][1] = k.page
      BY <3>2
    <3> QED BY <2>1, <2>2, <2>3, <3>3
  <2>4. CASE comments[c].run # k.run
    <3>1. payload'[comments[c].run] = payload[comments[c].run]
      BY <1>5, <2>4, AloneIs DEF StoreInv, PagesTyped
    <3> QED BY <1>6, <2>2, <3>1 DEF Visible
  <2> QED BY <2>3, <2>4
<1>7. new.got = NoEntry
  BY <1>3, <1>4
<1> QED BY <1>2, <1>5, <1>6, <1>7, ReaderCaches DEF Current

LEMMA ReaderReplies ==
  ASSUME StoreInv, StoreInv', LedgerInv, CachesInv, NEW r \in Readers, Reply(r) PROVE CachesInv'
<1>1. NoTask.got = NoEntry /\ \A c : Finds(NoTask, c)
  BY NoTaskIs DEF Finds
<1>2. Goes(r, NoTask) /\ UNCHANGED <<folders, files, cache, payload, comments, crossed>>
  BY DEF Reply
<1> QED BY <1>1, <1>2, ReaderCaches DEF Visible, Current
-----------------------------------------------------------------------------
\* What becomes of the pages' side when a writer moves, and Drive and the comments
\* stay as they are.
LEMMA WriterCaches ==
  ASSUME StoreInv, StoreInv', LedgerInv, CachesInv, NEW w \in Writers, Working(w), NEW new, Goes(w, new),
         UNCHANGED <<folders, files, comments, payload>>, new.step # "idle", new.comment = task[w].comment,
         crossed => crossed',
         ~crossed' => \/ \A r \in Readers : task[r].got = NoEntry
                      \/ \A key : ~Outdating(w, key),
         \A key \in Keys : cache'[key] = cache[key] \/ cache'[key] = NoEntry
                           \/ \A c \in Solid : Good(c, key, cache'[key][1]),
         ~crossed' /\ folders <= 1 /\ Lone(w) /\ Tidy(w) => Tidy(w)'
  PROVE  CachesInv'
<1> SUFFICES ASSUME ~crossed'
             PROVE  /\ \A q \in Readers : Current(task[q].got)'
                    /\ folders' <= 1 => /\ \A v \in Writers : Lone(v)' => Tidy(v)'
                                        /\ \A c \in Alone' : Visible(c)'
  BY DEF CachesInv
<1>1. task'[w] = new /\ \A u \in Tasks : u # w => task'[u] = task[u]
  BY WritersAre DEF Goes, StoreInv, PagesTyped
<1>2. ~crossed /\ folders' = folders
  OBVIOUS
<1>3. \A r \in Readers : task'[r] = task[r]
  BY <1>1, ReadersAre
<1>4. \A key : Truth(key)' = Truth(key)
  BY DEF Truth
<1>5. ASSUME NEW q \in Readers PROVE Current(task[q].got)'
  <2>1. Current(task[q].got)
    BY <1>2 DEF CachesInv
  <2>2. CASE \A r \in Readers : task[r].got = NoEntry
    BY <1>3, <2>2 DEF Current
  <2>3. CASE \A key : ~Outdating(w, key)
    <3>1. \A u \in Writers : u # w => \A key : Outdating(u, key)' <=> Outdating(u, key)
      BY <1>1, WritersAre DEF Outdating, OutdatedBy, TaskAt
    <3> QED BY <1>3, <1>4, <2>1, <2>3, <3>1 DEF Current
  <2> QED BY <2>2, <2>3
<1>6. ASSUME folders <= 1, NEW v \in Writers, Lone(v)' PROVE Tidy(v)'
  <2>1. Lone(v)
    BY <1>1, <1>6, WritersAre DEF Lone, Working
  <2>2. v = w
    BY <2>1 DEF LedgerInv
  <2> QED BY <1>2, <1>6, <2>1, <2>2 DEF CachesInv
<1>7. ASSUME folders <= 1, NEW c \in Alone' PROVE Visible(c)'
  <2>1. c \in Alone /\ Visible(c)
    BY <1>2, <1>7 DEF Alone, CachesInv
  <2>2. \A key, v : Good(c, key, v)' <=> Good(c, key, v)
    BY DEF Good, HasItem
  <2>3. \A k : Finds(k, c)' <=> Finds(k, c)
    BY DEF Finds
  <2>4. \A key \in Keys : cache'[key] # NoEntry => Good(c, key, cache'[key][1])
    BY <2>1, AloneIs DEF Visible
  <2>5. \A q \in Readers : /\ task'[q].got # NoEntry => Good(c, task'[q].got[1], task'[q].got[2])
                           /\ Finds(task'[q], c)
    BY <1>3, <2>1 DEF Visible
  <2>6. payload'[comments[c].run] # NoEntry =>
                payload'[comments[c].run][1].short \/ c \in payload'[comments[c].run][1].shows
    BY <2>1 DEF Visible
  <2> QED BY <2>2, <2>3, <2>4, <2>5, <2>6 DEF Visible
<1> QED BY <1>2, <1>5, <1>6, <1>7

LEMMA WriterFetch ==
  ASSUME StoreInv, StoreInv', LedgerInv, CachesInv, NEW w \in Writers, NEW key \in Keys, Fetch(w, key)
  PROVE  CachesInv'
<1>1. PICK k : k = task[w] /\ k \in TaskRows
  BY TasksSound, WritersAre DEF Sound
<1>2. Asks(k, key)
  BY <1>1, WantsAsks DEF Fetch
<1>3. PICK got : got = <<key, Truth(key)>>
  OBVIOUS
<1>4. PICK new : new = [k EXCEPT !.got = got] /\ Goes(w, new)
  BY <1>1, <1>3 DEF Fetch
<1>5. new.step = k.step /\ new.folder = k.folder /\ new.comment = k.comment
  BY <1>1, <1>4 DEF TaskRows
<1>6. Working(w) /\ new.step # "idle" /\ \A any : ~Outdating(w, any)
  BY <1>1, <1>2, <1>5 DEF Asks, Working, Outdating, TaskAt
<1>7. UNCHANGED <<folders, files, cache, payload, comments, crossed>>
  BY DEF Fetch
<1>8. task'[w] = new
  BY <1>4, WritersAre DEF Goes, StoreInv, PagesTyped
<1>9. Tidy(w) => Tidy(w)'
  <2>1. \A any : True(any)' <=> True(any)
    BY <1>7 DEF True, Truth
  <2> QED BY <1>1, <1>5, <1>7, <1>8, <2>1 DEF Tidy
<1> QED BY <1>1, <1>4, <1>5, <1>6, <1>7, <1>9, WriterCaches

LEMMA WriterStore ==
  ASSUME StoreInv, StoreInv', LedgerInv, CachesInv, NEW w \in Writers, Store(w) PROVE CachesInv'
<1>1. PICK key, v, new :
           /\ task[w].got # NoEntry /\ task[w].got[1] = key /\ task[w].got[2] = v /\ key \in Keys /\ v \in Values
           /\ cache' = [cache EXCEPT ![key] = <<v>>] /\ Asks(task[w], key) /\ Fits(key, v)
           /\ Goes(w, new) /\ Reads(w, task[w], key, v, new) /\ Sound(w, new)
           /\ Working(w) /\ new.comment = task[w].comment /\ new.got = NoEntry
  BY StoreLearns, WritersAre
<1>2. PICK k : k = task[w] /\ k \in TaskRows /\ TaskOK(k)
  BY TasksSound, WritersAre DEF Sound
<1>3. UNCHANGED <<folders, files, payload, comments, crossed>>
  BY DEF Store
<1>4. \A any : ~Outdating(w, any)
  BY <1>1 DEF Asks, Outdating, TaskAt
<1>5. cache'[key] = <<v>> /\ cache'[key][1] = v /\ \A any \in Keys : any # key => cache'[any] = cache[any]
  <2>1. <<v>>[1] = v
    OBVIOUS
  <2>2. cache'[key] = <<v>> /\ \A any \in Keys : any # key => cache'[any] = cache[any]
    BY <1>1 DEF StoreInv, PagesTyped
  <2> QED BY <2>1, <2>2
<1>6. \A any \in Keys : cache'[any] = cache[any] \/ cache'[any] = NoEntry
                        \/ \A c \in Solid : Good(c, any, cache'[any][1])
  BY <1>1, <1>5 DEF LedgerInv, Knows
<1>7. task'[w] = new
  BY <1>1, WritersAre DEF Goes, StoreInv, PagesTyped
<1>8. ASSUME Lone(w), Tidy(w) PROVE Tidy(w)'
  <2>1. v = Truth(key)
    BY <1>1, <1>8 DEF LedgerInv
  <2>2. True(key)'
    BY <1>1, <1>3, <1>5, <2>1 DEF True, Truth
  <2>3. \A any : any # key /\ True(any) => True(any)'
    BY <1>3, <1>5 DEF True, Truth
  <2>4. \A any : True(any) => True(any)'
    BY <2>2, <2>3
  <2>5. k.folder \in Nat
    BY <1>2 DEF TaskRows
  <2>6. CASE key = Opp /\ AsksOpp(w, k, v, new)
    <3>1. k.folder = 0
      BY <1>2, <2>6 DEF AsksOpp, TaskOK
    <3>2. (new.step = Read(w) /\ new.folder = 0) \/ new.step = "folder"
      BY <1>2, <2>6, <3>1 DEF AsksOpp, TaskRows
    <3> QED BY <1>7, <2>2, <2>6, <3>2 DEF Tidy, Read, Seeking
  <2>7. CASE key = Folder(k.folder) /\ AsksFolder(w, k, v, new)
    <3>1. k.step = "folder" /\ new.folder = k.folder /\ new.step \in {"bodies", "seek"}
      BY <1>2, <2>7 DEF AsksFolder, TaskRows, Read
    <3>2. True(Opp)
      BY <1>2, <1>8, <3>1 DEF Tidy
    <3> QED BY <1>7, <2>2, <2>4, <2>7, <3>1, <3>2 DEF Tidy
  <2>8. CASE (\E f \in k.left : AsksBody(w, k, f, v, new)) \/ (\E f \in k.list : AsksTarget(k, f, v, new))
    <3>1. k.step \in {"bodies", "seek"} /\ new.folder = k.folder /\ new.step \in {"bodies", "seek", "write"}
      BY <1>2, <2>8 DEF AsksBody, AsksTarget, TaskRows, Read
    <3>2. True(Opp) /\ (k.folder # 0 => True(Folder(k.folder)))
      BY <1>2, <1>8, <3>1 DEF Tidy, Seeking
    <3> QED BY <1>7, <2>4, <3>1, <3>2 DEF Tidy
  <2> QED BY <1>1, <1>2, <2>6, <2>7, <2>8 DEF Reads
<1>9. new.step # "idle"
  BY <1>2, <1>1 DEF Reads, AsksOpp, AsksFolder, AsksBody, AsksTarget, TaskRows, Read
<1> QED BY <1>1, <1>3, <1>4, <1>6, <1>8, <1>9, WriterCaches

\* While nobody else reads, no page has anything fetched.
LEMMA NobodyReads ==
  ASSUME StoreInv, NEW w \in Writers, Busy = {w}, NEW r \in Readers
  PROVE  task[r].got = NoEntry /\ task[r].step \in {"idle", "reply"}
<1>1. task[r].step \in {"idle", "reply"}
  BY ReadersAre DEF Busy
<1> QED BY <1>1, NothingGot, ReadersAre

LEMMA WriterSteps2 ==
  ASSUME StoreInv, StoreInv', LedgerInv, CachesInv, NEW w \in Writers,
         NewRecord(w) \/ DropOpp(w) \/ DropWritten(w)
  PROVE  CachesInv'
<1>1. PICK k : k = task[w] /\ k \in TaskRows /\ WriterOK(k) /\ TaskOK(k)
  BY TasksSound, WritersAre DEF Sound
<1>2. PICK step : /\ Goes(w, [k EXCEPT !.step = step])
                  /\ \/ NewRecord(w) /\ step \in {"mkdir", "write"} /\ k.step = "seek" /\ UNCHANGED <<cache, crossed>>
                     \/ /\ DropOpp(w) /\ step = "write" /\ k.step = "made" /\ cache' = [cache EXCEPT ![Opp] = NoEntry]
                        /\ Crosses(w)
                     \/ /\ DropWritten(w) /\ step = "clear" /\ k.step \in {"updated", "uploaded"}
                        /\ cache' = [cache EXCEPT ![OutdatedBy(w)] = NoEntry] /\ Crosses(w)
  BY <1>1 DEF NewRecord, DropOpp, DropWritten, Drop, Walking, TaskAt
<1>3. PICK new : new = [k EXCEPT !.step = step] /\ Goes(w, new)
  BY <1>2
<1>4. new.step = step /\ new.comment = k.comment /\ new.folder = k.folder
  BY <1>1, <1>3 DEF TaskRows
<1>5. UNCHANGED <<folders, files, comments, payload>> /\ Working(w)
  BY DEF NewRecord, DropOpp, DropWritten, Drop, Walking, TaskAt, Working
<1>6. \A key \in Keys : cache'[key] = cache[key] \/ cache'[key] = NoEntry
  BY <1>2 DEF StoreInv, PagesTyped
<1>7. crossed => crossed'
  BY <1>2 DEF Crosses
<1>8. ~crossed' => (\A r \in Readers : task[r].got = NoEntry) \/ (\A key : ~Outdating(w, key))
  BY <1>1, <1>2, NobodyReads DEF Crosses, Outdating, TaskAt
<1>9. task'[w] = new
  BY <1>3, WritersAre DEF Goes, StoreInv, PagesTyped
<1>10. ASSUME Tidy(w) PROVE Tidy(w)'
  <2>1. \A key : True(key) => True(key)'
    BY <1>5, <1>6 DEF True, Truth
  <2>2. ASSUME NEW key, cache' = [cache EXCEPT ![key] = NoEntry] PROVE True(key)'
    BY <2>2 DEF True, StoreInv, PagesTyped
  <2>3. CASE NewRecord(w) /\ step \in {"mkdir", "write"} /\ k.step = "seek"
    BY <1>1, <1>4, <1>9, <1>10, <2>1, <2>3 DEF Tidy, Seeking
  <2>4. CASE DropOpp(w) /\ step = "write" /\ k.step = "made" /\ cache' = [cache EXCEPT ![Opp] = NoEntry]
    BY <1>1, <1>4, <1>9, <1>10, <2>1, <2>2, <2>4 DEF Tidy, Seeking
  <2>5. CASE DropWritten(w) /\ step = "clear" /\ k.step = "updated"
             /\ cache' = [cache EXCEPT ![OutdatedBy(w)] = NoEntry]
    <3>1. PICK b : b = Body(comments[k.comment].file) /\ b = OutdatedBy(w)
      BY <1>1, <2>5 DEF OutdatedBy, TaskAt, WriterOK
    <3>a. True(b)'
      BY <2>2, <2>5, <3>1
    <3>2. True(Body(comments[k.comment].file))'
      BY <1>5, <3>1, <3>a
    <3>3. True(Opp)' /\ (k.folder # 0 => True(Folder(k.folder))')
      BY <1>1, <1>10, <2>1, <2>5 DEF Tidy
    <3> QED BY <1>4, <1>5, <1>9, <2>5, <3>2, <3>3 DEF Tidy, Seeking
  <2>6. CASE DropWritten(w) /\ step = "clear" /\ k.step = "uploaded"
             /\ cache' = [cache EXCEPT ![OutdatedBy(w)] = NoEntry]
    <3>1. OutdatedBy(w) = Folder(k.folder)
      BY <1>1, <2>6 DEF OutdatedBy, TaskAt
    <3>2. True(Folder(k.folder))'
      BY <2>2, <2>6, <3>1
    <3>a. PICK b : b = Body(comments[k.comment].file) /\ True(b)
      BY <1>1, <1>10, <2>6 DEF Tidy
    <3>b. True(b)'
      BY <2>1, <3>a
    <3>c. True(Body(comments[k.comment].file))'
      BY <1>5, <3>a, <3>b
    <3>3. True(Opp)' /\ True(Body(comments[k.comment].file))'
      BY <1>1, <1>10, <2>1, <2>6, <3>c DEF Tidy
    <3> QED BY <1>4, <1>5, <1>9, <2>6, <3>2, <3>3 DEF Tidy, Seeking
  <2> QED BY <1>2, <2>3, <2>4, <2>5, <2>6
<1>11. new.step # "idle"
  BY <1>2, <1>4
<1> QED BY <1>1, <1>3, <1>4, <1>5, <1>6, <1>7, <1>8, <1>10, <1>11, WriterCaches
-----------------------------------------------------------------------------
\* What has been read stays current when a writer moves on without leaving
\* anything outdated behind, or outdates what it changes.
LEMMA CurrentKept ==
  ASSUME StoreInv, NEW w \in Writers, NEW new, Goes(w, new), \A key : ~Outdating(w, key),
         NEW r \in Readers, Current(task[r].got),
         \A key : Asks(task[r], key) => Truth(key)' = Truth(key) \/ Outdating(w, key)'
  PROVE  Current(task[r].got)'
<1>1. \A u \in Tasks : u # w => task'[u] = task[u]
  BY WritersAre DEF Goes, StoreInv, PagesTyped
<1>2. task'[r] = task[r]
  BY <1>1, ReadersAre
<1>3. \A u \in Writers : u # w => \A key : Outdating(u, key)' <=> Outdating(u, key)
  BY <1>1, WritersAre DEF Outdating, OutdatedBy, TaskAt
<1>4. CASE task[r].got = NoEntry
  BY <1>2, <1>4 DEF Current
<1>5. CASE task[r].got # NoEntry
  <2>1. PICK key, v : key = task[r].got[1] /\ v = task[r].got[2] /\ Asks(task[r], key)
    BY <1>5, ReadersAre DEF StoreInv, TaskOK
  <2>2. v = Truth(key) \/ \E u \in Writers : Outdating(u, key)
    BY <1>5, <2>1 DEF Current
  <2>3. v = Truth(key)' \/ \E u \in Writers : Outdating(u, key)'
    BY <1>3, <2>1, <2>2
  <2>4. task'[r].got[1] = key /\ task'[r].got[2] = v
    BY <1>2, <2>1
  <2> QED BY <2>3, <2>4 DEF Current
<1> QED BY <1>4, <1>5

\* A comment that is visible stays so while Drive grows, unless a read hides it.
LEMMA VisibleKept ==
  ASSUME StoreInv, LedgerInv, Grown, NEW w \in Writers, NEW new, Goes(w, new), UNCHANGED cache,
         \A run \in Runs : payload'[run] = payload[run] \/ payload'[run] = NoEntry,
         NEW c \in Alone, Visible(c)
  PROVE  Visible(c)'
<1>1. c \in DOMAIN comments /\ comments[c].file # 0 /\ comments[c].file \in DOMAIN files /\ comments[c].run \in Runs
  BY AloneIs
<1>2. comments'[c].run = comments[c].run /\ comments'[c].file = comments[c].file /\ comments'[c].id = comments[c].id
      /\ files'[comments[c].file].folder = files[comments[c].file].folder
  BY <1>1 DEF Grown
<1>3. \A key, v : Good(c, key, v)' <=> Good(c, key, v)
  BY <1>2 DEF Good, HasItem
<1>4. \A k : Finds(k, c)' <=> Finds(k, c)
  BY <1>2 DEF Finds
<1>5. \A r \in Readers : task'[r] = task[r]
  BY ReadersAre, WritersAre DEF Goes, StoreInv, PagesTyped
<1>6. \A key \in Keys : cache'[key] # NoEntry => Good(c, key, cache'[key][1])
  BY DEF Visible
<1>7. \A q \in Readers : /\ task'[q].got # NoEntry => Good(c, task'[q].got[1], task'[q].got[2])
                         /\ Finds(task'[q], c)
  BY <1>5 DEF Visible
<1>8. payload'[comments[c].run] # NoEntry =>
              payload'[comments[c].run][1].short \/ c \in payload'[comments[c].run][1].shows
  BY <1>1 DEF Visible
<1> QED BY <1>2, <1>3, <1>4, <1>6, <1>7, <1>8 DEF Visible

\* While one comment alone is being submitted, or none is, the others are not Lone.
LEMMA OthersNotLone ==
  ASSUME StoreInv, StoreInv', LedgerInv, LedgerInv', NEW w \in Writers, NEW new, Goes(w, new),
         Working(w) \/ Working(w)', \A c \in DOMAIN comments : comments[c].overlapped => comments'[c].overlapped,
         NEW v \in Writers, v # w
  PROVE  ~Lone(v)'
<1>1. CASE Working(w)'
  BY <1>1 DEF LedgerInv
<1>2. CASE Working(w)
  <2>1. task'[v] = task[v]
    BY WritersAre DEF Goes, StoreInv, PagesTyped
  <2>2. SUFFICES ASSUME Lone(v)' PROVE FALSE
    OBVIOUS
  <2>3. Working(v) /\ ~comments'[task[v].comment].overlapped
    BY <2>1, <2>2 DEF Lone, Working
  <2>4. Lone(v)
    BY <2>3, OwnComment DEF Lone
  <2> QED BY <1>2, <2>4 DEF LedgerInv
<1> QED BY <1>1, <1>2

LEMMA RejectCaches ==
  ASSUME StoreInv, StoreInv', LedgerInv, LedgerInv', CachesInv, NEW w \in Writers, Reject(w) PROVE CachesInv'
<1>1. CommentEnds(w, "rejected") /\ Goes(w, NoTask) /\ UNCHANGED <<folders, files, cache, payload, crossed>>
  BY DEF Reject
<1>2. task[w].step \in {"seek", "write"} /\ Working(w)
  BY DEF Reject, Full, TaskAt, Working
<1>3. PICK c : c = task[w].comment /\ c \in DOMAIN comments /\ comments[c].state = "open"
               /\ comments[c] \in CommentRows
  BY <1>2, OwnComment, Numbers DEF StoreInv
<1>4. PICK e : e = [comments[c] EXCEPT !.state = "rejected"] /\ comments' = [comments EXCEPT ![c] = e]
  BY <1>1, <1>3 DEF CommentEnds
<1>5. e.run = comments[c].run /\ e.by = comments[c].by /\ e.file = comments[c].file /\ e.id = comments[c].id
      /\ e.overlapped = comments[c].overlapped /\ e.state = "rejected"
  BY <1>3, <1>4 DEF CommentRows
<1>6. DOMAIN comments' = DOMAIN comments /\ comments'[c] = e
      /\ \A d \in DOMAIN comments : d # c => comments'[d] = comments[d]
  BY <1>3, <1>4 DEF StoreInv, PagesTyped
<1>a. \A d \in DOMAIN comments :
          /\ comments'[d].run = comments[d].run /\ comments'[d].by = comments[d].by
          /\ comments'[d].file = comments[d].file /\ comments'[d].id = comments[d].id
          /\ comments'[d].overlapped = comments[d].overlapped
  BY <1>5, <1>6
<1>7. Grown
  BY <1>1, <1>6, <1>a DEF Grown, StoreInv, PagesTyped
<1>8. \A d \in Alone' : d \in Alone
  BY <1>5, <1>6 DEF Alone
<1>9. \A key : ~Outdating(w, key)
  BY <1>2 DEF Outdating, TaskAt
<1>10. \A key : Truth(key)' = Truth(key)
  BY <1>1 DEF Truth
<1>11. ~Lone(w)'
  BY <1>1, NoTaskIs, WritersAre DEF Lone, Working, Goes, StoreInv, PagesTyped
<1>12. \A v \in Writers : v # w => ~Lone(v)'
  BY <1>1, <1>2, <1>a, OthersNotLone
<1>13. ASSUME ~crossed', NEW r \in Readers PROVE Current(task[r].got)'
  <2>1. Current(task[r].got)
    BY <1>1, <1>13 DEF CachesInv
  <2> QED BY <1>1, <1>9, <1>10, <2>1, CurrentKept
<1>14. ASSUME ~crossed', folders' <= 1, NEW d \in Alone' PROVE Visible(d)'
  <2>1. d \in Alone /\ Visible(d)
    BY <1>1, <1>8, <1>14 DEF CachesInv
  <2> QED BY <1>1, <1>7, <2>1, VisibleKept
<1> QED BY <1>11, <1>12, <1>13, <1>14 DEF CachesInv

LEMMA FailCaches == ASSUME NEW w, Fail(w) PROVE CachesInv'
BY DEF Fail, CachesInv
-----------------------------------------------------------------------------
\* The comment that is acknowledged is not hidden by anything that has been kept.
LEMMA ClearCaches ==
  ASSUME StoreInv, StoreInv', LedgerInv, LedgerInv', CachesInv, NEW w \in Writers, ClearPayload(w)
  PROVE  CachesInv'
<1>1. CommentEnds(w, "acked") /\ Goes(w, NoTask) /\ UNCHANGED <<folders, files, cache>> /\ Crosses(w)
      /\ payload' = [payload EXCEPT ![task[w].run] = NoEntry]
  BY DEF ClearPayload
<1>2. task[w].step = "clear" /\ Working(w)
  BY DEF ClearPayload, TaskAt, Working
<1>3. PICK c : c = task[w].comment /\ c \in DOMAIN comments /\ comments[c].state = "open"
               /\ comments[c] \in CommentRows /\ comments[c].run = task[w].run /\ comments[c].run \in Runs
  BY <1>2, OwnComment, Numbers DEF StoreInv
<1>4. PICK e : e = [comments[c] EXCEPT !.state = "acked"] /\ comments' = [comments EXCEPT ![c] = e]
  BY <1>1, <1>3 DEF CommentEnds
<1>5. e.run = comments[c].run /\ e.by = comments[c].by /\ e.file = comments[c].file /\ e.id = comments[c].id
      /\ e.overlapped = comments[c].overlapped /\ e.state = "acked"
  BY <1>3, <1>4 DEF CommentRows
<1>6. DOMAIN comments' = DOMAIN comments /\ comments'[c] = e
      /\ \A d \in DOMAIN comments : d # c => comments'[d] = comments[d]
  BY <1>3, <1>4 DEF StoreInv, PagesTyped
<1>a. \A d \in DOMAIN comments :
          /\ comments'[d].run = comments[d].run /\ comments'[d].by = comments[d].by
          /\ comments'[d].file = comments[d].file /\ comments'[d].id = comments[d].id
          /\ comments'[d].overlapped = comments[d].overlapped
  BY <1>5, <1>6
<1>7. Grown
  BY <1>1, <1>6, <1>a DEF Grown, StoreInv, PagesTyped
<1>8. \A d \in Alone' : d \in Alone \/ (d = c /\ ~comments[c].overlapped)
  BY <1>5, <1>6 DEF Alone
<1>9. \A key : ~Outdating(w, key)
  BY <1>2 DEF Outdating, TaskAt
<1>10. \A key : Truth(key)' = Truth(key)
  BY <1>1 DEF Truth
<1>11. ~Lone(w)'
  BY <1>1, NoTaskIs, WritersAre DEF Lone, Working, Goes, StoreInv, PagesTyped
<1>12. \A v \in Writers : v # w => ~Lone(v)'
  BY <1>1, <1>2, <1>a, OthersNotLone
<1>b. ~crossed' => ~crossed /\ Busy = {w}
  BY <1>1 DEF Crosses
<1>13. ASSUME ~crossed', NEW r \in Readers PROVE Current(task[r].got)'
  <2>1. Current(task[r].got)
    BY <1>13, <1>b DEF CachesInv
  <2> QED BY <1>1, <1>9, <1>10, <2>1, CurrentKept
<1>c. \A run \in Runs : payload'[run] = payload[run] \/ payload'[run] = NoEntry
  BY <1>1 DEF StoreInv, PagesTyped
<1>14. ASSUME ~crossed', folders' <= 1, NEW d \in Alone PROVE Visible(d)'
  <2>1. Visible(d)
    BY <1>1, <1>b, <1>14 DEF CachesInv
  <2> QED BY <1>1, <1>7, <1>c, <2>1, VisibleKept
<1>15. ASSUME ~crossed', folders' <= 1, ~comments[c].overlapped PROVE Visible(c)'
  <2>1. PICK f : f = comments[c].file /\ f \in DOMAIN files /\ f \in Nat /\ f # 0
                 /\ files[f].folder \in 1..folders /\ files[f].folder = task[w].folder
    <3>1. WriterOK(task[w])
      BY DEF StoreInv
    <3>2. comments[c].file # 0 /\ files[comments[c].file].folder = task[w].folder
      BY <1>2, <1>3, <3>1 DEF WriterOK, WrittenSteps
    <3>3. comments[c].file \in DOMAIN files
      BY <1>3, <3>2 DEF StoreInv, CommentOK
    <3> QED BY <3>2, <3>3, Numbers DEF StoreInv, FileOK
  <2>2. PICK d : d = files[f].folder /\ d \in Nat /\ d # 0 /\ folders # 0 /\ d = task[w].folder
    BY <2>1 DEF StoreInv, PagesTyped
  <2>3. HasItem(files[f].items, c)
    <3>1. c \in Solid
      BY <1>3, <1>15, <2>1 DEF Solid
    <3> QED BY <2>1, <3>1 DEF LedgerInv
  <2>4. Lone(w) /\ Tidy(w)
    <3>1. Lone(w)
      BY <1>2, <1>3, <1>15 DEF Lone
    <3> QED BY <1>1, <1>b, <1>15, <3>1 DEF CachesInv
  <2>5. True(Opp) /\ True(Folder(d)) /\ True(Body(f))
    <3>1. True(Opp) /\ True(Folder(task[w].folder)) /\ True(Body(comments[c].file))
      BY <1>2, <1>3, <2>2, <2>4 DEF Tidy
    <3> QED BY <2>1, <2>2, <3>1
  <2>6. Truth(Opp) = folders /\ Truth(Folder(d)) = In(d) /\ Truth(Body(f)) = files[f]
    BY <2>1, <2>2, TruthIs
  <2>7. f \in In(d)
    BY <2>1, <2>2 DEF In
  <2>8. ASSUME NEW key \in Keys, cache[key] # NoEntry PROVE Good(c, key, cache[key][1])
    <3>1. key = Opp => cache[key][1] # 0
      BY <2>2, <2>5, <2>6, <2>8 DEF True
    <3>2. key = Folder(d) => f \in cache[key][1]
      BY <2>5, <2>6, <2>7, <2>8 DEF True
    <3>3. key = Body(f) => HasItem(cache[key][1].items, c)
      BY <2>3, <2>5, <2>6, <2>8 DEF True
    <3> QED BY <2>1, <2>2, <3>1, <3>2, <3>3 DEF Good
  <2>9. ASSUME NEW r \in Readers PROVE task[r].got = NoEntry /\ Finds(task[r], c)
    <3>1. task[r].got = NoEntry /\ task[r].step \in {"idle", "reply"}
      BY <1>b, <1>15, NobodyReads
    <3>2. c \notin task[r].owed
      BY <1>3 DEF StoreInv, ReaderOK
    <3> QED BY <3>1, <3>2 DEF Finds
  <2>10. \A key, v : Good(c, key, v)' <=> Good(c, key, v)
    BY <1>1, <1>3, <1>a DEF Good, HasItem
  <2>11. \A k : Finds(k, c)' <=> Finds(k, c)
    BY <1>3, <1>a DEF Finds
  <2>12. \A r \in Readers : task'[r] = task[r]
    BY <1>1, ReadersAre, WritersAre DEF Goes, StoreInv, PagesTyped
  <2>13. \A key \in Keys : cache'[key] # NoEntry => Good(c, key, cache'[key][1])
    BY <1>1, <2>8
  <2>14. \A q \in Readers : task'[q].got = NoEntry /\ Finds(task'[q], c)
    BY <2>9, <2>12
  <2>15. payload'[comments'[c].run] = NoEntry
    BY <1>1, <1>3, <1>a DEF StoreInv, PagesTyped
  <2> QED BY <2>10, <2>11, <2>13, <2>14, <2>15 DEF Visible
<1> QED BY <1>8, <1>11, <1>12, <1>13, <1>14, <1>15 DEF CachesInv

LEMMA ExpireCaches ==
  ASSUME StoreInv, StoreInv', LedgerInv, CachesInv, Expire PROVE CachesInv'
<1> SUFFICES ASSUME ~crossed'
             PROVE  /\ \A q \in Readers : Current(task[q].got)'
                    /\ folders' <= 1 => /\ \A v \in Writers : Lone(v)' => Tidy(v)'
                                        /\ \A c \in Alone' : Visible(c)'
  BY DEF CachesInv
<1>1. UNCHANGED <<folders, files, comments, task>>
  BY DEF Expire
<1>2. /\ \A key : Truth(key)' = Truth(key)
      /\ \A u \in Writers : \A key : Outdating(u, key)' <=> Outdating(u, key)
      /\ \A v \in Writers : Lone(v)' <=> Lone(v)
      /\ \A c : \A key, v : Good(c, key, v)' <=> Good(c, key, v)
      /\ \A c, k : Finds(k, c)' <=> Finds(k, c)
      /\ Alone' = Alone
  BY <1>1 DEF Truth, Outdating, OutdatedBy, TaskAt, Lone, Working, Good, HasItem, Finds, Alone
<1>3. CASE crossed
  <2>1. Quiet /\ cache' = Cold /\ payload' = Unread
    BY <1>3 DEF Expire
  <2>2. \A r \in Readers : task[r].step = "idle" /\ task[r].got = NoEntry
    BY <2>1, NothingGot, ReadersAre DEF Quiet, TaskAt
  <2>3. \A q \in Readers : Current(task[q].got)'
    BY <1>1, <2>2 DEF Current
  <2>4. \A key \in Keys : cache'[key] = NoEntry
    BY <2>1 DEF Cold
  <2>5. ASSUME NEW v \in Writers PROVE Tidy(v)'
    <3>1. \A key : True(key)'
      BY <2>4 DEF True
    <3>2. PICK b : b = Body(comments'[task'[v].comment].file)
      OBVIOUS
    <3>3. True(b)'
      BY <3>1
    <3> QED BY <1>1, <3>1, <3>2, <3>3 DEF Tidy
  <2>6. ASSUME NEW c \in Alone PROVE Visible(c)'
    <3>1. \A r \in Readers : task'[r].got = NoEntry /\ Finds(task'[r], c)
      BY <1>1, <2>2 DEF Finds
    <3>2. payload'[comments'[c].run] = NoEntry
      BY <1>1, <2>1, <2>6, AloneIs DEF Unread
    <3> QED BY <1>2, <2>4, <3>1, <3>2 DEF Visible
  <2> QED BY <1>2, <2>3, <2>5, <2>6
<1>4. CASE ~crossed
  <2>1. (\A key \in Keys : cache'[key] = cache[key] \/ cache'[key] = NoEntry)
        /\ (\A run \in Runs : payload'[run] = payload[run] \/ payload'[run] = NoEntry)
    BY DEF Expire, StoreInv, PagesTyped
  <2>2. ASSUME NEW q \in Readers PROVE Current(task[q].got)'
    <3>1. Current(task[q].got)
      BY <1>4 DEF CachesInv
    <3> QED BY <1>1, <1>2, <3>1 DEF Current
  <2>3. ASSUME folders <= 1, NEW v \in Writers, Lone(v) PROVE Tidy(v)'
    <3>1. Tidy(v)
      BY <1>4, <2>3 DEF CachesInv
    <3>2. \A key : True(key) => True(key)'
      BY <1>2, <2>1 DEF True
    <3>3. PICK b : b = Body(comments[task[v].comment].file)
      OBVIOUS
    <3>4. task[v].step \in {"uploaded", "clear"} => True(b)'
      BY <3>1, <3>2, <3>3 DEF Tidy
    <3>5. task[v].step \in {"uploaded", "clear"} => True(Body(comments[task[v].comment].file))'
      BY <1>1, <3>3, <3>4
    <3> QED BY <1>1, <3>1, <3>2, <3>5 DEF Tidy
  <2>4. ASSUME folders <= 1, NEW c \in Alone PROVE Visible(c)'
    <3>1. Visible(c) /\ comments[c].run \in Runs
      BY <1>4, <2>4, AloneIs DEF CachesInv
    <3>2. \A key \in Keys : cache'[key] # NoEntry => Good(c, key, cache'[key][1])
      BY <2>1, <3>1 DEF Visible
    <3>3. \A q \in Readers : /\ task'[q].got # NoEntry => Good(c, task'[q].got[1], task'[q].got[2])
                             /\ Finds(task'[q], c)
      BY <1>1, <3>1 DEF Visible
    <3>4. payload'[comments[c].run] # NoEntry =>
              payload'[comments[c].run][1].short \/ c \in payload'[comments[c].run][1].shows
      BY <2>1, <3>1 DEF Visible
    <3> QED BY <1>1, <1>2, <3>2, <3>3, <3>4 DEF Visible
  <2> QED BY <1>1, <1>2, <2>2, <2>3, <2>4
<1> QED BY <1>3, <1>4
-----------------------------------------------------------------------------
LEMMA SubmitCaches ==
  ASSUME StoreInv, StoreInv', LedgerInv, LedgerInv', CachesInv, NEW w \in Writers,
         NEW by \in Reviewers, NEW run \in Runs, NEW decision \in Decisions, Submit(w, by, run, decision)
  PROVE  CachesInv'
<1>0. PICK c, others, new : Submitted(w, by, run, decision, c, others, new)
  BY SubmitIs
<1>1. /\ c \in Nat \ {0} /\ c \notin DOMAIN comments /\ DOMAIN comments' = DOMAIN comments \cup {c}
      /\ comments'[c] = [run |-> run, by |-> by, decision |-> decision, state |-> "open",
                         file |-> 0, id |-> <<>>, overlapped |-> others # {}]
      /\ Goes(w, new)
      /\ new = [NoTask EXCEPT !.step = "opp", !.comment = c, !.run = run, !.force = TRUE]
  BY <1>0 DEF Submitted
<1>2. new.got = NoEntry /\ new.step = "opp" /\ new.comment = c /\ new.folder = 0
  BY <1>1 DEF NoTask
<1>3. comments'[c].state = "open"
  BY <1>1
<1>4. UNCHANGED <<folders, files, cache, payload, crossed>> /\ task[w].step = "idle"
  BY DEF Submit, TaskAt
<1>5. ASSUME NEW d \in DOMAIN comments
      PROVE  /\ comments'[d].run = comments[d].run /\ comments'[d].by = comments[d].by
             /\ comments'[d].file = comments[d].file /\ comments'[d].id = comments[d].id
             /\ comments'[d].state = comments[d].state
             /\ comments[d].overlapped \/ d \in others => comments'[d].overlapped
  <2>1. PICK old, row : old = comments[d] /\ row = comments'[d] /\ old \in CommentRows
    BY Numbers DEF StoreInv
  <2>2. row = IF d \in others THEN [old EXCEPT !.overlapped = TRUE] ELSE old
    BY <1>0, <2>1 DEF Submitted
  <2>3. row.run = old.run /\ row.by = old.by /\ row.file = old.file /\ row.id = old.id /\ row.state = old.state
        /\ (old.overlapped \/ d \in others => row.overlapped)
    BY <2>1, <2>2 DEF CommentRows
  <2> QED BY <2>1, <2>3
<1>6. Grown
  BY <1>1, <1>4, <1>5 DEF Grown, StoreInv, PagesTyped
<1>7. \A d \in Alone' : d \in Alone
  BY <1>1, <1>3, <1>5 DEF Alone
<1>8. task'[w] = new
  BY <1>1, WritersAre DEF Goes, StoreInv, PagesTyped
<1>9. Working(w)' /\ Tidy(w)'
  BY <1>2, <1>8 DEF Working, Tidy, Seeking
<1>10. \A v \in Writers : v # w => ~Lone(v)'
  BY <1>1, <1>5, <1>9, OthersNotLone
<1>11. \A key : Truth(key)' = Truth(key)
  BY <1>4 DEF Truth
<1>12. \A key : ~Outdating(w, key)
  BY <1>4 DEF Outdating, TaskAt
<1>13. ASSUME ~crossed', NEW r \in Readers PROVE Current(task[r].got)'
  <2>1. Current(task[r].got)
    BY <1>4, <1>13 DEF CachesInv
  <2> QED BY <1>1, <1>11, <1>12, <2>1, CurrentKept
<1>14. ASSUME ~crossed', folders' <= 1, NEW d \in Alone' PROVE Visible(d)'
  <2>1. d \in Alone /\ Visible(d)
    BY <1>4, <1>7, <1>14 DEF CachesInv
  <2> QED BY <1>1, <1>4, <1>6, <2>1, VisibleKept
<1> QED BY <1>9, <1>10, <1>13, <1>14 DEF CachesInv

\* The first folder comes when nothing is known of folders.
LEMMA FolderCaches ==
  ASSUME StoreInv, StoreInv', LedgerInv, LedgerInv', CachesInv, NEW w \in Writers, CreateFolder(w)
  PROVE  CachesInv'
<1>1. PICK k : k = task[w] /\ Sound(w, k) /\ WriterOK(k) /\ k \in TaskRows
  BY TasksSound, WritersAre DEF Sound
<1>2. k.step = "mkdir"
  BY <1>1 DEF CreateFolder, TaskAt
<1>3. PICK new : new = [k EXCEPT !.step = "made", !.folder = folders + 1] /\ Goes(w, new)
  BY <1>1 DEF CreateFolder
<1>4. new.step = "made" /\ new.folder = folders + 1
  BY <1>1, <1>3 DEF TaskRows
<1>5. UNCHANGED <<files, cache, payload, comments, crossed>> /\ folders' = folders + 1 /\ folders \in Nat
  BY DEF CreateFolder, StoreInv, PagesTyped
<1>6. Grown
  BY <1>5 DEF Grown
<1>7. task'[w] = new
  BY <1>3, WritersAre DEF Goes, StoreInv, PagesTyped
<1>8. Working(w)
  BY <1>1, <1>2 DEF Working
<1>9. \A v \in Writers : v # w => ~Lone(v)'
  BY <1>3, <1>5, <1>8, OthersNotLone
<1>10. \A key : ~Outdating(w, key)
  BY <1>1, <1>2 DEF Outdating, TaskAt
<1>11. ASSUME NEW r \in Readers, NEW key, Asks(task[r], key)
       PROVE  Truth(key)' = Truth(key) \/ Outdating(w, key)'
  <2>1. CASE key = Opp
    BY <1>4, <1>7, <2>1 DEF Outdating, TaskAt
  <2>2. CASE key # Opp
    <3>1. PICK m \in Nat : key = Folder(m) \/ key = Body(m)
      BY <1>11, <2>2, AskedKinds, ReadersAre
    <3>2. CASE key = Folder(m)
      <4>1. Truth(Folder(m)) = In(m) /\ Truth(Folder(m))' = In(m)'
        BY KeyKinds DEF Truth, In
      <4> QED BY <1>5, <3>2, <4>1 DEF In
    <3>3. CASE key = Body(m)
      <4>1. Truth(Body(m)) = files[m] /\ Truth(Body(m))' = files'[m]
        BY KeyKinds DEF Truth
      <4> QED BY <1>5, <3>3, <4>1
    <3> QED BY <3>1, <3>2, <3>3
  <2> QED BY <2>1, <2>2
<1>12. ASSUME ~crossed', NEW r \in Readers PROVE Current(task[r].got)'
  <2>1. Current(task[r].got)
    BY <1>5, <1>12 DEF CachesInv
  <2> QED BY <1>3, <1>10, <1>11, <2>1, CurrentKept
<1>13. ASSUME folders' <= 1 PROVE Alone' = {} /\ Tidy(w)'
  <2>1. folders = 0
    BY <1>5, <1>13
  <2>2. Alone' = {}
    <3>1. Alone = {}
      BY <2>1, AloneIs
    <3> QED BY <1>5, <3>1 DEF Alone
  <2>3. Folder(1) \in Keys => cache[Folder(1)] = NoEntry
    <3>1. ASSUME Folder(1) \in Keys, cache[Folder(1)] # NoEntry PROVE FALSE
      <4>1. Fits(Folder(1), cache[Folder(1)][1])
        BY <3>1 DEF StoreInv
      <4> QED BY <2>1, <4>1 DEF Fits
    <3> QED BY <3>1
  <2>4. True(Folder(1))'
    BY <1>5, <2>3 DEF True
  <2>5. new.folder = 1
    BY <1>4, <2>1
  <2> QED BY <1>4, <1>7, <2>2, <2>4, <2>5 DEF Tidy
<1> QED BY <1>9, <1>12, <1>13 DEF CachesInv
-----------------------------------------------------------------------------
\* What is kept of a record or a folder's listing is outdated by the writer that
\* changes it, until the writer drops it.
LEMMA WriteCaches ==
  ASSUME StoreInv, StoreInv', LedgerInv, LedgerInv', CachesInv, NEW w \in Writers, Write(w) PROVE CachesInv'
<1>0. PICK k, c, f, item, e, g, new : Appended(w, k, c, f, item, e, g, new)
  BY WriteIs
<1>1. /\ k = task[w] /\ k.step = "write" /\ c = k.comment /\ c \in DOMAIN comments /\ Sound(w, k)
      /\ k \in TaskRows /\ k.got = NoEntry /\ WriterOK(k)
  BY <1>0 DEF Appended, Sound
<1>2. comments[c] \in CommentRows /\ comments[c].state = "open" /\ comments[c].file = 0
  BY <1>1, Numbers DEF WriterOK, StoreInv, WrittenSteps
<1>3. /\ e.run = comments[c].run /\ e.by = comments[c].by /\ e.state = "open" /\ e.file = f /\ e.id = item.id
      /\ e.overlapped = comments[c].overlapped /\ f \in Nat \ {0}
  BY <1>0, <1>2 DEF Appended, CommentRows
<1>4. /\ DOMAIN comments' = DOMAIN comments /\ comments'[c] = e
      /\ \A d \in DOMAIN comments : d # c => comments'[d] = comments[d]
  BY <1>0 DEF Appended
<1>5. /\ DOMAIN files' = DOMAIN files \cup {f} /\ files'[f] = g
      /\ \A h \in DOMAIN files : h # f => files'[h] = files[h]
      /\ f \in DOMAIN files => g.folder = files[f].folder /\ g.slug = files[f].slug /\ g.run = files[f].run
  BY <1>0 DEF Appended
<1>6. UNCHANGED <<folders, cache, payload, crossed>>
  BY DEF Write
<1>7. /\ k.target # 0 => f = k.target /\ f \in DOMAIN files
      /\ k.target = 0 => f \notin DOMAIN files /\ g.folder = k.folder
  BY <1>0 DEF Appended
<1>8. /\ Goes(w, new) /\ new.comment = c /\ new.target = k.target /\ new.folder = k.folder
      /\ k.target # 0 => new.step = "updated"
      /\ k.target = 0 => new.step = "uploaded"
  BY <1>0, <1>1 DEF Appended, TaskRows
<1>9. task'[w] = new
  BY <1>8, WritersAre DEF Goes, StoreInv, PagesTyped
<1>10. Working(w)
  BY <1>1 DEF Working
<1>11. Grown
  <2>1. \A h \in DOMAIN files :
          files'[h].folder = files[h].folder /\ files'[h].slug = files[h].slug /\ files'[h].run = files[h].run
    BY <1>5
  <2>2. \A d \in DOMAIN comments :
          /\ comments'[d].run = comments[d].run /\ comments'[d].by = comments[d].by
          /\ comments[d].file # 0 => comments'[d].file = comments[d].file /\ comments'[d].id = comments[d].id
    BY <1>2, <1>3, <1>4
  <2> QED BY <1>4, <1>5, <1>6, <2>1, <2>2 DEF Grown, StoreInv, PagesTyped
<1>12. \A d \in DOMAIN comments : comments'[d].overlapped = comments[d].overlapped
  BY <1>3, <1>4
<1>13. \A v \in Writers : v # w => ~Lone(v)'
  BY <1>8, <1>10, <1>12, OthersNotLone
<1>14. \A d \in Alone' : d \in Alone
  BY <1>3, <1>4 DEF Alone
<1>15. \A key : ~Outdating(w, key)
  BY <1>1 DEF Outdating, TaskAt
<1>16. \A key : key = (IF k.target # 0 THEN Body(f) ELSE Folder(k.folder)) => Outdating(w, key)'
  BY <1>7, <1>8, <1>9 DEF Outdating, OutdatedBy, TaskAt
<1>17. /\ Truth(Opp)' = Truth(Opp)
       /\ \A m \in Nat : Truth(Folder(m)) = In(m) /\ Truth(Folder(m))' = In(m)'
       /\ \A m \in Nat : Truth(Body(m)) = files[m] /\ Truth(Body(m))' = files'[m]
  <2>1. Truth(Opp)' = Truth(Opp)
    <3>1. Opp[1] = "opp"
      BY DEF Opp
    <3> QED BY <1>6, <3>1 DEF Truth
  <2>2. \A m \in Nat : Truth(Folder(m)) = In(m) /\ Truth(Folder(m))' = In(m)'
    BY KeyKinds DEF Truth, In
  <2>3. \A m \in Nat : Truth(Body(m)) = files[m] /\ Truth(Body(m))' = files'[m]
    BY KeyKinds DEF Truth
  <2> QED BY <2>1, <2>2, <2>3
<1>18. \A m : k.target # 0 \/ m # k.folder => In(m)' = In(m)
  BY <1>5, <1>7 DEF In
<1>19. ASSUME NEW r \in Readers, NEW key, Asks(task[r], key)
       PROVE  Truth(key)' = Truth(key) \/ Outdating(w, key)'
  <2>1. CASE key = Opp
    BY <1>17, <2>1
  <2>2. ASSUME NEW m \in Nat, key = Folder(m) PROVE Truth(key)' = Truth(key) \/ Outdating(w, key)'
    BY <1>16, <1>17, <1>18, <2>2
  <2>3. ASSUME NEW m \in Nat, m \in DOMAIN files, key = Body(m)
        PROVE  Truth(key)' = Truth(key) \/ Outdating(w, key)'
    BY <1>5, <1>7, <1>16, <1>17, <2>3
  <2> QED BY <1>19, <2>1, <2>2, <2>3, AskedKinds, ReadersAre
<1>20. ASSUME ~crossed', NEW r \in Readers PROVE Current(task[r].got)'
  <2>1. Current(task[r].got)
    BY <1>6, <1>20 DEF CachesInv
  <2> QED BY <1>8, <1>15, <1>19, <2>1, CurrentKept
<1>21. ASSUME ~crossed', folders' <= 1, Lone(w)' PROVE Tidy(w)'
  <2>1. Lone(w) /\ Tidy(w)
    <3>1. Lone(w)
      BY <1>1, <1>8, <1>9, <1>10, <1>12, <1>21 DEF Lone
    <3> QED BY <1>6, <1>21, <3>1 DEF CachesInv
  <2>2. k.folder # 0 /\ k.folder \in Nat
    BY <1>1 DEF WriterOK, TaskRows
  <2>3. True(Opp) /\ True(Folder(k.folder))
    BY <1>1, <2>1, <2>2 DEF Tidy, Seeking
  <2>4. True(Opp)'
    BY <1>6, <1>17, <2>3 DEF True
  <2>5. CASE k.target # 0
    <3>1. Truth(Folder(k.folder))' = Truth(Folder(k.folder))
      BY <1>17, <1>18, <2>2, <2>5
    <3>2. True(Folder(k.folder))'
      BY <1>6, <2>3, <3>1 DEF True
    <3> QED BY <1>8, <1>9, <2>4, <2>5, <3>2 DEF Tidy
  <2>6. CASE k.target = 0
    <3>1. Body(f) \in Keys => cache[Body(f)] = NoEntry
      <4>1. ASSUME Body(f) \in Keys, cache[Body(f)] # NoEntry PROVE FALSE
        <5>1. Fits(Body(f), cache[Body(f)][1])
          BY <4>1 DEF StoreInv
        <5>2. f \in DOMAIN files
          BY <1>3, <5>1 DEF Fits, Looks
        <5> QED BY <1>7, <2>6, <5>2
      <4> QED BY <4>1
    <3>2. PICK b : b = Body(f)
      OBVIOUS
    <3>3. True(b)'
      BY <1>6, <3>1, <3>2 DEF True
    <3>4. Body(comments'[task'[w].comment].file) = b
      BY <1>3, <1>4, <1>8, <1>9, <3>2
    <3>5. True(Body(comments[task[w].comment].file))'
      BY <3>3, <3>4
    <3> QED BY <1>8, <1>9, <2>4, <2>6, <3>5 DEF Tidy, Seeking
  <2> QED BY <2>5, <2>6
<1>22. ASSUME ~crossed', folders' <= 1, NEW d \in Alone' PROVE Visible(d)'
  <2>1. d \in Alone /\ Visible(d)
    BY <1>6, <1>14, <1>22 DEF CachesInv
  <2> QED BY <1>6, <1>8, <1>11, <2>1, VisibleKept
<1> QED BY <1>13, <1>20, <1>21, <1>22 DEF CachesInv
-----------------------------------------------------------------------------
LEMMA SameCaches ==
  ASSUME CachesInv, UNCHANGED commentVars PROVE CachesInv'
<1>1. UNCHANGED <<folders, files, cache, payload, comments, task, crossed>>
  BY DEF commentVars
<1>2. /\ \A got : Current(got)' <=> Current(got)
      /\ \A w \in Writers : (Lone(w)' <=> Lone(w)) /\ (Tidy(w)' <=> Tidy(w))
      /\ Alone' = Alone
      /\ \A c : Visible(c)' <=> Visible(c)
  BY <1>1 DEF Current, Truth, Outdating, OutdatedBy, TaskAt, Lone, Working, Tidy, True, Alone, Visible, Good,
              HasItem, Finds
<1> QED BY <1>1, <1>2 DEF CachesInv

LEMMA CachesStep ==
  ASSUME StoreInv, StoreInv', LedgerInv, LedgerInv', CachesInv, [CommentsNext]_commentVars PROVE CachesInv'
<1>1. CASE UNCHANGED commentVars
  BY <1>1, SameCaches
<1>2. ASSUME NEW r \in Readers, Loading(r) PROVE CachesInv'
  BY <1>2, ReaderLoads, ReaderSets, ReaderReplies, ReaderStore, ReaderHit, ReaderFetch, ReaderFails
     DEF Loading, Caching
<1>3. ASSUME NEW w \in Writers, Submitting(w) PROVE CachesInv'
  BY <1>3, SubmitCaches, WriterStore, WritersForce, WriterFetch, WriterSteps2, RejectCaches, FolderCaches,
     WriteCaches, ClearCaches, FailCaches DEF Submitting, Caching
<1>4. CASE Expire
  BY <1>4, ExpireCaches
<1> QED BY <1>1, <1>2, <1>3, <1>4 DEF CommentsNext

LEMMA CachesStart == CommentsInit => CachesInv
<1> SUFFICES ASSUME CommentsInit PROVE CachesInv
  OBVIOUS
<1>1. DOMAIN comments = {} /\ \A t \in Tasks : task[t].step = "idle" /\ task[t].got = NoEntry
  BY DEF CommentsInit, NoTask
<1>2. \A r \in Readers : Current(task[r].got)
  BY <1>1, ReadersAre DEF Current
<1>3. \A w \in Writers : ~Lone(w)
  BY <1>1, WritersAre DEF Lone, Working
<1>4. Alone = {}
  BY <1>1 DEF Alone
<1> QED BY <1>2, <1>3, <1>4 DEF CachesInv

\* What the invariant says of the records.
LEMMA RecordsHold == ASSUME StoreInv, LedgerInv, TurnInv PROVE LedgerHolds
<1>1. \A c \in Alone : Kept(c)
  BY AloneIs DEF Kept, HasItem
<1>2. \A c, d \in Alone : c # d /\ comments[c].file = comments[d].file => comments[c].id # comments[d].id
  BY AloneIs DEF LedgerInv
<1>3. ASSUME InTurn, NEW c \in Alone, NEW d \in Alone, c # d PROVE Ref(c) # Ref(d)
  <2>1. SUFFICES ASSUME Ref(c) = Ref(d) PROVE FALSE
    OBVIOUS
  <2>2. files[comments[c].file].slug = files[comments[d].file].slug /\ comments[c].id = comments[d].id
    BY <2>1 DEF Ref
  <2>3. comments[c].file = comments[d].file
    BY <1>3, <2>2, AloneIs DEF TurnInv
  <2> QED BY <1>2, <1>3, <2>2, <2>3
<1>4. \A f \in DOMAIN files : Len(files[f].items) <= MaxPerRecord
  BY DEF StoreInv, FileOK, ItemsOK
<1>5. InTurn => \A run \in Runs : Cardinality(UNION {Shows(run, files[f]) : f \in DOMAIN files}) <= MaxPerRun
  BY DEF TurnInv, AllShows
<1> QED BY <1>1, <1>2, <1>3, <1>4, <1>5 DEF LedgerHolds, InTurn

\* What it says of the pages.
LEMMA PagesHold == ASSUME StoreInv, CachesInv PROVE ShowsComments
<1> SUFFICES ASSUME NEW r \in Readers, TaskAt(r, "reply"), ~task[r].page.short, folders <= 1, ~crossed,
                    NEW c \in task[r].owed \cap Alone
             PROVE  c \in task[r].page.shows
  BY DEF ShowsComments
<1>1. comments[c].run = task[r].run
  BY DEF StoreInv, ReaderOK
<1>2. Finds(task[r], c)
  BY DEF CachesInv, Visible
<1> QED BY <1>1, <1>2 DEF Finds, TaskAt

\* Comments survive whatever pages and submissions are in flight, and a page asked
\* for after one shows it: submit_decision_reaction, _public_write_drive and
\* _invalidate_summary_cache.
THEOREM CommentsAreKept == CommentsSpec => []CommentsHold
<1>1. CommentsInit => PageInv
  BY StoreStart, LedgerStart, TurnStart, CachesStart DEF PageInv
<1>2. PageInv /\ [CommentsNext]_commentVars => PageInv'
  <2>1. ASSUME PageInv, [CommentsNext]_commentVars PROVE PageInv'
    <3>1. StoreInv /\ LedgerInv /\ TurnInv /\ CachesInv
      BY <2>1 DEF PageInv
    <3>2. StoreInv'
      BY <2>1, <3>1, StoreStep
    <3>3. LedgerInv'
      BY <2>1, <3>1, <3>2, LedgerStep
    <3>4. TurnInv' /\ CachesInv'
      BY <2>1, <3>1, <3>2, <3>3, TurnStep, CachesStep
    <3> QED BY <3>2, <3>3, <3>4 DEF PageInv
  <2> QED BY <2>1
<1>3. PageInv => CommentsHold
  BY RecordsHold, PagesHold DEF PageInv, CommentsHold
<1> QED BY <1>1, <1>2, <1>3, PTL DEF CommentsSpec

=============================================================================
