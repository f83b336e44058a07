---------------------------- MODULE LiveProofs ----------------------------
(***************************************************************************)
(* What holds of TurnDriver, of Presence and of CostLedger for any number  *)
(* of turns, connections, pages, workers and faults.                       *)
(*                                                                         *)
(* TurnDriver: its type invariant; that a complete row is final when the   *)
(* follow-up work does not raise, for any number of requests; and that a   *)
(* run is driven by one process only, as long as one request at a time,    *)
(* the sweep, resumes it and a live driver's beats are in time.            *)
(*                                                                         *)
(* Presence: its type invariant; that a fresh field has an owner who       *)
(* agreed to be shown; and that every screen ends up showing who is there, *)
(* unless a call failed, a field lapsed or a client was lost.              *)
(*                                                                         *)
(* CostLedger: that a figure which is saved counts every byte there was,   *)
(* once, if the recompute command reads past the cache.                    *)
(***************************************************************************)
EXTENDS TurnDriver, Presence, CostLedger, FiniteSetTheorems, SequenceTheorems,
        WellFoundedInduction, TLAPS

RowsOK ==
  /\ n \in 0..MaxTurns
  /\ status \in [Turns -> Statuses] /\ detail \in [Turns -> Details]
  /\ \A m \in Turns : status[m] # "none" <=> m <= n
  /\ aged \subseteq 1..n /\ beat \in Beats

DriversOK ==
  /\ drv \in [Turns -> DriverStates]
  /\ \A m \in Turns : drv[m] # "none" => m <= n

\* TypeOK, and a request launches the driver of a turn that exists.
TypeInv ==
  /\ RowsOK /\ DriversOK /\ faults \in 0..MaxFaults
  /\ req \in [Requests -> Handlers]
  /\ \A r \in Requests : req[r].pc = "launch" => req[r].msg \in 1..n

\* The strengthening implies the type invariant the runs check.
LEMMA TypeInvTypes == TypeInv => TypeOK
BY DEF TypeInv, RowsOK, DriversOK, TypeOK

\* A run that does not exist yet is well typed.
LEMMA TypeInit == Init => TypeInv
BY TurnDriverAssumption
   DEF TurnDriverAssumption, Init, TypeInv, RowsOK, DriversOK, Idle, Handlers,
       Turns, Statuses, Details, Beats, DriverStates

-----------------------------------------------------------------------------
(* Lemmas about the pieces steps are made of.                              *)

\* Marking a row that exists, in whichever way, leaves the rows well typed.
LEMMA MarkRows ==
  ASSUME RowsOK, NEW m \in 1..n, NEW d \in Details,
         MarkStreaming(m) \/ MarkComplete(m) \/ MarkError(m, d)
  PROVE  RowsOK' /\ n' = n
<1>1. n \in Nat /\ m \in Turns /\ m <= n
  BY TurnDriverAssumption DEF TurnDriverAssumption, RowsOK, Turns
<1>2. n' = n /\ aged' \subseteq 1..n /\ beat' \in Beats
  BY DEF MarkStreaming, MarkComplete, MarkError, RowsOK, Beats
<1>3. \E s \in {"streaming", "complete", "error"} : status' = [status EXCEPT ![m] = s]
  BY DEF MarkStreaming, MarkComplete, MarkError
<1>4. detail' \in [Turns -> Details]
  BY <1>1 DEF MarkStreaming, MarkComplete, MarkError, RowsOK
<1>5. status' \in [Turns -> Statuses] /\ \A k \in Turns : status'[k] # "none" <=> k <= n
  BY <1>1, <1>3 DEF RowsOK, Statuses
<1>6. QED
  BY <1>2, <1>4, <1>5 DEF RowsOK

\* A resume leaves the rows well typed, with one more turn.
LEMMA AppendedRows ==
  ASSUME RowsOK, AppendResumeTurn
  PROVE  RowsOK' /\ n' = n + 1 /\ n' \in Turns
<1> USE TurnDriverAssumption DEF TurnDriverAssumption
<1> DEFINE gone == Retired(status, detail)
<1>1. n \in Nat /\ n' = n + 1 /\ n' \in Turns /\ n' \in 0..MaxTurns /\ beat' \in Beats
  BY DEF AppendResumeTurn, AppendRows, RowsOK, Turns, Beats
<1>2. \A m \in gone : m \in Turns /\ m <= n
  BY DEF RowsOK, Retired, NonTerminal, Statuses
<1>3. status' = [m \in Turns |-> IF m = n + 1 THEN "pending"
                                 ELSE IF m \in gone THEN "error" ELSE status[m]]
  BY DEF AppendResumeTurn, AppendRows
<1>4. detail' = [m \in Turns |-> IF m \in gone THEN "superseded" ELSE detail[m]]
  BY DEF AppendResumeTurn, AppendRows
<1>5. aged' \subseteq 1..n'
  <2>1. aged' \subseteq aged /\ aged \subseteq 1..n
    BY DEF AppendResumeTurn, AppendRows, RowsOK
  <2>2. \A k \in 1..n : k \in 1..n'
    BY <1>1
  <2>3. QED
    BY <2>1, <2>2
<1> HIDE DEF gone
<1>6. status' \in [Turns -> Statuses] /\ \A m \in Turns : status'[m] # "none" <=> m <= n'
  BY <1>1, <1>2, <1>3 DEF RowsOK, Statuses, Turns
<1>7. detail' \in [Turns -> Details]
  BY <1>4 DEF RowsOK, Details
<1>8. QED
  BY <1>1, <1>5, <1>6, <1>7 DEF RowsOK

\* A step that keeps the number of turns, and moves at most the driver of one
\* turn that exists, leaves drivers and requests well typed.
LEMMA DriverMoves ==
  ASSUME TypeInv, n' = n, NEW m \in Turns, m <= n, NEW s \in DriverStates,
         drv' = drv \/ Becomes(m, s), req' = req,
         RowsOK', Fault \/ UNCHANGED faults
  PROVE  TypeInv'
<1>1. DriversOK'
  BY DEF TypeInv, DriversOK, Becomes
<1>2. faults' \in 0..MaxFaults
  BY TurnDriverAssumption DEF TurnDriverAssumption, TypeInv, Fault
<1>3. QED
  BY <1>1, <1>2 DEF TypeInv

\* A resume or the seed leaves everything well typed: it adds a turn, and the
\* request goes on to launch its driver.
LEMMA TurnAdded ==
  ASSUME TypeInv, RowsOK', n' = n + 1, n' \in Turns, NEW r \in Requests,
         Launching(r, n + 1), UNCHANGED <<drv, faults>>
  PROVE  TypeInv'
<1>1. n \in Nat /\ n' \in 1..n' /\ n' \in 0..MaxTurns
  BY TurnDriverAssumption DEF TurnDriverAssumption, TypeInv, RowsOK, Turns
<1>2. DriversOK'
  BY <1>1 DEF TypeInv, DriversOK, Turns
<1>3. req' \in [Requests -> Handlers]
  BY <1>1 DEF TypeInv, Launching, Handlers
<1>4. \A q \in Requests : req'[q].pc = "launch" => req'[q].msg \in 1..n'
  BY <1>1 DEF TypeInv, Launching
<1>5. QED
  BY <1>2, <1>3, <1>4 DEF TypeInv

-----------------------------------------------------------------------------
(* The type invariant is inductive.                                        *)

\* No step of a request breaks it.
LEMMA TypeRequest ==
  ASSUME TypeInv, NEW r \in Requests, RequestStep(r)
  PROVE  TypeInv'
<1> USE TurnDriverAssumption DEF TurnDriverAssumption
<1>0. RowsOK /\ DriversOK /\ n \in Nat /\ req \in [Requests -> Handlers]
  BY DEF TypeInv, RowsOK
<1>1. CASE SeedRun(r)
  <2>1. 1 \in Turns /\ n = 0 /\ n' = n + 1 /\ n' \in Turns
    BY <1>1 DEF SeedRun, Turns
  <2>2. RowsOK'
    BY <1>0, <1>1, <2>1 DEF SeedRun, RowsOK, Statuses, Turns
  <2>3. QED
    BY <1>1, <2>1, <2>2, TurnAdded DEF SeedRun
<1>2. CASE ClickResume(r) \/ SweepResume(r)
  BY <1>0, <1>2, AppendedRows, TurnAdded DEF ClickResume, SweepResume
<1>3. CASE SweepSelect(r) \/ SweepOutOfTurns(r) \/ Killed(r)
  <2>1. RowsOK' /\ DriversOK' /\ n' = n /\ faults' \in 0..MaxFaults
    BY <1>0, <1>3
       DEF TypeInv, SweepSelect, SweepOutOfTurns, Killed, Fault, rowVars, RowsOK, DriversOK
  <2>2. req' = req \/ (\E q \in {"resume"} : req' = [req EXCEPT ![r].pc = q])
                   \/ req' = [req EXCEPT ![r] = Idle]
    BY <1>3 DEF SweepSelect, SweepOutOfTurns, Killed
  <2>3. req' \in [Requests -> Handlers]
    BY <1>0, <2>2 DEF Handlers, Idle
  <2>4. \A q \in Requests : req'[q].pc = "launch" => req'[q] = req[q]
    BY <1>0, <2>2 DEF Handlers, Idle
  <2>5. QED
    BY <2>1, <2>3, <2>4 DEF TypeInv
<1>4. CASE Launch(r)
  <2>1. RowsOK' /\ n' = n /\ faults' \in 0..MaxFaults
    BY <1>0, <1>4 DEF TypeInv, Launch, rowVars, RowsOK
  <2>2. req[r].msg \in Turns /\ req[r].msg <= n
    BY <1>0, <1>4 DEF TypeInv, Launch, RowsOK, Turns
  <2>3. DriversOK'
    BY <1>0, <1>4, <2>1, <2>2 DEF Launch, Becomes, DriversOK, DriverStates
  <2>4. req' \in [Requests -> Handlers] /\ \A q \in Requests : req'[q].pc = "launch" => req'[q] = req[q]
    BY <1>0, <1>4 DEF Launch, Handlers, Idle
  <2>5. QED
    BY <2>1, <2>3, <2>4 DEF TypeInv
<1>5. QED
  BY <1>1, <1>2, <1>3, <1>4 DEF RequestStep

\* No step of a driver breaks it.
LEMMA TypeDriver ==
  ASSUME TypeInv, NEW m \in Turns,
         DriverStep(m) \/ Heartbeat(m) \/ Cancel(m) \/ Kill(m) \/ CompletionAges(m)
  PROVE  TypeInv'
<1>0. RowsOK /\ DriversOK /\ n \in Nat
  BY TurnDriverAssumption DEF TurnDriverAssumption, TypeInv, RowsOK
<1>1. m <= n /\ m \in 1..n
  <2>1. drv[m] # "none" \/ status[m] = "error"
    BY DEF DriverStep, Load, SetupRaises, Start, Done, Fail, FollowUp, Heartbeat, Cancel,
           Kill, Live, CompletionAges
  <2>2. m <= n
    BY <1>0, <2>1 DEF RowsOK, DriversOK
  <2>3. QED
    BY <1>0, <2>2 DEF Turns
<1>2. req' = req /\ (Fault \/ UNCHANGED faults)
  BY DEF DriverStep, Load, SetupRaises, Start, Done, Fail, FollowUp, Heartbeat, Cancel,
         Kill, CompletionAges
<1>3. \E s \in DriverStates : drv' = drv \/ Becomes(m, s)
  BY DEF DriverStep, Load, SetupRaises, Start, Done, Fail, FollowUp, Heartbeat, Cancel,
         Kill, CompletionAges, DriverStates
<1>4. RowsOK' /\ n' = n
  <2>1. CASE Load(m) \/ SetupRaises(m) \/ Kill(m) \/ UNCHANGED rowVars
    BY <1>0, <2>1 DEF Load, SetupRaises, Kill, rowVars, RowsOK
  <2>2. CASE Start(m) \/ Done(m)
    BY <1>0, <1>1, <2>2, MarkRows DEF Start, Done, Details
  <2>3. CASE \E d \in {"failed", "cancelled"} : MarkError(m, d)
    BY <1>0, <1>1, <2>3, MarkRows DEF Details
  <2>4. CASE Heartbeat(m) \/ CompletionAges(m)
    BY <1>0, <1>1, <2>4 DEF Heartbeat, CompletionAges, RowsOK, Beats
  <2>5. QED
    BY <2>1, <2>2, <2>3, <2>4 DEF DriverStep, Fail, FollowUp, Cancel, CancelRow
<1>5. QED
  BY <1>1, <1>2, <1>3, <1>4, DriverMoves

\* No step at all breaks it.
LEMMA TypeNext == TypeInv /\ [Next]_vars => TypeInv'
<1> SUFFICES ASSUME TypeInv, [Next]_vars PROVE TypeInv'
  OBVIOUS
<1>1. CASE Rollout
  <2>1. RowsOK' /\ n' = n /\ faults' \in 0..MaxFaults
    BY <1>1, TurnDriverAssumption
       DEF TurnDriverAssumption, TypeInv, Rollout, Fault, rowVars, RowsOK
  <2>2. DriversOK'
    BY <1>1, <2>1 DEF TypeInv, Rollout, DriversOK, DriverStates, Live
  <2>3. req' \in [Requests -> Handlers] /\ \A q \in Requests : req'[q].pc # "launch"
    BY <1>1, TurnDriverAssumption DEF TurnDriverAssumption, Rollout, Handlers, Idle
  <2>4. QED
    BY <2>1, <2>2, <2>3 DEF TypeInv
<1>2. CASE BeatAges
  BY <1>2 DEF BeatAges, TypeInv, RowsOK, DriversOK, Beats, Older
<1>3. CASE Rest \/ UNCHANGED vars
  BY <1>3 DEF Rest, vars, rowVars, TypeInv, RowsOK, DriversOK
<1>4. QED
  BY <1>1, <1>2, <1>3, TypeRequest, TypeDriver DEF Next

\* The types, for any number of requests, turns and faults.
THEOREM TypeCorrect == Spec => []TypeOK
BY TypeInit, TypeNext, TypeInvTypes, PTL DEF Spec

-----------------------------------------------------------------------------
(* A complete row is final.                                                *)

\* Only a driver past its _mark_complete has a complete row; a driver is
\* launched once, by one request.
FinalInv ==
  /\ \A m \in Turns : status[m] = "complete" => drv[m] \in {"tail", "ended", "killed"}
  /\ \A r \in Requests : req[r].pc = "launch" => drv[req[r].msg] = "none"
  /\ \A r, q \in Requests :
       req[r].pc = "launch" /\ req[q].pc = "launch" /\ req[r].msg = req[q].msg => r = q

\* A new turn, seeded or resumed, neither finishes nor reopens a complete row,
\* and its launch is its own.
LEMMA FinalNewTurn ==
  ASSUME TypeInv, TypeInv', FinalInv, NEW r \in Requests,
         SeedRun(r) \/ ClickResume(r) \/ SweepResume(r)
  PROVE  /\ FinalInv'
         /\ \A m \in Turns : status[m] = "complete" => status'[m] = "complete"
<1>1. n \in Nat /\ n' = n + 1 /\ n' \in Turns /\ drv' = drv /\ Launching(r, n + 1)
  BY TurnDriverAssumption
     DEF TurnDriverAssumption, TypeInv, RowsOK, Turns, SeedRun, ClickResume, SweepResume,
         AppendResumeTurn, AppendRows
<1>2. \A m \in Turns : status'[m] = "complete" <=> status[m] = "complete"
  <2>1. CASE SeedRun(r)
    BY <1>1, <2>1 DEF SeedRun, TypeInv, RowsOK, Turns, Statuses
  <2>2. CASE AppendResumeTurn
    BY <1>1, <2>2
       DEF AppendResumeTurn, AppendRows, Retired, NonTerminal, TypeInv, RowsOK, Turns, Statuses
  <2>3. QED
    BY <2>1, <2>2 DEF ClickResume, SweepResume
<1>3. drv[n + 1] = "none"
  BY <1>1 DEF TypeInv, DriversOK, DriverStates
<1>4. \A q \in Requests : req[q].pc = "launch" => req[q].msg # n + 1
  BY <1>1 DEF TypeInv
<1>5. req' = [req EXCEPT ![r] = [pc |-> "launch", msg |-> n + 1]] /\ req \in [Requests -> Handlers]
  BY <1>1 DEF Launching, TypeInv
<1>6. QED
  BY <1>1, <1>2, <1>3, <1>4, <1>5 DEF FinalInv

\* The other steps of a request leave the rows alone, and Launch starts the
\* only driver of its turn.
LEMMA FinalOtherRequest ==
  ASSUME TypeInv, FinalInv, NEW r \in Requests,
         SweepSelect(r) \/ SweepOutOfTurns(r) \/ Launch(r) \/ Killed(r)
  PROVE  FinalInv' /\ status' = status
<1>0. /\ req \in [Requests -> Handlers]
      /\ \A q \in Requests : req[q].pc = "launch" => req[q].msg \in Turns
  BY TurnDriverAssumption DEF TurnDriverAssumption, TypeInv, RowsOK, Turns
<1>1. status' = status
  BY DEF SweepSelect, SweepOutOfTurns, Launch, Killed, rowVars
<1>2. \A q \in Requests : req'[q].pc = "launch" => req'[q] = req[q] /\ (Launch(r) => q # r)
  BY <1>0 DEF SweepSelect, SweepOutOfTurns, Launch, Killed, Idle, Handlers
<1>3. CASE Launch(r)
  <2>1. req[r].msg \in Turns /\ status[req[r].msg] # "complete"
    BY <1>0, <1>3 DEF Launch, FinalInv
  <2>2. \A m \in Turns : drv'[m] = IF m = req[r].msg THEN "launched" ELSE drv[m]
    BY <1>3 DEF Launch, Becomes, TypeInv, DriversOK
  <2>3. \A q \in Requests : req'[q].pc = "launch" =>
          req'[q].msg \in Turns /\ req'[q].msg # req[r].msg
    BY <1>0, <1>2, <1>3 DEF Launch, FinalInv
  <2>4. QED
    BY <1>1, <1>2, <2>1, <2>2, <2>3 DEF FinalInv
<1>4. CASE ~Launch(r)
  BY <1>1, <1>2, <1>4 DEF FinalInv, SweepSelect, SweepOutOfTurns, Killed
<1>5. QED
  BY <1>3, <1>4

\* A driver marks its row only while the row is not complete.
LEMMA FinalDriver ==
  ASSUME TailFails = FALSE, TypeInv, FinalInv, NEW m \in Turns,
         DriverStep(m) \/ Heartbeat(m) \/ Cancel(m) \/ Kill(m) \/ CompletionAges(m)
  PROVE  /\ FinalInv'
         /\ \A k \in Turns : status[k] = "complete" => status'[k] = "complete"
<1>0. /\ drv \in [Turns -> DriverStates] /\ status \in [Turns -> Statuses]
      /\ \A r \in Requests : req[r].pc = "launch" => req[r].msg \in Turns
      /\ req' = req
  BY TurnDriverAssumption
     DEF TurnDriverAssumption, TypeInv, RowsOK, DriversOK, Turns, DriverStep, Load, SetupRaises,
         Start, Done, Fail, FollowUp, Heartbeat, Cancel, Kill, CompletionAges
<1>1. CASE Start(m)
  BY <1>0, <1>1 DEF Start, MarkStreaming, Becomes, FinalInv
<1>2. CASE Done(m)
  BY <1>0, <1>2 DEF Done, MarkComplete, Becomes, FinalInv
<1>3. CASE Fail(m) \/ (Cancel(m) /\ drv[m] = "streaming")
  BY <1>0, <1>3 DEF Fail, Cancel, CancelRow, MarkError, Becomes, FinalInv
<1>4. CASE Load(m) \/ SetupRaises(m) \/ FollowUp(m) \/ (Cancel(m) /\ drv[m] = "tail") \/ Kill(m)
  <2>1. status' = status /\ drv[m] \in Live
    BY <1>4 DEF Load, SetupRaises, FollowUp, Cancel, CancelRow, Kill, rowVars, Live
  <2>2. \E s \in {"loaded", "ended", "killed"} :
          Becomes(m, s) /\ (s = "loaded" => status[m] # "complete")
    BY <1>4 DEF Load, SetupRaises, FollowUp, Cancel, Kill
  <2>3. QED
    BY <1>0, <2>1, <2>2 DEF Becomes, FinalInv, Live
<1>5. CASE Heartbeat(m) \/ CompletionAges(m)
  BY <1>0, <1>5 DEF Heartbeat, CompletionAges, FinalInv
<1>6. QED
  BY <1>1, <1>2, <1>3, <1>4, <1>5 DEF DriverStep, Cancel

\* FinalInv is inductive, and keeps complete rows complete.
LEMMA FinalNext ==
  ASSUME TailFails = FALSE, TypeInv, TypeInv', FinalInv, [Next]_vars
  PROVE  /\ FinalInv'
         /\ [\A m \in Turns : status[m] = "complete" => status'[m] = "complete"]_vars
<1>1. CASE Rollout
  <2>1. status' = status /\ \A r \in Requests : req'[r].pc = "idle"
    BY <1>1 DEF Rollout, rowVars, Idle
  <2>2. \A m \in Turns : drv'[m] = IF drv[m] \in Live THEN "killed" ELSE drv[m]
    BY <1>1 DEF Rollout
  <2>3. QED
    BY <2>1, <2>2 DEF FinalInv, Live
<1>2. CASE BeatAges \/ Rest \/ UNCHANGED vars
  BY <1>2 DEF BeatAges, Rest, vars, rowVars, FinalInv
<1>3. CASE \E r \in Requests : RequestStep(r)
  BY <1>3, FinalNewTurn, FinalOtherRequest DEF RequestStep
<1>4. CASE \E m \in Turns : DriverStep(m) \/ Heartbeat(m) \/ Cancel(m) \/ Kill(m) \/ CompletionAges(m)
  BY <1>4, FinalDriver
<1>5. QED
  BY <1>1, <1>2, <1>3, <1>4 DEF Next

\* A row that is complete stays complete, when the query after the turn does
\* not raise: for any number of requests, clicks and missed beats included.
THEOREM CompleteStays ==
  ASSUME TailFails = FALSE
  PROVE  Spec => CompleteIsFinal
<1>1. Init => FinalInv
  BY DEF Init, FinalInv, Idle
<1>2. TypeInv /\ TypeInv' /\ FinalInv /\ [Next]_vars =>
        FinalInv' /\ [\A m \in Turns : status[m] = "complete" => status'[m] = "complete"]_vars
  BY FinalNext
<1>3. QED
  BY <1>1, <1>2, TypeInit, TypeNext, PTL DEF Spec, CompleteIsFinal

-----------------------------------------------------------------------------
(* One driver.                                                             *)

\* One request at a time, which is never a click, and no live driver misses
\* its beats: the conditions of the run driver_sweeps.
OnlySweeps == Clicks = FALSE /\ MissedBeats = FALSE /\ \A r, q \in Requests : r = q

Starting == {"launched", "loaded", "streaming"}

\* Only the newest turn is driven, and its row says how far it is.
DriverOfNewest ==
  \A m \in Turns : /\ drv[m] \in Live => m = n
                   /\ drv[m] \in Starting => status[m] \in NonTerminal
                   /\ drv[m] = "tail" => status[m] = "complete"

\* An older turn is out of reach of both legs of the resume scope.
OlderOutOfScope ==
  \A m \in Turns : m < n => /\ status[m] \notin NonTerminal
                            /\ ~ (status[m] = "error" /\ detail[m] = "cancelled")

\* The driver a request is about to launch is the first of the newest turn,
\* and the run a request is about to resume is dead.
RequestsAlone ==
  \A r \in Requests :
    /\ req[r].pc = "launch" => /\ req[r].msg = n /\ status[n] = "pending"
                               /\ beat \in {"null", "fresh"}
    /\ req[r].pc # "idle" => \A m \in Turns : drv[m] \notin Live

\* The beacon is in time while a driver is to beat.
BeatInTime ==
  /\ n = 0 => beat = "null"
  /\ \A m \in Turns : drv[m] \in Starting => beat \in {"null", "fresh"}

SerialInv == DriverOfNewest /\ OlderOutOfScope /\ RequestsAlone /\ BeatInTime

\* The strengthening implies the three properties of the run driver_sweeps.
LEMMA SerialImplies ==
  TypeInv /\ SerialInv => OneDriver /\ OlderTurnsAreOver /\ InterruptedMeansDead
BY DEF TypeInv, RowsOK, SerialInv, DriverOfNewest, OlderOutOfScope, BeatInTime,
       OneDriver, OlderTurnsAreOver, InterruptedMeansDead, Interrupted, Starting

\* Nothing is driven in a run that does not exist yet.
LEMMA SerialInit == Init => SerialInv
BY DEF Init, SerialInv, DriverOfNewest, OlderOutOfScope, RequestsAlone, BeatInTime,
       Idle, Live, Starting, NonTerminal

\* The first turn: there is no driver yet, and no beacon.
LEMMA SerialSeed ==
  ASSUME OnlySweeps, TypeInv, SerialInv, NEW r \in Requests, SeedRun(r)
  PROVE  SerialInv'
<1>1. /\ n = 0 /\ n' = 1 /\ 1 \in Turns /\ beat = "null" /\ beat' = beat
      /\ \A m \in Turns : drv[m] = "none" /\ drv'[m] = "none"
  BY TurnDriverAssumption
     DEF TurnDriverAssumption, SeedRun, SerialInv, BeatInTime, TypeInv, DriversOK, Turns
<1>2. /\ req'[r] = [pc |-> "launch", msg |-> 1] /\ \A q \in Requests : q = r
      /\ status'[1] = "pending"
  BY <1>1 DEF SeedRun, Launching, OnlySweeps, TypeInv, RowsOK
<1>3. DriverOfNewest' /\ BeatInTime'
  BY <1>1 DEF DriverOfNewest, BeatInTime, Live, Starting
<1>4. OlderOutOfScope'
  BY <1>1 DEF OlderOutOfScope, Turns
<1>5. RequestsAlone'
  BY <1>1, <1>2 DEF RequestsAlone, Live
<1>6. QED
  BY <1>3, <1>4, <1>5 DEF SerialInv

\* A resume of the sweep: the run is dead, whatever was unfinished is retired.
LEMMA SerialResume ==
  ASSUME OnlySweeps, TypeInv, SerialInv, NEW r \in Requests, SweepResume(r)
  PROVE  SerialInv'
<1>1. /\ n \in Nat /\ n' = n + 1 /\ n' \in Turns /\ beat' = "fresh" /\ drv' = drv
      /\ \A m \in Turns : drv[m] \notin Live
  BY TurnDriverAssumption
     DEF TurnDriverAssumption, SweepResume, AppendResumeTurn, AppendRows, SerialInv,
         RequestsAlone, TypeInv, RowsOK, Turns
<1>2. req'[r] = [pc |-> "launch", msg |-> n'] /\ \A q \in Requests : q = r
  BY <1>1 DEF SweepResume, Launching, OnlySweeps, TypeInv
<1>3. status'[n'] = "pending"
  BY <1>1 DEF SweepResume, AppendResumeTurn, AppendRows
<1>4. DriverOfNewest' /\ BeatInTime'
  BY <1>1 DEF DriverOfNewest, BeatInTime, Live, Starting
<1>5. OlderOutOfScope'
  <2> SUFFICES ASSUME NEW m \in Turns, m < n + 1
               PROVE  /\ status'[m] \notin NonTerminal
                      /\ ~ (status'[m] = "error" /\ detail'[m] = "cancelled")
    BY <1>1 DEF OlderOutOfScope
  <2> DEFINE gone == Retired(status, detail)
  <2>1. m # n + 1
    BY <1>1 DEF Turns
  <2>2. /\ status'[m] = IF m \in gone THEN "error" ELSE status[m]
        /\ detail'[m] = IF m \in gone THEN "superseded" ELSE detail[m]
    BY <2>1 DEF SweepResume, AppendResumeTurn, AppendRows
  <2>3. m \in gone <=> \/ status[m] \in NonTerminal
                       \/ status[m] = "error" /\ detail[m] = "cancelled"
    BY DEF Retired, TypeInv, RowsOK
  <2>4. QED
    BY <2>2, <2>3 DEF NonTerminal
<1>6. RequestsAlone'
  BY <1>1, <1>2, <1>3 DEF RequestsAlone
<1>7. QED
  BY <1>4, <1>5, <1>6 DEF SerialInv

\* What the sweep takes for resumable is dead: a driver that is to beat has
\* no stale beacon, and neither it nor the tail of a finished turn leaves the
\* newest row, the only one in scope, unfinished or cancelled.
LEMMA ResumableIsDead ==
  ASSUME TypeInv, SerialInv, Resumable(status, detail, aged, beat), NEW k \in Turns
  PROVE  drv[k] \notin Live
<1> SUFFICES ASSUME drv[k] \in Live PROVE FALSE
  OBVIOUS
<1>1. k = n /\ n \in Nat
  BY DEF SerialInv, DriverOfNewest, TypeInv, RowsOK
<1>2. PICK m \in Turns : \/ status[m] \in NonTerminal /\ beat = "stale"
                         \/ status[m] = "error" /\ detail[m] = "cancelled"
  BY DEF Resumable, HardKill, GracefulCancel, TypeInv, RowsOK
<1>3. m = n
  <2>1. status[m] # "none"
    BY <1>2 DEF NonTerminal
  <2>2. m <= n /\ ~ (m < n) /\ m \in Nat
    BY <1>2, <2>1 DEF SerialInv, OlderOutOfScope, TypeInv, RowsOK, Turns
  <2>3. QED
    BY <1>1, <2>2
<1>4. drv[k] \in Starting => beat # "stale" /\ status[k] \in NonTerminal
  BY DEF SerialInv, BeatInTime, DriverOfNewest
<1>5. drv[k] = "tail" => status[k] = "complete"
  BY DEF SerialInv, DriverOfNewest
<1>6. QED
  BY <1>1, <1>2, <1>3, <1>4, <1>5 DEF Live, Starting, NonTerminal

\* The other steps of the request: it resumes what is dead, and launches the
\* driver of the newest turn.
LEMMA SerialOtherRequest ==
  ASSUME OnlySweeps, TypeInv, SerialInv, NEW r \in Requests,
         SweepSelect(r) \/ SweepOutOfTurns(r) \/ Launch(r) \/ Killed(r)
  PROVE  SerialInv'
<1>0. /\ UNCHANGED rowVars /\ \A q \in Requests : q = r
      /\ req \in [Requests -> Handlers] /\ drv \in [Turns -> DriverStates]
  BY DEF OnlySweeps, TypeInv, DriversOK, SweepSelect, SweepOutOfTurns, Launch, Killed
<1>1. OlderOutOfScope'
  BY <1>0 DEF SerialInv, OlderOutOfScope, rowVars
<1>2. CASE Launch(r)
  <2>1. /\ req[r].msg = n /\ n \in Turns /\ status[n] = "pending" /\ beat \in {"null", "fresh"}
        /\ n # 0 /\ \A m \in Turns : drv[m] \notin Live
    BY <1>2, TurnDriverAssumption
       DEF TurnDriverAssumption, Launch, SerialInv, RequestsAlone, TypeInv, RowsOK, Turns
  <2>2. \A m \in Turns : drv'[m] = IF m = n THEN "launched" ELSE drv[m]
    BY <1>0, <1>2, <2>1 DEF Launch, Becomes
  <2>3. DriverOfNewest' /\ BeatInTime'
    BY <1>0, <2>1, <2>2 DEF DriverOfNewest, BeatInTime, Live, Starting, NonTerminal, rowVars
  <2>4. RequestsAlone'
    BY <1>0, <1>2 DEF Launch, RequestsAlone, Idle
  <2>5. QED
    BY <1>1, <2>3, <2>4 DEF SerialInv
<1>3. CASE SweepSelect(r) \/ SweepOutOfTurns(r) \/ Killed(r)
  <2>1. drv' = drv
    BY <1>3 DEF SweepSelect, SweepOutOfTurns, Killed
  <2>2. DriverOfNewest' /\ BeatInTime'
    BY <1>0, <2>1 DEF SerialInv, DriverOfNewest, BeatInTime, rowVars
  <2>3. RequestsAlone'
    <3>1. CASE req' = req \/ req'[r].pc = "idle"
      BY <1>0, <2>1, <3>1 DEF SerialInv, RequestsAlone, rowVars
    <3>2. CASE SweepSelect(r) /\ req' # req
      <4>1. Resumable(status, detail, aged, beat) /\ req'[r].pc = "resume"
        BY <1>0, <3>2 DEF SweepSelect, Handlers
      <4>2. \A m \in Turns : drv[m] \notin Live
        BY <4>1, ResumableIsDead
      <4>3. QED
        BY <1>0, <2>1, <4>1, <4>2 DEF RequestsAlone
    <3>3. QED
      BY <1>0, <1>3, <3>1, <3>2 DEF SweepOutOfTurns, Killed, Idle
  <2>4. QED
    BY <1>1, <2>2, <2>3 DEF SerialInv
<1>4. QED
  BY <1>2, <1>3

\* A driver's own steps: it is the one of the newest turn, and no request is
\* about to launch or resume while it lives.
LEMMA SerialDriver ==
  ASSUME OnlySweeps, TypeInv, SerialInv, NEW m \in Turns,
         DriverStep(m) \/ Heartbeat(m) \/ Cancel(m) \/ Kill(m)
  PROVE  SerialInv'
<1>0. /\ m = n /\ drv[m] \in Live /\ n # 0 /\ req' = req /\ n' = n
      /\ \A r \in Requests : req[r].pc = "idle"
      /\ drv \in [Turns -> DriverStates] /\ status \in [Turns -> Statuses]
      /\ detail \in [Turns -> Details]
      /\ \A k \in Turns : k # m => drv[k] \notin Live
  <2>1. drv[m] \in Live /\ req' = req /\ n' = n
    BY DEF DriverStep, Load, SetupRaises, Start, Done, Fail, FollowUp, Heartbeat, Cancel, Kill,
           CancelRow, MarkStreaming, MarkComplete, MarkError, rowVars, Live
  <2>2. QED
    BY <2>1 DEF SerialInv, DriverOfNewest, RequestsAlone, TypeInv, RowsOK, DriversOK, Turns
<1>1. RequestsAlone'
  BY <1>0 DEF RequestsAlone
<1>2. /\ \A k \in Turns : k # m => status'[k] = status[k] /\ detail'[k] = detail[k]
      /\ \A k \in Turns : k # m => drv'[k] = drv[k]
  BY <1>0 DEF DriverStep, Load, SetupRaises, Start, Done, Fail, FollowUp, Heartbeat, Cancel, Kill,
       CancelRow, MarkStreaming, MarkComplete, MarkError, rowVars, Becomes
<1>3. OlderOutOfScope'
  BY <1>0, <1>2 DEF SerialInv, OlderOutOfScope, Turns
<1>4. /\ drv'[m] \in Starting => status'[m] \in NonTerminal /\ beat' \in {"null", "fresh"}
      /\ drv'[m] = "tail" => status'[m] = "complete"
  <2>1. /\ drv[m] \in Starting => status[m] \in NonTerminal /\ beat \in {"null", "fresh"}
    BY DEF SerialInv, DriverOfNewest, BeatInTime
  <2>2. CASE Start(m) \/ Done(m) \/ Heartbeat(m)
    BY <1>0, <2>1, <2>2
       DEF Start, Done, Heartbeat, MarkStreaming, MarkComplete, Becomes, Starting, NonTerminal
  <2>3. CASE Load(m)
    BY <1>0, <2>1, <2>3 DEF Load, Becomes, rowVars, Starting
  <2>4. CASE SetupRaises(m) \/ Fail(m) \/ FollowUp(m) \/ Cancel(m) \/ Kill(m)
    BY <1>0, <2>4 DEF SetupRaises, Fail, FollowUp, Cancel, Kill, Becomes, Starting
  <2>5. QED
    BY <2>2, <2>3, <2>4 DEF DriverStep
<1>5. DriverOfNewest' /\ BeatInTime'
  BY <1>0, <1>2, <1>4 DEF DriverOfNewest, BeatInTime, Live, Starting
<1>6. QED
  BY <1>1, <1>3, <1>5 DEF SerialInv

\* SerialInv is inductive: deploys, the clock and time passing included.
LEMMA SerialNext ==
  ASSUME OnlySweeps, TypeInv, SerialInv, [Next]_vars
  PROVE  SerialInv'
<1>1. CASE Rollout
  <2>1. UNCHANGED rowVars /\ \A r \in Requests : req'[r].pc = "idle"
    BY <1>1 DEF Rollout, Idle
  <2>2. \A m \in Turns : drv'[m] = drv[m] \/ drv'[m] = "killed"
    BY <1>1 DEF Rollout
  <2>3. QED
    BY <2>1, <2>2 DEF SerialInv, DriverOfNewest, OlderOutOfScope, RequestsAlone, BeatInTime,
                      Live, Starting, rowVars
<1>2. CASE BeatAges
  <2>1. /\ UNCHANGED <<n, status, detail, drv, req>> /\ beat # "null"
        /\ \A m \in Turns : drv[m] \notin Starting
        /\ \A r \in Requests : req[r].pc # "launch"
    BY <1>2 DEF BeatAges, OnlySweeps, SerialInv, BeatInTime, RequestsAlone, Starting
  <2>2. QED
    BY <2>1 DEF SerialInv, DriverOfNewest, OlderOutOfScope, RequestsAlone, BeatInTime
<1>3. CASE \E m \in Turns : CompletionAges(m)
  BY <1>3 DEF CompletionAges, SerialInv, DriverOfNewest, OlderOutOfScope, RequestsAlone, BeatInTime
<1>4. CASE Rest \/ UNCHANGED vars
  BY <1>4 DEF Rest, vars, rowVars, SerialInv, DriverOfNewest, OlderOutOfScope,
              RequestsAlone, BeatInTime
<1>5. CASE \E r \in Requests : RequestStep(r)
  BY <1>5, SerialSeed, SerialResume, SerialOtherRequest DEF RequestStep, ClickResume, OnlySweeps
<1>6. CASE \E m \in Turns : DriverStep(m) \/ Heartbeat(m) \/ Cancel(m) \/ Kill(m)
  BY <1>6, SerialDriver
<1>7. QED
  BY <1>1, <1>2, <1>3, <1>4, <1>5, <1>6 DEF Next

\* When only the sweep resumes, one request at a time, and drivers beat in
\* time, a run has at most one live driver, whatever is killed when.
THEOREM SweepsLeaveOneDriver ==
  ASSUME OnlySweeps
  PROVE  Spec => []OneDriver
BY SerialInit, SerialNext, SerialImplies, TypeInit, TypeNext, PTL DEF Spec

\* Under the same conditions, only the newest turn is ever unfinished.
THEOREM SweepsRetireOlderTurns ==
  ASSUME OnlySweeps
  PROVE  Spec => []OlderTurnsAreOver
BY SerialInit, SerialNext, SerialImplies, TypeInit, TypeNext, PTL DEF Spec

\* Under the same conditions, a run listed as interrupted has no driver that
\* is still to finish its turn.
THEOREM InterruptedRunsAreDead ==
  ASSUME OnlySweeps
  PROVE  Spec => []InterruptedMeansDead
BY SerialInit, SerialNext, SerialImplies, TypeInit, TypeNext, PTL DEF Spec

-----------------------------------------------------------------------------
(* Presence: fields and their owners                                         *)

\* Where a consumer may be, by the step it is at.
PageOK(c) ==
  /\ conn[c].pc \in {"forget", "depart", "write", "tell", "sweep"} => conn[c].page \in Pages
  /\ conn[c].pc = "join" => conn[c].goto \in Pages /\ conn[c].page \in {Nowhere, conn[c].goto}
  /\ conn[c].pc \in {"gone", "lost"} => conn[c].page = Nowhere

\* A departing consumer whose field is fresh failed to remove it.
Departed(c) ==
  conn[c].pc = "depart" /\ hash[conn[c].page][c] \in Fresh => <<conn[c].page, c>> \in strays

\* The field of c on page p has an owner, as NoGhosts says.
Owned(p, c) ==
  hash[p][c] \in Fresh =>
    \/ conn[c].page = p /\ (conn[c].visible \/ conn[c].pc = "write")
    \/ <<p, c>> \in strays
    \/ conn[c].pc = "lost"

PresenceInv ==
  /\ PresenceTypeOK
  /\ \A c \in Conns : PageOK(c) /\ Departed(c)
  /\ \A p \in Pages, c \in Conns : Owned(p, c)

\* No consumer has a page, a field or a departure to make at the start.
LEMMA PresenceInitInv == PresenceInit => PresenceInv
<1> SUFFICES ASSUME PresenceInit PROVE PresenceInv
  OBVIOUS
<1> USE PresenceAssumption DEF PresenceAssumption, PresenceInit
<1>1. Connected \in Consumers
  BY DEF Connected, Consumers, Steps, Rosters, Empty
<1>2. PresenceTypeOK
  <2>1. hash \in [Pages -> [Conns -> Fields]]
    BY DEF Fields
  <2>2. conn \in [Conns -> Consumers] /\ inbox \in [Conns -> SUBSET Pages]
    BY <1>1
  <2>3. hidden \subseteq Users /\ members \subseteq Users \X Tenants
        /\ strays \subseteq Pages \X Conns /\ faulty \in BOOLEAN
    OBVIOUS
  <2>4. acts \in 0..MaxActs
    OBVIOUS
  <2> QED BY <2>1, <2>2, <2>3, <2>4 DEF PresenceTypeOK
<1>3. \A c \in Conns : PageOK(c) /\ Departed(c)
  BY DEF PageOK, Departed, Connected
<1>4. \A p \in Pages, c \in Conns : Owned(p, c)
  BY DEF Owned, Fresh
<1> QED BY <1>2, <1>3, <1>4 DEF PresenceInv

\* What MaxActs bounds is counted up to it.
LEMMA ActsCounted ==
  ASSUME PresenceTypeOK, Act \/ Mishap \/ NoFault
  PROVE  acts' \in 0..MaxActs /\ faulty' \in BOOLEAN
<1>1. acts \in 0..MaxActs /\ faulty \in BOOLEAN /\ MaxActs \in Nat
  BY PresenceAssumption DEF PresenceTypeOK, PresenceAssumption
<1>2. acts' \in 0..MaxActs
  BY <1>1 DEF Act, Mishap, NoFault
<1>3. faulty' \in BOOLEAN
  BY <1>1 DEF Act, Mishap, NoFault
<1> QED BY <1>2, <1>3

\* A consumer's next state is one of the records a consumer may be in.
LEMMA Landed ==
  ASSUME PresenceTypeOK, NEW c \in Conns, NEW p \in Pages
  PROVE  /\ On(c, p) \in Consumers /\ On(c, p).page = p
         /\ On(c, p).pc = "write" /\ On(c, p).tell
         /\ conn[c].page # p => ~On(c, p).idle /\ ~On(c, p).told
         /\ conn[c].page = p => On(c, p).idle = conn[c].idle /\ On(c, p).told = conn[c].told
<1>1. conn[c] \in Consumers
  BY DEF PresenceTypeOK
<1>2. Connected \in Consumers
  BY DEF Connected, Consumers, Steps, Rosters, Empty
<1>3. CASE conn[c].page = p
  BY <1>1, <1>3 DEF On, Consumers, Steps
<1>4. CASE conn[c].page # p
  <2>1. On(c, p) = [Connected EXCEPT !.pc = "write", !.tell = TRUE, !.page = p,
                           !.visible = UserOf[c] \notin hidden]
    BY <1>4 DEF On
  <2>2. On(c, p) \in Consumers
    BY <1>2, <2>1 DEF Consumers, Steps
  <2> QED BY <1>4, <2>1, <2>2 DEF Connected
<1> QED BY <1>3, <1>4

\* A removal of c's own field, which may fail: the field is gone or a stray,
\* and no other field changes.
LEMMA HdelOwned ==
  ASSUME PresenceTypeOK, NEW c \in Conns, conn[c].page \in Pages, Hdel(c)
  PROVE  /\ hash' \in [Pages -> [Conns -> Fields]] /\ strays' \subseteq Pages \X Conns
         /\ faulty' \in BOOLEAN /\ acts' \in 0..MaxActs
         /\ hash'[conn[c].page][c] \in Fresh => <<conn[c].page, c>> \in strays'
         /\ \A p \in Pages, d \in Conns : p # conn[c].page \/ d # c =>
              hash'[p][d] = hash[p][d] /\ (<<p, d>> \in strays' <=> <<p, d>> \in strays)
<1> USE PresenceAssumption DEF PresenceAssumption
<1> DEFINE q == conn[c].page
<1>1. CASE hash' = Forgotten(c) /\ strays' = strays \ {<<q, c>>} /\ NoFault
  <2>1. hash' = [hash EXCEPT ![q][c] = "absent"]
    BY <1>1 DEF Forgotten
  <2>2. hash' \in [Pages -> [Conns -> Fields]] /\ hash'[q][c] = "absent"
        /\ \A p \in Pages, d \in Conns : p # q \/ d # c => hash'[p][d] = hash[p][d]
    BY <2>1 DEF PresenceTypeOK, Fields
  <2> QED BY <1>1, <2>2 DEF PresenceTypeOK, Fresh, NoFault
<1>2. CASE Mishap /\ strays' = strays \cup {<<q, c>>} /\ UNCHANGED hash
  BY <1>2 DEF PresenceTypeOK, Mishap
<1> QED BY <1>1, <1>2 DEF Hdel

\* A touch of c's own field, which may fail.
LEMMA TouchOwned ==
  ASSUME PresenceTypeOK, NEW c \in Conns, conn[c].page \in Pages, Touch(c)
  PROVE  /\ hash' \in [Pages -> [Conns -> Fields]] /\ strays' = strays
         /\ faulty' \in BOOLEAN /\ acts' \in 0..MaxActs
         /\ \A p \in Pages, d \in Conns : p # conn[c].page \/ d # c => hash'[p][d] = hash[p][d]
<1> USE PresenceAssumption DEF PresenceAssumption
<1> DEFINE q == conn[c].page
           v == IF conn[c].idle THEN "idle" ELSE "active"
<1>1. CASE hash' = [hash EXCEPT ![q][c] = v] /\ UNCHANGED <<strays, faulty, acts>>
  BY <1>1 DEF PresenceTypeOK, Fields
<1>2. CASE Mishap /\ UNCHANGED <<hash, strays>>
  BY <1>2 DEF PresenceTypeOK, Mishap
<1> QED BY <1>1, <1>2 DEF Touch

\* What is claimed of a consumer that a step leaves alone, its fields fresh only
\* if they were, stays true.
Untouched(d) ==
  /\ conn'[d] = conn[d]
  /\ \A p \in Pages : hash'[p][d] \in Fresh =>
       hash[p][d] \in Fresh /\ (<<p, d>> \in strays => <<p, d>> \in strays')

LEMMA UntouchedHolds ==
  ASSUME PresenceInv, NEW d \in Conns, Untouched(d)
  PROVE  PageOK(d)' /\ Departed(d)' /\ \A p \in Pages : Owned(p, d)'
<1>1. conn'[d] = conn[d] /\ PageOK(d) /\ Departed(d)
  BY DEF PresenceInv, Untouched
<1>2. PageOK(d)'
  BY <1>1 DEF PageOK
<1>3. Departed(d)'
  BY <1>1 DEF Departed, PageOK, Untouched
<1>4. \A p \in Pages : Owned(p, d)'
  BY DEF PresenceInv, Owned, Untouched
<1> QED BY <1>2, <1>3, <1>4

\* A step of one consumer.
LEMMA KeepsPresence ==
  ASSUME PresenceInv, PresenceTypeOK', NEW c \in Conns,
         \A d \in Conns : d # c => Untouched(d),
         PageOK(c)', Departed(c)', \A p \in Pages : Owned(p, c)'
  PROVE  PresenceInv'
BY UntouchedHolds DEF PresenceInv

\* A step that moves nobody.
LEMMA MovesNobody ==
  ASSUME PresenceInv, PresenceTypeOK', \A d \in Conns : Untouched(d)
  PROVE  PresenceInv'
BY UntouchedHolds DEF PresenceInv

\* Entering a page sends the connection out of its group or straight there.
LEMMA EnterPresence ==
  ASSUME PresenceInv, NEW c \in Conns, NEW p \in Pages \cup {Nowhere}, Enter(c, p)
  PROVE  PresenceInv'
<1> USE PresenceAssumption DEF PresenceAssumption
<1>1. conn[c] \in Consumers /\ conn[c].pc = "ready" /\ PresenceTypeOK
  BY DEF PresenceInv, PresenceTypeOK, Enter, At
<1>2. PICK r, g : /\ conn' = [conn EXCEPT ![c].pc = r, ![c].goto = g]
                  /\ \/ r = "ready" /\ g = Nowhere
                     \/ r = "join" /\ g = p /\ p \in Pages /\ conn[c].page \in {Nowhere, p}
                     \/ r = "forget" /\ g \in {p, Nowhere} /\ conn[c].page # Nowhere
  BY <1>1 DEF Enter, Route, Accepted
<1>3. conn' = [conn EXCEPT ![c] = [conn[c] EXCEPT !.pc = r, !.goto = g]]
      /\ r \in Steps /\ g \in Pages \cup {Nowhere, "end"}
  BY <1>1, <1>2 DEF PresenceTypeOK, Steps
<1>4. [conn[c] EXCEPT !.pc = r, !.goto = g] \in Consumers
  BY <1>1, <1>3 DEF Consumers
<1>5. PresenceTypeOK'
  <2>1. conn' \in [Conns -> Consumers]
    BY <1>1, <1>3, <1>4 DEF PresenceTypeOK
  <2>2. acts' \in 0..MaxActs /\ faulty' \in BOOLEAN
    BY <1>1, ActsCounted DEF Enter
  <2> QED BY <1>1, <2>1, <2>2 DEF PresenceTypeOK, Enter
<1>6. conn'[c].pc = r /\ conn'[c].goto = g /\ conn'[c].page = conn[c].page
      /\ conn'[c].visible = conn[c].visible
      /\ \A d \in Conns : d # c => conn'[d] = conn[d]
  BY <1>1, <1>3 DEF PresenceTypeOK, Consumers
<1>7. PageOK(c)' /\ Departed(c)'
  BY <1>1, <1>2, <1>6 DEF PageOK, Departed, Consumers
<1>8. \A q \in Pages : Owned(q, c)'
  BY <1>1, <1>6 DEF Owned, Enter, PresenceInv
<1> QED BY <1>5, <1>6, <1>7, <1>8, KeepsPresence DEF Untouched, Enter

\* A connection leaves its page: its field goes, or is known to have stayed.
LEMMA ForgetPresence ==
  ASSUME PresenceInv, NEW c \in Conns, Forget(c)
  PROVE  PresenceInv'
<1> USE PresenceAssumption DEF PresenceAssumption
<1> DEFINE q == conn[c].page
<1>1. conn[c] \in Consumers /\ conn[c].pc = "forget" /\ PresenceTypeOK /\ q \in Pages
  BY DEF PresenceInv, PresenceTypeOK, Forget, At, PageOK
<1>2. conn' = [conn EXCEPT ![c] = [conn[c] EXCEPT !.pc = "depart"]]
  BY <1>1 DEF Forget, PresenceTypeOK
<1>3. [conn[c] EXCEPT !.pc = "depart"] \in Consumers
  BY <1>1 DEF Consumers, Steps
<1>4. conn'[c].pc = "depart" /\ conn'[c].page = q
      /\ conn' \in [Conns -> Consumers] /\ \A d \in Conns : d # c => conn'[d] = conn[d]
  BY <1>1, <1>2, <1>3 DEF PresenceTypeOK, Consumers
<1>5. /\ hash' \in [Pages -> [Conns -> Fields]] /\ strays' \subseteq Pages \X Conns
      /\ faulty' \in BOOLEAN /\ acts' \in 0..MaxActs
      /\ hash'[q][c] \in Fresh => <<q, c>> \in strays'
      /\ \A p \in Pages, d \in Conns : p # q \/ d # c =>
           hash'[p][d] = hash[p][d] /\ (<<p, d>> \in strays' <=> <<p, d>> \in strays)
  <2>1. CASE conn[c].visible
    BY <1>1, <2>1, HdelOwned DEF Forget, MustForget
  <2>2. CASE ~conn[c].visible
    <3>1. hash[q][c] \in Fresh => <<q, c>> \in strays
      BY <1>1, <2>2 DEF PresenceInv, Owned
    <3> QED BY <1>1, <2>2, <3>1 DEF Forget, MustForget, PresenceTypeOK
  <2> QED BY <2>1, <2>2
<1>6. PresenceTypeOK'
  BY <1>1, <1>4, <1>5 DEF PresenceTypeOK, Forget
<1>7. PageOK(c)' /\ Departed(c)'
  BY <1>1, <1>4, <1>5 DEF PageOK, Departed
<1>8. \A p \in Pages : Owned(p, c)'
  BY <1>1, <1>4, <1>5 DEF Owned, PresenceInv
<1> QED BY <1>4, <1>5, <1>6, <1>7, <1>8, KeepsPresence DEF Untouched

\* It goes on to the next page, or nowhere: a field still fresh on the old page
\* is a stray.
LEMMA DepartPresence ==
  ASSUME PresenceInv, NEW c \in Conns, Depart(c)
  PROVE  PresenceInv'
<1> USE PresenceAssumption DEF PresenceAssumption
<1> DEFINE q == conn[c].page
<1>1. conn[c] \in Consumers /\ conn[c].pc = "depart" /\ PresenceTypeOK /\ q \in Pages
  BY DEF PresenceInv, PresenceTypeOK, Depart, At, PageOK
<1>2. PICK x \in Consumers :
        /\ conn' = [conn EXCEPT ![c] = x]
        /\ \/ x.pc = "write" /\ x.page \in Pages
           \/ x.pc \in {"gone", "ready"} /\ x.page = Nowhere
  <2>1. CASE conn[c].goto \in Pages
    <3>1. conn' = [conn EXCEPT ![c] = On(c, conn[c].goto)]
      BY <2>1 DEF Depart
    <3>2. On(c, conn[c].goto) \in Consumers /\ On(c, conn[c].goto).pc = "write"
          /\ On(c, conn[c].goto).page \in Pages
      BY <1>1, <2>1, Landed
    <3> QED BY <3>1, <3>2
  <2>2. CASE conn[c].goto \notin Pages
    <3>1. [Connected EXCEPT !.pc = IF conn[c].goto = "end" THEN "gone" ELSE "ready"] \in Consumers
      BY DEF Connected, Consumers, Steps, Rosters, Empty
    <3> QED BY <1>1, <2>2, <3>1 DEF Depart, Connected
  <2> QED BY <2>1, <2>2
<1>3. conn'[c] = x /\ conn' \in [Conns -> Consumers] /\ \A d \in Conns : d # c => conn'[d] = conn[d]
  BY <1>1, <1>2 DEF PresenceTypeOK
<1>4. inbox' \in [Conns -> SUBSET Pages]
  <2>1. \A d \in Conns : inbox[d] \subseteq Pages
    BY <1>1 DEF PresenceTypeOK
  <2> QED BY <1>1, <2>1 DEF Depart
<1>5. PresenceTypeOK'
  BY <1>1, <1>3, <1>4 DEF PresenceTypeOK, Depart
<1>6. PageOK(c)' /\ Departed(c)'
  BY <1>1, <1>2, <1>3 DEF PageOK, Departed
<1>7. \A p \in Pages : Owned(p, c)'
  <2>1. \A p \in Pages : hash[p][c] \in Fresh => <<p, c>> \in strays
    BY <1>1 DEF PresenceInv, Owned, Departed
  <2> QED BY <1>3, <2>1 DEF Owned, Depart
<1> QED BY <1>3, <1>5, <1>6, <1>7, KeepsPresence DEF Untouched, Depart

\* It is on the page it asked for, field not yet written.
LEMMA JoinPresence ==
  ASSUME PresenceInv, NEW c \in Conns, Join(c)
  PROVE  PresenceInv'
<1> USE PresenceAssumption DEF PresenceAssumption
<1>1. conn[c] \in Consumers /\ conn[c].pc = "join" /\ PresenceTypeOK
      /\ conn[c].goto \in Pages /\ conn[c].page \in {Nowhere, conn[c].goto}
  BY DEF PresenceInv, PresenceTypeOK, Join, At, PageOK
<1> DEFINE x == On(c, conn[c].goto)
<1>2. x \in Consumers /\ x.page = conn[c].goto /\ x.pc = "write"
  BY <1>1, Landed
<1> HIDE DEF x
<1>3. conn' = [conn EXCEPT ![c] = x]
  BY DEF Join, x
<1>4. conn'[c] = x /\ conn' \in [Conns -> Consumers] /\ \A d \in Conns : d # c => conn'[d] = conn[d]
  BY <1>1, <1>2, <1>3 DEF PresenceTypeOK
<1>5. PresenceTypeOK'
  BY <1>1, <1>4 DEF PresenceTypeOK, Join
<1>6. PageOK(c)' /\ Departed(c)'
  BY <1>1, <1>2, <1>4 DEF PageOK, Departed
<1>7. \A p \in Pages : Owned(p, c)'
  BY <1>1, <1>2, <1>4 DEF Owned, Join, PresenceInv, Nowhere
<1> QED BY <1>4, <1>5, <1>6, <1>7, KeepsPresence DEF Untouched, Join

\* The field is written, or removed for a connection not to be shown.
LEMMA WritePresence ==
  ASSUME PresenceInv, NEW c \in Conns, Write(c)
  PROVE  PresenceInv'
<1> USE PresenceAssumption DEF PresenceAssumption
<1> DEFINE q == conn[c].page
           t == IF conn[c].tell THEN "tell" ELSE "ready"
<1>1. conn[c] \in Consumers /\ conn[c].pc = "write" /\ PresenceTypeOK /\ q \in Pages
  BY DEF PresenceInv, PresenceTypeOK, Write, At, PageOK
<1>2. conn' = [conn EXCEPT ![c] = [conn[c] EXCEPT !.pc = t]] /\ t \in Steps
  BY <1>1 DEF Write, PresenceTypeOK, Steps
<1>3. [conn[c] EXCEPT !.pc = t] \in Consumers
  BY <1>1, <1>2 DEF Consumers
<1>4. conn'[c].pc = t /\ conn'[c].page = q /\ conn'[c].visible = conn[c].visible
      /\ conn' \in [Conns -> Consumers] /\ \A d \in Conns : d # c => conn'[d] = conn[d]
  BY <1>1, <1>2, <1>3 DEF PresenceTypeOK, Consumers
<1>5. /\ hash' \in [Pages -> [Conns -> Fields]] /\ strays' \subseteq Pages \X Conns
      /\ faulty' \in BOOLEAN /\ acts' \in 0..MaxActs
      /\ hash'[q][c] \in Fresh => conn[c].visible \/ <<q, c>> \in strays'
      /\ \A p \in Pages, d \in Conns : p # q \/ d # c =>
           hash'[p][d] = hash[p][d] /\ (<<p, d>> \in strays' <=> <<p, d>> \in strays)
  <2>1. CASE conn[c].visible
    BY <1>1, <2>1, TouchOwned DEF Write, Put, PresenceTypeOK
  <2>2. CASE ~conn[c].visible
    BY <1>1, <2>2, HdelOwned DEF Write, Put
  <2> QED BY <2>1, <2>2
<1>6. PresenceTypeOK'
  BY <1>1, <1>4, <1>5 DEF PresenceTypeOK, Write
<1>7. PageOK(c)' /\ Departed(c)'
  BY <1>1, <1>4 DEF PageOK, Departed
<1>8. \A p \in Pages : Owned(p, c)'
  BY <1>1, <1>4, <1>5 DEF Owned, PresenceInv
<1> QED BY <1>4, <1>5, <1>6, <1>7, <1>8, KeepsPresence DEF Untouched

\* The group is told: nothing is written.
LEMMA BroadcastPresence ==
  ASSUME PresenceInv, NEW c \in Conns, Broadcast(c)
  PROVE  PresenceInv'
<1>1. conn[c] \in Consumers /\ conn[c].pc = "tell" /\ PresenceTypeOK /\ conn[c].page \in Pages
  BY DEF PresenceInv, PresenceTypeOK, Broadcast, At, PageOK
<1>2. conn' = [conn EXCEPT ![c] = [conn[c] EXCEPT !.pc = "ready"]]
  BY <1>1 DEF Broadcast, PresenceTypeOK
<1>3. [conn[c] EXCEPT !.pc = "ready"] \in Consumers
  BY <1>1 DEF Consumers, Steps
<1>4. conn'[c].pc = "ready" /\ conn'[c].page = conn[c].page /\ conn'[c].visible = conn[c].visible
      /\ conn' \in [Conns -> Consumers] /\ \A d \in Conns : d # c => conn'[d] = conn[d]
  BY <1>1, <1>2, <1>3 DEF PresenceTypeOK, Consumers
<1>5. inbox' \in [Conns -> SUBSET Pages]
  <2>1. \A d \in Conns : inbox[d] \subseteq Pages
    BY <1>1 DEF PresenceTypeOK
  <2> QED BY <1>1, <2>1 DEF Broadcast, Send
<1>6. PresenceTypeOK'
  BY <1>1, <1>4, <1>5 DEF PresenceTypeOK, Broadcast
<1>7. PageOK(c)' /\ Departed(c)'
  BY <1>4 DEF PageOK, Departed
<1>8. \A p \in Pages : Owned(p, c)'
  BY <1>1, <1>4 DEF Owned, PresenceInv, Broadcast
<1> QED BY <1>4, <1>6, <1>7, <1>8, KeepsPresence DEF Untouched, Broadcast

\* A heartbeat asks for a write, of the page the connection is on.
LEMMA HeartbeatPresence ==
  ASSUME PresenceInv, NEW c \in Conns, NEW i \in BOOLEAN, OnHeartbeat(c, i)
  PROVE  PresenceInv'
<1> USE PresenceAssumption DEF PresenceAssumption
<1> DEFINE x == [conn[c] EXCEPT !.pc = "write", !.idle = i,
                                !.tell = i # conn[c].told, !.told = i]
<1>1. conn[c] \in Consumers /\ conn[c].pc = "ready" /\ PresenceTypeOK /\ conn[c].page \in Pages
  BY DEF PresenceInv, PresenceTypeOK, OnHeartbeat, At, Consumers
<1>2. conn' = [conn EXCEPT ![c] = x]
  BY <1>1 DEF OnHeartbeat, Beat, PresenceTypeOK
<1>3. x \in Consumers /\ x.pc = "write" /\ x.page = conn[c].page /\ x.visible = conn[c].visible
  BY <1>1 DEF Consumers, Steps
<1> HIDE DEF x
<1>4. conn'[c] = x /\ conn' \in [Conns -> Consumers] /\ \A d \in Conns : d # c => conn'[d] = conn[d]
  BY <1>1, <1>2, <1>3 DEF PresenceTypeOK
<1>5. acts' \in 0..MaxActs /\ faulty' \in BOOLEAN
  BY <1>1 DEF OnHeartbeat, NoFault, Act, PresenceTypeOK
<1>6. PresenceTypeOK'
  BY <1>1, <1>4, <1>5 DEF PresenceTypeOK, OnHeartbeat
<1>7. PageOK(c)' /\ Departed(c)'
  BY <1>1, <1>3, <1>4 DEF PageOK, Departed
<1>8. \A p \in Pages : Owned(p, c)'
  BY <1>1, <1>3, <1>4 DEF Owned, PresenceInv, OnHeartbeat
<1> QED BY <1>4, <1>6, <1>7, <1>8, KeepsPresence DEF Untouched, OnHeartbeat

\* The socket closes: the connection forgets its page first, if it is on one.
LEMMA DisconnectPresence ==
  ASSUME PresenceInv, NEW c \in Conns, Disconnect(c)
  PROVE  PresenceInv'
<1> USE PresenceAssumption DEF PresenceAssumption
<1>1. conn[c] \in Consumers /\ conn[c].pc = "ready" /\ PresenceTypeOK
  BY DEF PresenceInv, PresenceTypeOK, Disconnect, At
<1>2. PICK x \in Consumers :
        /\ conn' = [conn EXCEPT ![c] = x] /\ x.page = conn[c].page
        /\ \/ x.pc = "gone" /\ x.page = Nowhere
           \/ x.pc = "forget" /\ x.page \in Pages /\ x.visible = conn[c].visible
  <2>1. CASE conn[c].page = Nowhere
    <3>1. [Connected EXCEPT !.pc = "gone"] \in Consumers
      BY DEF Connected, Consumers, Steps, Rosters, Empty
    <3> QED BY <2>1, <3>1 DEF Disconnect, Connected
  <2>2. CASE conn[c].page # Nowhere
    <3> DEFINE x == [conn[c] EXCEPT !.pc = "forget", !.goto = "end"]
    <3>1. conn' = [conn EXCEPT ![c] = x]
      BY <1>1, <2>2 DEF Disconnect, PresenceTypeOK
    <3>2. x \in Consumers /\ x.pc = "forget" /\ x.page = conn[c].page /\ x.page \in Pages
          /\ x.visible = conn[c].visible
      BY <1>1, <2>2 DEF Consumers, Steps
    <3> QED BY <3>1, <3>2
  <2> QED BY <2>1, <2>2
<1>3. conn'[c] = x /\ conn' \in [Conns -> Consumers] /\ \A d \in Conns : d # c => conn'[d] = conn[d]
  BY <1>1, <1>2 DEF PresenceTypeOK
<1>4. inbox' \in [Conns -> SUBSET Pages]
  BY <1>1 DEF Disconnect, PresenceTypeOK
<1>5. PresenceTypeOK'
  BY <1>1, <1>3, <1>4 DEF PresenceTypeOK, Disconnect
<1>6. PageOK(c)' /\ Departed(c)'
  BY <1>2, <1>3 DEF PageOK, Departed
<1>7. \A p \in Pages : Owned(p, c)'
  BY <1>1, <1>2, <1>3 DEF Owned, PresenceInv, Disconnect, Nowhere
<1> QED BY <1>3, <1>5, <1>6, <1>7, KeepsPresence DEF Untouched, Disconnect

\* A roster read: of a page with expired fields, it goes on to delete them.
LEMMA RosterChangedPresence ==
  ASSUME PresenceInv, NEW c \in Conns, NEW p \in Pages, RosterChanged(c, p)
  PROVE  PresenceInv'
<1> USE PresenceAssumption DEF PresenceAssumption
<1>1. conn[c] \in Consumers /\ conn[c].pc = "ready" /\ PresenceTypeOK
  BY DEF PresenceInv, PresenceTypeOK, RosterChanged, At
<1>2. Viewers(p) \in Rosters /\ Stale(p) \subseteq Conns /\ Empty \in Rosters
  BY DEF Viewers, Rosters, Stale, Empty
<1>3. PICK x \in Consumers :
        /\ conn' = [conn EXCEPT ![c] = x]
        /\ x.page = conn[c].page /\ x.visible = conn[c].visible
        /\ x.pc = "ready" \/ (x.pc = "sweep" /\ x.page \in Pages)
  <2>1. CASE conn' = [conn EXCEPT ![c].shown = Viewers(p)]
    <3>1. [conn[c] EXCEPT !.shown = Viewers(p)] \in Consumers
      BY <1>1, <1>2 DEF Consumers
    <3> QED BY <1>1, <2>1, <3>1 DEF Consumers, PresenceTypeOK
  <2>2. CASE p = conn[c].page /\ conn' = [conn EXCEPT ![c].pc = "sweep", ![c].seen = Viewers(p),
                                       ![c].stale = Stale(p)]
    <3> DEFINE x == [conn[c] EXCEPT !.pc = "sweep", !.seen = Viewers(p), !.stale = Stale(p)]
    <3>1. x \in Consumers /\ x.pc = "sweep" /\ x.page = p /\ x.visible = conn[c].visible
      BY <1>1, <1>2, <2>2 DEF Consumers, Steps
    <3>2. conn' = [conn EXCEPT ![c] = x]
      BY <1>1, <2>2 DEF PresenceTypeOK
    <3> QED BY <2>2, <3>1, <3>2
  <2>3. CASE conn' = [conn EXCEPT ![c].shown = Empty]
    <3>1. [conn[c] EXCEPT !.shown = Empty] \in Consumers
      BY <1>1, <1>2 DEF Consumers
    <3> QED BY <1>1, <2>3, <3>1 DEF Consumers, PresenceTypeOK
  <2>4. CASE UNCHANGED conn
    BY <1>1, <2>4 DEF PresenceTypeOK
  <2> QED BY <2>1, <2>2, <2>3, <2>4 DEF RosterChanged
<1>4. conn'[c] = x /\ conn' \in [Conns -> Consumers] /\ \A d \in Conns : d # c => conn'[d] = conn[d]
  BY <1>1, <1>3 DEF PresenceTypeOK
<1>5. acts' \in 0..MaxActs /\ faulty' \in BOOLEAN /\ inbox' \in [Conns -> SUBSET Pages]
  <2>1. inbox' \in [Conns -> SUBSET Pages]
    BY <1>1 DEF RosterChanged, PresenceTypeOK
  <2> QED BY <1>1, <2>1, ActsCounted DEF RosterChanged
<1>6. PresenceTypeOK'
  BY <1>1, <1>4, <1>5 DEF PresenceTypeOK, RosterChanged
<1>7. PageOK(c)' /\ Departed(c)'
  BY <1>3, <1>4 DEF PageOK, Departed
<1>8. \A q \in Pages : Owned(q, c)'
  BY <1>1, <1>3, <1>4 DEF Owned, PresenceInv, RosterChanged
<1> QED BY <1>4, <1>6, <1>7, <1>8, KeepsPresence DEF Untouched, RosterChanged

\* The deletion takes fields away, whoever they belong to.
LEMMA SweepPresence ==
  ASSUME PresenceInv, NEW c \in Conns, Sweep(c)
  PROVE  PresenceInv'
<1> USE PresenceAssumption DEF PresenceAssumption
<1> DEFINE q == conn[c].page
           S == conn[c].stale
<1>1. conn[c] \in Consumers /\ conn[c].pc = "sweep" /\ PresenceTypeOK /\ q \in Pages
      /\ S \subseteq Conns /\ PageOK(c) /\ \A p \in Pages : Owned(p, c)
  BY DEF PresenceInv, PresenceTypeOK, Sweep, At, PageOK, Consumers
<1>2. PICK v \in Rosters : conn' = [conn EXCEPT ![c].pc = "ready", ![c].shown = v,
                                ![c].seen = Empty, ![c].stale = {}]
  BY <1>1 DEF Sweep, Consumers, Rosters, Empty
<1> DEFINE x == [conn[c] EXCEPT !.pc = "ready", !.shown = v, !.seen = Empty, !.stale = {}]
<1>3. x \in Consumers /\ x.pc = "ready" /\ x.page = q /\ x.visible = conn[c].visible
  <2>1. Empty \in Rosters
    BY DEF Empty, Rosters
  <2> QED BY <1>1, <2>1 DEF Consumers, Steps
<1>4. conn' = [conn EXCEPT ![c] = x]
  BY <1>1, <1>2 DEF PresenceTypeOK
<1> HIDE DEF x
<1>5. conn'[c] = x /\ conn' \in [Conns -> Consumers] /\ \A d \in Conns : d # c => conn'[d] = conn[d]
  BY <1>1, <1>3, <1>4 DEF PresenceTypeOK
<1>6. /\ hash' \in [Pages -> [Conns -> Fields]] /\ strays' \subseteq strays
      /\ \A p \in Pages, d \in Conns :
           hash'[p][d] \in Fresh =>
             hash[p][d] \in Fresh /\ (<<p, d>> \in strays => <<p, d>> \in strays')
  <2>1. CASE /\ hash' = [hash EXCEPT ![q] = [d \in Conns |-> IF d \in S THEN "absent" ELSE @[d]]]
             /\ strays' = strays \ ({q} \X S)
    <3>1. hash' \in [Pages -> [Conns -> Fields]]
          /\ \A d \in Conns : hash'[q][d] = (IF d \in S THEN "absent" ELSE hash[q][d])
          /\ \A p \in Pages : p # q => hash'[p] = hash[p]
      <4> DEFINE row == [d \in Conns |-> IF d \in S THEN "absent" ELSE hash[q][d]]
      <4>1. row \in [Conns -> Fields]
        BY <1>1 DEF PresenceTypeOK, Fields
      <4>2. hash' = [hash EXCEPT ![q] = row]
        BY <1>1, <2>1 DEF PresenceTypeOK
      <4>3. hash'[q] = row /\ hash' \in [Pages -> [Conns -> Fields]]
            /\ \A p \in Pages : p # q => hash'[p] = hash[p]
        <5> HIDE DEF row
        <5> QED BY <1>1, <4>1, <4>2 DEF PresenceTypeOK
      <4> QED BY <4>3
    <3> QED BY <1>1, <2>1, <3>1 DEF Fresh
  <2>2. CASE UNCHANGED <<hash, strays>>
    BY <1>1, <2>2 DEF PresenceTypeOK
  <2> QED BY <2>1, <2>2 DEF Sweep
<1>7. acts' \in 0..MaxActs /\ faulty' \in BOOLEAN
  BY <1>1, ActsCounted DEF Sweep
<1>8. PresenceTypeOK'
  BY <1>1, <1>5, <1>6, <1>7 DEF PresenceTypeOK, Sweep
<1>9. PageOK(c)' /\ Departed(c)'
  BY <1>1, <1>3, <1>5 DEF PageOK, Departed
<1>10. \A p \in Pages : Owned(p, c)'
  BY <1>1, <1>3, <1>5, <1>6 DEF Owned
<1> QED BY <1>5, <1>6, <1>8, <1>9, <1>10, KeepsPresence DEF Untouched

\* A client that vanishes leaves its field to lapse.
LEMMA VanishPresence ==
  ASSUME PresenceInv, NEW c \in Conns, Vanish(c)
  PROVE  PresenceInv'
<1> USE PresenceAssumption DEF PresenceAssumption
<1> DEFINE x == [Connected EXCEPT !.pc = "lost"]
<1>1. PresenceTypeOK
  BY DEF PresenceInv
<1>2. x \in Consumers /\ x.pc = "lost" /\ x.page = Nowhere
  BY DEF Connected, Consumers, Steps, Rosters, Empty
<1> HIDE DEF x
<1>3. conn' = [conn EXCEPT ![c] = x]
  BY DEF Vanish, x
<1>4. conn'[c] = x /\ conn' \in [Conns -> Consumers] /\ \A d \in Conns : d # c => conn'[d] = conn[d]
  BY <1>1, <1>2, <1>3 DEF PresenceTypeOK
<1>5. acts' \in 0..MaxActs /\ faulty' \in BOOLEAN /\ inbox' \in [Conns -> SUBSET Pages]
  BY <1>1, ActsCounted DEF Vanish, PresenceTypeOK
<1>6. PresenceTypeOK'
  BY <1>1, <1>4, <1>5 DEF PresenceTypeOK, Vanish
<1>7. PageOK(c)' /\ Departed(c)' /\ \A q \in Pages : Owned(q, c)'
  BY <1>2, <1>4 DEF PageOK, Departed, Owned
<1> QED BY <1>4, <1>6, <1>7, KeepsPresence DEF Untouched, Vanish

\* A field lapses, and is no stray any more.
LEMMA LapsePresence ==
  ASSUME PresenceInv, NEW p \in Pages, NEW c \in Conns, Lapse(p, c)
  PROVE  PresenceInv'
<1> USE PresenceAssumption DEF PresenceAssumption
<1>1. PresenceTypeOK
  BY DEF PresenceInv
<1>2. hash' \in [Pages -> [Conns -> Fields]] /\ hash'[p][c] = "expired"
      /\ \A q \in Pages, d \in Conns : q # p \/ d # c => hash'[q][d] = hash[q][d]
  BY <1>1 DEF Lapse, PresenceTypeOK, Fields
<1>3. acts' \in 0..MaxActs /\ faulty' \in BOOLEAN
  BY <1>1, ActsCounted DEF Lapse
<1>4. PresenceTypeOK'
  BY <1>1, <1>2, <1>3 DEF PresenceTypeOK, Lapse
<1>5. \A d \in Conns : Untouched(d)
  BY <1>2 DEF Untouched, Lapse, Fresh
<1> QED BY <1>4, <1>5, MovesNobody

\* The key of a page expires with every field of it.
LEMMA KeyExpiresPresence ==
  ASSUME PresenceInv, NEW p \in Pages, KeyExpires(p)
  PROVE  PresenceInv'
<1>1. PresenceTypeOK
  BY DEF PresenceInv
<1> DEFINE row == [c \in Conns |-> "absent"]
<1>2. row \in [Conns -> Fields] /\ \A c \in Conns : row[c] = "absent"
  BY DEF Fields
<1>3. hash' = [hash EXCEPT ![p] = row]
  BY DEF KeyExpires
<1> HIDE DEF row
<1>4. hash' \in [Pages -> [Conns -> Fields]]
      /\ \A q \in Pages, d \in Conns : hash'[q][d] = hash[q][d] \/ hash'[q][d] = "absent"
  BY <1>1, <1>2, <1>3 DEF PresenceTypeOK
<1>5. PresenceTypeOK'
  BY <1>1, <1>4 DEF PresenceTypeOK, KeyExpires
<1>6. \A d \in Conns : Untouched(d)
  BY <1>4 DEF Untouched, KeyExpires, Fresh
<1> QED BY <1>5, <1>6, MovesNobody

\* Preferences and memberships decide later enters only.
LEMMA SettingsPresence ==
  ASSUME PresenceInv, NEW u \in Users, SetPreference(u) \/ \E p \in Tenants : Revoke(u, p)
  PROVE  PresenceInv'
<1> USE PresenceAssumption DEF PresenceAssumption
<1>1. PresenceTypeOK
  BY DEF PresenceInv
<1>2. acts' \in 0..MaxActs /\ faulty' \in BOOLEAN
  BY <1>1, ActsCounted DEF SetPreference, Revoke
<1>3. hidden' \subseteq Users /\ members' \subseteq Users \X Tenants
  BY <1>1 DEF SetPreference, Revoke, PresenceTypeOK
<1>4. UNCHANGED <<hash, conn, inbox, strays>>
  BY DEF SetPreference, Revoke
<1>5. PresenceTypeOK'
  BY <1>1, <1>2, <1>3, <1>4 DEF PresenceTypeOK
<1>6. \A d \in Conns : Untouched(d)
  BY <1>4 DEF Untouched
<1> QED BY <1>5, <1>6, MovesNobody

\* Every step keeps the strengthening.
LEMMA PresenceStep == PresenceInv /\ [PresenceNext]_presenceVars => PresenceInv'
<1> SUFFICES ASSUME PresenceInv, [PresenceNext]_presenceVars PROVE PresenceInv'
  OBVIOUS
<1>1. ASSUME NEW c \in Conns, Consumer(c) PROVE PresenceInv'
  BY <1>1, ForgetPresence, DepartPresence, JoinPresence, WritePresence, BroadcastPresence,
     SweepPresence, RosterChangedPresence DEF Consumer
<1>2. ASSUME NEW c \in Conns, Disconnect(c) \/ Vanish(c) PROVE PresenceInv'
  BY <1>2, DisconnectPresence, VanishPresence
<1>3. ASSUME NEW c \in Conns, NEW p \in Pages \cup {Nowhere}, Enter(c, p) PROVE PresenceInv'
  BY <1>3, EnterPresence
<1>4. ASSUME NEW c \in Conns, NEW i \in BOOLEAN, OnHeartbeat(c, i) PROVE PresenceInv'
  BY <1>4, HeartbeatPresence
<1>5. ASSUME NEW p \in Pages, KeyExpires(p) \/ \E c \in Conns : Lapse(p, c) PROVE PresenceInv'
  BY <1>5, LapsePresence, KeyExpiresPresence
<1>6. ASSUME NEW u \in Users, SetPreference(u) \/ \E p \in Tenants : Revoke(u, p) PROVE PresenceInv'
  BY <1>6, SettingsPresence
<1>7. CASE UNCHANGED presenceVars
  BY <1>7 DEF presenceVars, PresenceInv, PresenceTypeOK, PageOK, Departed, Owned
<1> QED BY <1>1, <1>2, <1>3, <1>4, <1>5, <1>6, <1>7 DEF PresenceNext

\* The type invariant of Presence, for any connections, users, pages and faults.
THEOREM PresenceTypeCorrect == PresenceSpec => []PresenceTypeOK
<1>1. PresenceInv => PresenceTypeOK
  BY DEF PresenceInv
<1> QED BY <1>1, PresenceInitInv, PresenceStep, PTL DEF PresenceSpec

\* A fresh field is one of a connection on that page that agreed to be shown, or
\* one whose removal failed, or one of a lost connection.
THEOREM FieldsHaveOwners == PresenceSpec => []NoGhosts
<1>1. PresenceInv => NoGhosts
  BY DEF PresenceInv, Owned, NoGhosts
<1> QED BY <1>1, PresenceInitInv, PresenceStep, PTL DEF PresenceSpec

-----------------------------------------------------------------------------
(* Presence: what is on the screens, until a call fails, a field lapses or a  *)
(* client is lost.                                                           *)

\* What the field of a connection says once it is written.
Mark(c) == IF ~conn[c].visible THEN "absent" ELSE IF conn[c].idle THEN "idle" ELSE "active"

\* Page p is about to be told of what d did there.
Untold(d)     == conn[d].pc = "write" /\ conn[d].tell
Telling(d, p) == conn[d].page = p /\ (conn[d].pc \in {"tell", "depart"} \/ Untold(d))

\* The field of d on p: none where d is not, and its mark where d is, once written.
HashOK(p, d) ==
  /\ hash[p][d] # "expired"
  /\ conn[d].page # p \/ conn[d].pc = "depart" => hash[p][d] = "absent"
  /\ conn[d].page = p /\ conn[d].pc # "depart" /\ ~Untold(d) => hash[p][d] = Mark(d)

\* Nobody swept or was lost, and every idle flag has been told or is about to be.
Steady(c) == conn[c].pc \notin {"lost", "sweep"} /\ conn[c].told = conn[c].idle

\* A screen is right, or about to be refreshed, or somebody is about to see to it.
ShownOK(c) == \A p \in Pages : conn[c].page = p =>
  \/ p \in inbox[c]
  \/ conn[c].shown = Viewers(p)
  \/ \E d \in Conns : Telling(d, p)

Screens ==
  /\ strays = {}
  /\ \A c \in Conns : Steady(c) /\ ShownOK(c)
  /\ \A p \in Pages, d \in Conns : HashOK(p, d)

ScreenInv == ~faulty => Screens

\* Nobody is on a page at the start.
LEMMA ScreenInitInv == PresenceInit => ScreenInv
<1> SUFFICES ASSUME PresenceInit PROVE Screens
  BY DEF ScreenInv
<1> USE PresenceAssumption DEF PresenceAssumption, PresenceInit
<1>1. \A c \in Conns : Steady(c) /\ ShownOK(c)
  BY DEF Steady, ShownOK, Connected, Nowhere
<1>2. \A p \in Pages, d \in Conns : HashOK(p, d)
  BY DEF HashOK, Connected, Nowhere
<1> QED BY <1>1, <1>2 DEF Screens

\* Nothing changed in the hash of a page: neither did its viewers.
LEMMA SameViewers ==
  ASSUME NEW p, \A d \in Conns : hash'[p][d] = hash[p][d]
  PROVE  Viewers(p)' = Viewers(p)
<1>1. \A u : FreshOf(p, u)' = FreshOf(p, u)
  BY DEF FreshOf
<1>2. \A u : \A d \in FreshOf(p, u) : hash'[p][d] = hash[p][d]
  BY DEF FreshOf
<1> QED BY <1>1, <1>2 DEF Viewers

\* Screens outlive a step of one consumer that tells, or will tell, every page
\* it changes.
LEMMA KeepsScreens ==
  ASSUME Screens, NEW c \in Conns, strays' = {}, Steady(c)',
         \A d \in Conns : d # c => conn'[d] = conn[d] /\ inbox[d] \subseteq inbox'[d],
         \A p \in Pages : \A d \in Conns : d # c => hash'[p][d] = hash[p][d],
         \A p \in Pages : HashOK(p, c)',
         \A p \in Pages :
           \/ Telling(c, p)'
           \/ \A d \in Conns : d # c /\ conn[d].page = p => p \in inbox'[d]
           \/ hash'[p][c] = hash[p][c] /\ ~Telling(c, p),
         \A p \in Pages : conn'[c].page = p =>
           \/ Telling(c, p)' \/ p \in inbox'[c] \/ conn'[c].shown = Viewers(p)'
           \/ /\ conn[c].page = p /\ conn'[c].shown = conn[c].shown
              /\ inbox[c] \subseteq inbox'[c]
              /\ hash'[p][c] = hash[p][c] /\ ~Telling(c, p)
  PROVE  Screens'
<1>1. ASSUME NEW d \in Conns, d # c PROVE Steady(d)' /\ \A p \in Pages : HashOK(p, d)'
  <2>1. conn'[d] = conn[d] /\ Steady(d) /\ \A p \in Pages : HashOK(p, d) /\ hash'[p][d] = hash[p][d]
    BY <1>1 DEF Screens
  <2> QED BY <2>1 DEF Steady, HashOK, Untold, Mark
<1>2. ASSUME NEW p \in Pages, NEW d \in Conns, conn[d].page = p, conn'[d].page = p,
             conn'[d].shown = conn[d].shown, inbox[d] \subseteq inbox'[d],
             hash'[p][c] = hash[p][c], ~Telling(c, p)
      PROVE  p \in inbox'[d] \/ conn'[d].shown = Viewers(p)' \/ \E e \in Conns : Telling(e, p)'
  <2>1. Viewers(p)' = Viewers(p)
    <3>1. \A e \in Conns : hash'[p][e] = hash[p][e]
      BY <1>2
    <3> QED BY <3>1, SameViewers
  <2>2. \A e \in Conns : Telling(e, p) => Telling(e, p)'
    <3> TAKE e \in Conns
    <3>1. Telling(e, p) => conn'[e] = conn[e]
      BY <1>2
    <3> QED BY <3>1 DEF Telling, Untold
  <2>3. p \in inbox[d] \/ conn[d].shown = Viewers(p) \/ \E e \in Conns : Telling(e, p)
    BY <1>2 DEF Screens, ShownOK
  <2> QED BY <1>2, <2>1, <2>2, <2>3
<1>3. \A d \in Conns : ShownOK(d)'
  <2> SUFFICES ASSUME NEW d \in Conns, NEW p \in Pages, conn'[d].page = p
               PROVE  \/ p \in inbox'[d] \/ conn'[d].shown = Viewers(p)'
                      \/ \E e \in Conns : Telling(e, p)'
    BY DEF ShownOK
  <2>1. CASE d = c
    BY <1>2, <2>1
  <2>2. CASE d # c
    <3>1. conn'[d] = conn[d] /\ inbox[d] \subseteq inbox'[d]
      BY <2>2
    <3> QED BY <1>2, <2>2, <3>1
  <2> QED BY <2>1, <2>2
<1> QED BY <1>1, <1>3 DEF Screens

\* The same, of a step that changes nothing a screen could show.
LEMMA ShowsNothingNew ==
  ASSUME Screens, NEW c \in Conns, Steady(c)',
         UNCHANGED <<hash, strays>>,
         conn[c].pc \notin {"tell", "depart", "write"},
         \A d \in Conns : d # c => conn'[d] = conn[d] /\ inbox[d] \subseteq inbox'[d],
         \A p \in Pages : HashOK(p, c)',
         \A p \in Pages : conn'[c].page = p =>
           \/ Telling(c, p)' \/ conn'[c].shown = Viewers(p)'
           \/ conn[c].page = p /\ conn'[c].shown = conn[c].shown /\ inbox[c] \subseteq inbox'[c]
  PROVE  Screens'
<1>1. \A p \in Pages : hash'[p][c] = hash[p][c] /\ ~Telling(c, p)
  BY DEF Telling, Untold
<1>2. strays' = {}
  BY DEF Screens
<1> QED BY <1>1, <1>2, KeepsScreens

\* An enter sends the connection on its way; nothing is shown yet.
LEMMA EnterScreens ==
  ASSUME PresenceInv, Screens, NEW c \in Conns, NEW p \in Pages \cup {Nowhere}, Enter(c, p)
  PROVE  Screens'
<1>1. conn[c] \in Consumers /\ conn[c].pc = "ready" /\ PresenceTypeOK
      /\ Steady(c) /\ \A q \in Pages : HashOK(q, c)
  BY DEF PresenceInv, PresenceTypeOK, Enter, At, Screens
<1>2. PICK r, g : conn' = [conn EXCEPT ![c].pc = r, ![c].goto = g] /\ r \in {"ready", "join", "forget"}
  BY <1>1 DEF Enter, Route
<1>3. conn'[c].pc = r /\ conn'[c].page = conn[c].page /\ conn'[c].visible = conn[c].visible
      /\ conn'[c].idle = conn[c].idle /\ conn'[c].told = conn[c].told
      /\ conn'[c].shown = conn[c].shown /\ \A d \in Conns : d # c => conn'[d] = conn[d]
  BY <1>1, <1>2 DEF PresenceTypeOK, Consumers
<1>4. Steady(c)' /\ \A q \in Pages : HashOK(q, c)'
  BY <1>1, <1>2, <1>3 DEF Steady, HashOK, Untold, Mark, Enter
<1> QED BY <1>1, <1>3, <1>4, ShowsNothingNew DEF Enter

\* A field taken away is told of next, by the departure.
LEMMA ForgetScreens ==
  ASSUME PresenceInv, Screens, NEW c \in Conns, Forget(c), ~faulty'
  PROVE  Screens'
<1> DEFINE q == conn[c].page
<1>1. conn[c] \in Consumers /\ conn[c].pc = "forget" /\ PresenceTypeOK /\ q \in Pages
      /\ Steady(c) /\ \A p \in Pages : HashOK(p, c)
  BY DEF PresenceInv, PresenceTypeOK, Forget, At, PageOK, Screens
<1>2. conn'[c].pc = "depart" /\ conn'[c].page = q /\ conn'[c].idle = conn[c].idle
      /\ conn'[c].told = conn[c].told /\ \A d \in Conns : d # c => conn'[d] = conn[d]
  BY <1>1 DEF Forget, PresenceTypeOK, Consumers
<1>3. hash'[q][c] = "absent" /\ strays' = {}
      /\ \A p \in Pages, d \in Conns : p # q \/ d # c => hash'[p][d] = hash[p][d]
  <2>1. CASE conn[c].visible
    <3>1. hash' = [hash EXCEPT ![q][c] = "absent"] /\ strays' = strays \ {<<q, c>>}
      BY <2>1 DEF Forget, MustForget, Hdel, Mishap, Forgotten
    <3> QED BY <1>1, <3>1 DEF PresenceTypeOK, Screens
  <2>2. CASE ~conn[c].visible
    <3>1. hash[q][c] = "absent"
      BY <1>1, <2>2 DEF HashOK, Untold, Mark
    <3> QED BY <2>2, <3>1 DEF Forget, MustForget, Screens
  <2> QED BY <2>1, <2>2
<1>4. Steady(c)' /\ \A p \in Pages : HashOK(p, c)'
  BY <1>1, <1>2, <1>3 DEF Steady, HashOK, Untold
<1>5. Telling(c, q)' /\ \A p \in Pages : p # q => ~Telling(c, p)
  BY <1>2 DEF Telling
<1> QED BY <1>2, <1>3, <1>4, <1>5, KeepsScreens DEF Forget

\* The page that is left is told; the next one will be.
LEMMA DepartScreens ==
  ASSUME PresenceInv, Screens, NEW c \in Conns, Depart(c)
  PROVE  Screens'
<1> USE PresenceAssumption DEF PresenceAssumption
<1> DEFINE q == conn[c].page
<1>1. conn[c] \in Consumers /\ conn[c].pc = "depart" /\ PresenceTypeOK /\ q \in Pages
      /\ Steady(c) /\ \A p \in Pages : HashOK(p, c)
  BY DEF PresenceInv, PresenceTypeOK, Depart, At, PageOK, Screens
<1>2. \A p \in Pages : hash[p][c] = "absent"
  BY <1>1 DEF HashOK
<1>3. PICK x \in Consumers :
        /\ conn' = [conn EXCEPT ![c] = x] /\ x.told = x.idle
        /\ \/ x.pc = "write" /\ x.tell /\ x.page \in Pages
           \/ x.pc \in {"gone", "ready"} /\ x.page = Nowhere
  <2>1. CASE conn[c].goto \in Pages
    <3>1. conn' = [conn EXCEPT ![c] = On(c, conn[c].goto)]
      BY <2>1 DEF Depart
    <3> DEFINE y == On(c, conn[c].goto)
    <3>2. y \in Consumers /\ y.pc = "write" /\ y.tell /\ y.page \in Pages
      BY <1>1, <2>1, Landed
    <3>3. y.told = y.idle
      BY <1>1, <2>1, <3>2, Landed DEF Steady, Consumers
    <3> QED BY <3>1, <3>2, <3>3
  <2>2. CASE conn[c].goto \notin Pages
    <3>1. [Connected EXCEPT !.pc = IF conn[c].goto = "end" THEN "gone" ELSE "ready"] \in Consumers
      BY DEF Connected, Consumers, Steps, Rosters, Empty
    <3> QED BY <1>1, <2>2, <3>1 DEF Depart, Connected
  <2> QED BY <2>1, <2>2
<1>4. conn'[c] = x /\ \A d \in Conns : d # c => conn'[d] = conn[d]
  BY <1>1, <1>3 DEF PresenceTypeOK
<1>5. Steady(c)' /\ \A p \in Pages : HashOK(p, c)'
  BY <1>2, <1>3, <1>4 DEF Steady, HashOK, Untold, Depart, Nowhere
<1>6. \A p \in Pages : conn'[c].page = p => Telling(c, p)'
  BY <1>3, <1>4 DEF Telling, Untold, Nowhere
<1>7. \A d \in Conns : d # c =>
        inbox[d] \subseteq inbox'[d] /\ (conn[d].page = q => q \in inbox'[d])
  BY <1>1 DEF Depart, Group
<1>8. \A p \in Pages : p # q => ~Telling(c, p)
  BY DEF Telling
<1> QED BY <1>4, <1>5, <1>6, <1>7, <1>8, KeepsScreens DEF Depart, Screens

\* A page that is joined is told once the field is written.
LEMMA JoinScreens ==
  ASSUME PresenceInv, Screens, NEW c \in Conns, Join(c)
  PROVE  Screens'
<1> USE PresenceAssumption DEF PresenceAssumption
<1>1. conn[c] \in Consumers /\ conn[c].pc = "join" /\ PresenceTypeOK
      /\ conn[c].goto \in Pages /\ conn[c].page \in {Nowhere, conn[c].goto}
      /\ Steady(c) /\ \A p \in Pages : HashOK(p, c)
  BY DEF PresenceInv, PresenceTypeOK, Join, At, PageOK, Screens
<1> DEFINE x == On(c, conn[c].goto)
<1>2. x.page = conn[c].goto /\ x.pc = "write" /\ x.tell /\ x.told = x.idle
  <2>1. x \in Consumers /\ x.page = conn[c].goto /\ x.pc = "write" /\ x.tell
    BY <1>1, Landed
  <2>2. x.told = x.idle
    BY <1>1, <2>1, Landed DEF Steady, Consumers
  <2> QED BY <2>1, <2>2
<1>3. conn' = [conn EXCEPT ![c] = x]
  BY DEF Join
<1> HIDE DEF x
<1>4. conn'[c] = x /\ \A d \in Conns : d # c => conn'[d] = conn[d]
  BY <1>1, <1>3 DEF PresenceTypeOK
<1>5. Steady(c)' /\ \A p \in Pages : HashOK(p, c)'
  BY <1>1, <1>2, <1>4 DEF Steady, HashOK, Untold, Join, Nowhere
<1>6. \A p \in Pages : conn'[c].page = p => Telling(c, p)'
  BY <1>2, <1>4 DEF Telling, Untold
<1> QED BY <1>1, <1>4, <1>5, <1>6, ShowsNothingNew DEF Join

\* A field written anew is told of next; a keepalive writes what was there.
LEMMA WriteScreens ==
  ASSUME PresenceInv, Screens, NEW c \in Conns, Write(c), ~faulty'
  PROVE  Screens'
<1> DEFINE q == conn[c].page
<1>1. conn[c] \in Consumers /\ conn[c].pc = "write" /\ PresenceTypeOK /\ q \in Pages
      /\ Steady(c) /\ \A p \in Pages : HashOK(p, c)
  BY DEF PresenceInv, PresenceTypeOK, Write, At, PageOK, Screens
<1>2. /\ conn'[c].pc = IF conn[c].tell THEN "tell" ELSE "ready"
      /\ conn'[c].page = q /\ conn'[c].idle = conn[c].idle /\ conn'[c].told = conn[c].told
      /\ conn'[c].visible = conn[c].visible /\ conn'[c].shown = conn[c].shown
      /\ \A d \in Conns : d # c => conn'[d] = conn[d]
  BY <1>1 DEF Write, PresenceTypeOK, Consumers
<1>3. hash'[q][c] = Mark(c) /\ strays' = {}
      /\ \A p \in Pages, d \in Conns : p # q \/ d # c => hash'[p][d] = hash[p][d]
  <2>1. CASE conn[c].visible
    <3>1. hash' = [hash EXCEPT ![q][c] = Mark(c)] /\ UNCHANGED strays
      BY <2>1 DEF Write, Put, Touch, Mishap, Mark
    <3> QED BY <1>1, <3>1 DEF PresenceTypeOK, Screens
  <2>2. CASE ~conn[c].visible
    <3>1. hash' = [hash EXCEPT ![q][c] = "absent"] /\ strays' = strays \ {<<q, c>>}
      BY <2>2 DEF Write, Put, Hdel, Mishap, Forgotten
    <3> QED BY <1>1, <2>2, <3>1 DEF PresenceTypeOK, Screens, Mark
  <2> QED BY <2>1, <2>2
<1>4. Mark(c)' = Mark(c) /\ Mark(c) # "expired"
  BY <1>2 DEF Mark
<1>5. Steady(c)' /\ \A p \in Pages : HashOK(p, c)'
  BY <1>1, <1>2, <1>3, <1>4 DEF Steady, HashOK, Untold
<1>6. \A p \in Pages : p # q => ~Telling(c, p)
  BY DEF Telling
<1>7. CASE conn[c].tell
  <2>1. Telling(c, q)'
    BY <1>2, <1>7 DEF Telling
  <2> QED BY <1>2, <1>3, <1>5, <1>6, <2>1, KeepsScreens DEF Write
<1>8. CASE ~conn[c].tell
  <2>1. ~Telling(c, q) /\ hash[q][c] = Mark(c)
    BY <1>1, <1>8 DEF Telling, Untold, HashOK
  <2> QED BY <1>2, <1>3, <1>5, <1>6, <2>1, KeepsScreens DEF Write
<1> QED BY <1>7, <1>8

\* Everybody on the page is told.
LEMMA BroadcastScreens ==
  ASSUME PresenceInv, Screens, NEW c \in Conns, Broadcast(c)
  PROVE  Screens'
<1> DEFINE q == conn[c].page
<1>1. conn[c] \in Consumers /\ conn[c].pc = "tell" /\ PresenceTypeOK /\ q \in Pages
      /\ Steady(c) /\ \A p \in Pages : HashOK(p, c)
  BY DEF PresenceInv, PresenceTypeOK, Broadcast, At, PageOK, Screens
<1>2. conn'[c].pc = "ready" /\ conn'[c].page = q /\ conn'[c].visible = conn[c].visible
      /\ conn'[c].idle = conn[c].idle /\ conn'[c].told = conn[c].told
      /\ \A d \in Conns : d # c => conn'[d] = conn[d]
  BY <1>1 DEF Broadcast, PresenceTypeOK, Consumers
<1>3. Steady(c)' /\ \A p \in Pages : HashOK(p, c)'
  BY <1>1, <1>2 DEF Steady, HashOK, Untold, Mark, Broadcast
<1>4. \A d \in Conns : inbox[d] \subseteq inbox'[d] /\ (conn[d].page = q => q \in inbox'[d])
  BY DEF Broadcast, Send, Group
<1>5. \A p \in Pages : p # q => ~Telling(c, p)
  BY DEF Telling
<1> QED BY <1>2, <1>3, <1>4, <1>5, KeepsScreens DEF Broadcast, Screens

\* An idle transition is broadcast after the write; a keepalive changes nothing.
LEMMA HeartbeatScreens ==
  ASSUME PresenceInv, Screens, NEW c \in Conns, NEW i \in BOOLEAN, OnHeartbeat(c, i)
  PROVE  Screens'
<1>1. conn[c] \in Consumers /\ conn[c].pc = "ready" /\ PresenceTypeOK
      /\ Steady(c) /\ \A p \in Pages : HashOK(p, c)
  BY DEF PresenceInv, PresenceTypeOK, OnHeartbeat, At, Screens
<1>2. /\ conn'[c].pc = "write" /\ conn'[c].page = conn[c].page
      /\ conn'[c].visible = conn[c].visible /\ conn'[c].shown = conn[c].shown
      /\ conn'[c].idle = i /\ conn'[c].told = i /\ conn'[c].tell = (i # conn[c].told)
      /\ \A d \in Conns : d # c => conn'[d] = conn[d]
  BY <1>1 DEF OnHeartbeat, Beat, PresenceTypeOK, Consumers
<1>3. Steady(c)' /\ \A p \in Pages : HashOK(p, c)'
  BY <1>1, <1>2 DEF Steady, HashOK, Untold, Mark, OnHeartbeat
<1> QED BY <1>1, <1>2, <1>3, ShowsNothingNew DEF OnHeartbeat

\* A connection that closes forgets its page first.
LEMMA DisconnectScreens ==
  ASSUME PresenceInv, Screens, NEW c \in Conns, Disconnect(c)
  PROVE  Screens'
<1> USE PresenceAssumption DEF PresenceAssumption
<1>1. conn[c] \in Consumers /\ conn[c].pc = "ready" /\ PresenceTypeOK
      /\ Steady(c) /\ \A p \in Pages : HashOK(p, c)
  BY DEF PresenceInv, PresenceTypeOK, Disconnect, At, Screens
<1>2. \A d \in Conns : d # c => conn'[d] = conn[d] /\ inbox[d] \subseteq inbox'[d]
  BY <1>1 DEF Disconnect, PresenceTypeOK
<1>3. CASE conn[c].page = Nowhere
  <2>1. conn'[c].pc = "gone" /\ conn'[c].page = Nowhere /\ conn'[c].told = conn'[c].idle
    BY <1>1, <1>3 DEF Disconnect, PresenceTypeOK, Connected
  <2>2. Steady(c)' /\ \A p \in Pages : HashOK(p, c)'
    BY <1>1, <1>3, <2>1 DEF Steady, HashOK, Untold, Disconnect, Nowhere
  <2> QED BY <1>1, <1>2, <2>1, <2>2, ShowsNothingNew DEF Disconnect, Nowhere
<1>4. CASE conn[c].page # Nowhere
  <2>1. /\ conn'[c].pc = "forget" /\ conn'[c].page = conn[c].page
        /\ conn'[c].visible = conn[c].visible /\ conn'[c].shown = conn[c].shown
        /\ conn'[c].idle = conn[c].idle /\ conn'[c].told = conn[c].told
    BY <1>1, <1>4 DEF Disconnect, PresenceTypeOK, Consumers
  <2>2. Steady(c)' /\ \A p \in Pages : HashOK(p, c)'
    BY <1>1, <2>1, ZenonT(60) DEF Steady, HashOK, Untold, Mark, Disconnect
  <2>3. inbox' = inbox
    BY <1>4 DEF Disconnect
  <2> QED BY <1>1, <1>2, <2>1, <2>2, <2>3, ShowsNothingNew DEF Disconnect
<1> QED BY <1>3, <1>4

\* A roster read shows what is there: no field is expired, so nothing is swept.
LEMMA RosterChangedScreens ==
  ASSUME PresenceInv, Screens, NEW c \in Conns, NEW p \in Pages, RosterChanged(c, p), ~faulty'
  PROVE  Screens'
<1>1. conn[c] \in Consumers /\ conn[c].pc = "ready" /\ PresenceTypeOK
      /\ Steady(c) /\ \A q \in Pages : HashOK(q, c)
  BY DEF PresenceInv, PresenceTypeOK, RosterChanged, At, Screens
<1>2. Stale(p) = {}
  BY DEF Screens, HashOK, Stale
<1>3. /\ conn'[c].pc = "ready" /\ conn'[c].page = conn[c].page
      /\ conn'[c].visible = conn[c].visible
      /\ conn'[c].idle = conn[c].idle /\ conn'[c].told = conn[c].told
      /\ \A d \in Conns : d # c => conn'[d] = conn[d]
      /\ IF p = conn[c].page THEN conn'[c].shown = Viewers(p) ELSE conn'[c].shown = conn[c].shown
  <2>1. CASE p # conn[c].page
    BY <1>1, <2>1 DEF RosterChanged
  <2>2. CASE p = conn[c].page
    <3>1. conn' = [conn EXCEPT ![c].shown = Viewers(p)]
      BY <1>2, <2>2 DEF RosterChanged, Mishap
    <3> QED BY <1>1, <2>2, <3>1 DEF PresenceTypeOK, Consumers
  <2> QED BY <2>1, <2>2
<1>4. Steady(c)' /\ \A q \in Pages : HashOK(q, c)'
  BY <1>1, <1>3 DEF Steady, HashOK, Untold, Mark, RosterChanged
<1>5. /\ \A d \in Conns : d # c => inbox'[d] = inbox[d]
      /\ \A q \in Pages : q # p /\ q \in inbox[c] => q \in inbox'[c]
  BY <1>1 DEF RosterChanged, PresenceTypeOK
<1>6. Viewers(p)' = Viewers(p)
  BY SameViewers DEF RosterChanged
<1>7. \A q \in Pages : ~Telling(c, q)
  BY <1>1 DEF Telling, Untold
<1>8. CASE p = conn[c].page
  BY <1>1, <1>3, <1>4, <1>5, <1>6, <1>8, ShowsNothingNew DEF RosterChanged
<1>9. CASE p # conn[c].page
  <2>1. \A d \in Conns : ShownOK(d)'
    <3> SUFFICES ASSUME NEW d \in Conns, NEW q \in Pages, conn'[d].page = q
                 PROVE  \/ q \in inbox'[d] \/ conn'[d].shown = Viewers(q)'
                        \/ \E e \in Conns : Telling(e, q)'
      BY DEF ShownOK
    <3>1. conn' = conn /\ hash' = hash
      BY <1>9 DEF RosterChanged
    <3>2. Viewers(q)' = Viewers(q) /\ \A e \in Conns : Telling(e, q)' = Telling(e, q)
      BY <3>1, SameViewers DEF Telling, Untold
    <3>3. q \in inbox[d] => q \in inbox'[d]
      BY <1>3, <1>5, <1>9, <3>1
    <3> QED BY <3>1, <3>2, <3>3 DEF Screens, ShownOK
  <2>2. conn' = conn /\ hash' = hash /\ strays' = strays
    BY <1>9 DEF RosterChanged
  <2> QED BY <2>1, <2>2 DEF Screens, Steady, HashOK, Untold, Mark
<1> QED BY <1>8, <1>9

\* Every step keeps the screens right until something goes wrong.
LEMMA ScreenStep == PresenceInv /\ ScreenInv /\ [PresenceNext]_presenceVars => ScreenInv'
<1> SUFFICES ASSUME PresenceInv, ScreenInv, [PresenceNext]_presenceVars, ~faulty' PROVE Screens'
  BY DEF ScreenInv
<1>1. ASSUME NEW c \in Conns, Consumer(c) PROVE ~faulty
  BY <1>1 DEF PresenceInv, PresenceTypeOK, Consumer, Forget, Depart, Join, Write, Broadcast, Sweep,
              RosterChanged, Put, Touch, Hdel, Mishap, NoFault
<1>2. ASSUME NEW c \in Conns, Consumer(c) PROVE Screens'
  <2>1. Screens /\ ~Sweep(c)
    BY <1>1, <1>2 DEF ScreenInv, Screens, Steady, Sweep, At
  <2> QED BY <1>2, <2>1, ForgetScreens, DepartScreens, JoinScreens, WriteScreens,
             BroadcastScreens, RosterChangedScreens DEF Consumer
<1>3. ASSUME NEW c \in Conns, Disconnect(c) \/ Vanish(c) PROVE Screens'
  <2>1. Disconnect(c) /\ ~faulty
    BY <1>3 DEF Disconnect, Vanish, Mishap
  <2> QED BY <2>1, DisconnectScreens DEF ScreenInv
<1>4. ASSUME NEW c \in Conns, NEW p \in Pages \cup {Nowhere}, Enter(c, p) PROVE Screens'
  BY <1>4, EnterScreens DEF ScreenInv, Enter, Act
<1>5. ASSUME NEW c \in Conns, NEW i \in BOOLEAN, OnHeartbeat(c, i) PROVE Screens'
  <2>1. ~faulty
    BY <1>5 DEF OnHeartbeat, Act, NoFault
  <2> QED BY <1>5, <2>1, HeartbeatScreens DEF ScreenInv
<1>6. ASSUME NEW p \in Pages, KeyExpires(p) \/ \E c \in Conns : Lapse(p, c) PROVE Screens'
  <2>1. CASE KeyExpires(p)
    BY <2>1 DEF KeyExpires, Stale, ScreenInv, Screens, HashOK
  <2>2. ASSUME NEW c \in Conns, Lapse(p, c) PROVE FALSE
    BY <2>2 DEF Lapse, NoFault, Mishap, Unattended, ScreenInv, Screens, HashOK, Fresh
  <2> QED BY <1>6, <2>1, <2>2
<1>7. ASSUME UNCHANGED <<hash, conn, inbox, strays, faulty>> PROVE Screens'
  <2>1. Screens
    BY <1>7 DEF ScreenInv
  <2>2. \A p : Viewers(p)' = Viewers(p)
    BY <1>7, SameViewers
  <2> QED BY <1>7, <2>1, <2>2 DEF Screens, Steady, ShownOK, Telling, HashOK, Untold, Mark
<1>8. ASSUME NEW u \in Users, SetPreference(u) \/ \E p \in Tenants : Revoke(u, p) PROVE Screens'
  BY <1>7, <1>8 DEF SetPreference, Revoke, Act
<1> QED BY <1>2, <1>3, <1>4, <1>5, <1>6, <1>7, <1>8 DEF PresenceNext, presenceVars

\* Every field tells its connection's mark, so a roster read shows the viewers
\* that there are.
LEMMA ViewersAreThere ==
  ASSUME PresenceInv, Screens, Quiet, NEW p \in Pages
  PROVE  Viewers(p) = [u \in Users |->
           LET here == {d \in Conns : UserOf[d] = u /\ conn[d].page = p /\ conn[d].visible}
           IN CASE here = {} -> "absent"
                [] \E d \in here : ~conn[d].idle -> "active"
                [] OTHER -> "idle"]
<1> DEFINE here(u) == {d \in Conns : UserOf[d] = u /\ conn[d].page = p /\ conn[d].visible}
<1>1. \A d \in Conns :
        hash[p][d] = IF conn[d].page = p THEN Mark(d) ELSE "absent"
  BY DEF Quiet, Screens, HashOK, Untold
<1>2. \A d \in Conns : conn[d].idle \in BOOLEAN /\ conn[d].visible \in BOOLEAN
  BY DEF PresenceInv, PresenceTypeOK, Consumers
<1>3. \A u : FreshOf(p, u) = here(u)
  BY <1>1, <1>2 DEF FreshOf, Fresh, Mark
<1>4. \A u : \A d \in here(u) : (hash[p][d] = "active") <=> ~conn[d].idle
  BY <1>1, <1>2 DEF Mark
<1>5. \A u : (\E d \in FreshOf(p, u) : hash[p][d] = "active") <=> \E d \in here(u) : ~conn[d].idle
  BY <1>3, <1>4
<1> HIDE DEF here
<1>6. Viewers(p) = [u \in Users |->
         CASE here(u) = {} -> "absent"
           [] \E d \in here(u) : ~conn[d].idle -> "active"
           [] OTHER -> "idle"]
  BY <1>3, <1>5 DEF Viewers
<1> QED BY <1>6 DEF here

\* When every message has been handled and nothing failed, lapsed or was lost,
\* every screen shows the viewers there are, idle flags included.
THEOREM ScreensEndUpRight == PresenceSpec => []ScreensAgree
<1>1. PresenceInv /\ ScreenInv => ScreensAgree
  <2> SUFFICES ASSUME PresenceInv, Screens, Quiet, NEW c \in Conns, conn[c].page # Nowhere
               PROVE  conn[c].shown = [u \in Users |->
                        LET here == {d \in Conns : UserOf[d] = u /\ conn[d].page = conn[c].page
                                                     /\ conn[d].visible}
                        IN CASE here = {} -> "absent"
                             [] \E d \in here : ~conn[d].idle -> "active"
                             [] OTHER -> "idle"]
    BY DEF ScreensAgree, ScreenInv
  <2>1. conn[c].page \in Pages
    BY DEF PresenceInv, PresenceTypeOK, Consumers
  <2>2. conn[c].shown = Viewers(conn[c].page)
    BY <2>1 DEF Screens, ShownOK, Quiet, Telling, Untold
  <2> QED BY <2>1, <2>2, ViewersAreThere
<1> QED BY <1>1, PresenceInitInv, PresenceStep, ScreenInitInv, ScreenStep, PTL DEF PresenceSpec

-----------------------------------------------------------------------------
(* CostLedger: what is saved counts every byte once.                       *)

\* Bytes are pairs of numbers, pieces sets of them.
Raws == Seq(SUBSET (Nat \X Nat))

\* What Size may be
Sizes == {Cardinality(S) : S \in SUBSET (Nat \X (Nat \X Nat))}
CostRows    == [source : {"local", "canopy"}, ids : Nat, raw : Raws]
CanopyTurns == [status : CanopyStatuses, bytes : Nat, recent : BOOLEAN]
Jobs ==
  [step : JobSteps, known : BOOLEAN, loaded : Sizes, fresh : BOOLEAN, saves : BOOLEAN,
   seen : Seq(CanopyStatuses), raw : Raws, seat : Nat, whole : BOOLEAN,
   owed : SUBSET (Nat \X Nat)]

CostTypes ==
  /\ rows \in Seq(CostRows) /\ turns \in Seq(CanopyTurns) /\ ended \in Nat /\ cost \in Sizes
  /\ job \in [Workers -> Jobs]

\* The source of record, and its bytes
LocalRowIs(r) == r \in DOMAIN rows /\ rows[r].source = "local"
Kept == UNION {BytesOf(rows[r].raw) : r \in {s \in DOMAIN rows : rows[s].source = "local"}}

\* What turn i wrote is in `bytes`, and it wrote something if it completed; this
\* is asked of turns that settled, since the others go on.
Holds(bytes, i) == Piece(i) \subseteq bytes /\ (turns[i].status = "complete" => turns[i].bytes > 0)
HoldsSettled(bytes, k) == \A i \in 1..k : ~turns[i].recent => Holds(bytes, i)

\* A transcript in which no byte is twice, and no local one that is not kept
Sound(raw) == Apart(raw) /\ \A b \in BytesOf(raw) : b[1] = 0 => b \in Kept

\* A turn that was seen complete is not missing from `bytes`.
Speaks(bytes, seen) ==
  \A i \in DOMAIN seen : seen[i] = "complete" => \E k \in 1..MaxBytes : <<i, k>> \in bytes

\* Turns settle in order, and none that runs.
TurnsAge ==
  /\ \A i \in DOMAIN turns : turns[i].bytes <= MaxBytes
  /\ \A i \in DOMAIN turns : ~turns[i].recent => turns[i].status # "running"
  /\ \A i \in DOMAIN turns : \A k \in 1..i : turns[k].recent => turns[i].recent

\* The source of record is one row, of turns that ended.
LocalInv ==
  /\ \A r, s \in DOMAIN rows : LocalRowIs(r) /\ LocalRowIs(s) => r = s
  /\ \A b \in Kept : b[1] = 0 /\ b[2] \in 1..ended

RowsInv == \A r \in DOMAIN rows :
  /\ Sound(rows[r].raw)
  /\ rows[r].source = "canopy" => rows[r].ids \in 1..Len(turns)

\* One driver at most is about to extend the source of record, by its turn.
Driving(w) == job[w].step \in {"drive", "append"}

AppendInv(w) == JobAt(w, "append") =>
  /\ job[w].seat = 0 => \A r \in DOMAIN rows : ~LocalRowIs(r)
  /\ job[w].seat # 0 => LocalRowIs(job[w].seat)
  /\ job[w].raw = Append(RawOf(job[w].seat), LocalPiece(ended))
  /\ ended > 0 /\ <<0, ended>> \notin Kept

DriverInv ==
  /\ \A v, w \in Workers : Driving(v) /\ Driving(w) => v = w
  /\ \A w \in Workers : AppendInv(w)

\* A driver, between its append and its look
Looking(w) == JobAt(w, "look") /\ job[w].saves /\ ~job[w].fresh

\* Canopy row r is no older than what is kept, and holds what settled.
Covers(r) == rows[r].source = "canopy" /\ Kept \subseteq BytesOf(rows[r].raw)
Full(r)   == HoldsSettled(BytesOf(rows[r].raw), rows[r].ids)

\* The row a driver will be served is full: it has the driver's own turn, so it was
\* composed after the driver's append, since when no turn settled.
LookInv == \A w \in Workers : Looking(w) => \A r \in DOMAIN rows : Covers(r) => Full(r)

\* A worker past its look knows the final status of what settled, ...
KnownInv(w) ==
  /\ job[w].known => turns # <<>>
  /\ job[w].step \in {"fetch", "compose", "seat"} =>
       /\ job[w].known /\ Len(job[w].seen) \in 1..Len(turns)
       /\ \A i \in DOMAIN job[w].seen : ~turns[i].recent => job[w].seen[i] = turns[i].status

\* ... owes what is kept or was written, ...
FetchInv(w) == JobAt(w, "fetch") =>
  \A b \in job[w].owed : b \in Kept \/ \E i \in DOMAIN job[w].seen : b \in Piece(i)

\* ... has the turns one by one, those that settled in full, ...
ComposeInv(w) == JobAt(w, "compose") =>
  /\ Len(job[w].raw) = Len(job[w].seen)
  /\ \A i \in DOMAIN job[w].seen : \E z \in 0..MaxBytes :
       /\ job[w].raw[i] = {i} \X (1..z)
       /\ ~turns[i].recent => z = turns[i].bytes
       /\ job[w].seen[i] = "complete" => z > 0
  /\ job[w].owed \subseteq Kept \cup BytesOf(job[w].raw)

\* ... and then all of it once.
SeatInv(w) == JobAt(w, "seat") =>
  /\ Sound(job[w].raw)
  /\ job[w].owed \subseteq BytesOf(job[w].raw)
  /\ Speaks(BytesOf(job[w].raw), job[w].seen)
  /\ HoldsSettled(BytesOf(job[w].raw), Len(job[w].seen))
  /\ job[w].seat # 0 => job[w].seat \in DOMAIN rows /\ rows[job[w].seat].source = "canopy"

\* w will save what it read, from a session row that is not from before canopy.
Counts(w) == /\ JobAt(w, "derive") /\ job[w].saves /\ job[w].whole
             /\ turns # <<>> => job[w].known

DeriveInv(w) == Counts(w) =>
  /\ Apart(job[w].raw)
  /\ job[w].owed \subseteq BytesOf(job[w].raw)
  /\ Speaks(BytesOf(job[w].raw), job[w].seen)

JobInv(w) == KnownInv(w) /\ FetchInv(w) /\ ComposeInv(w) /\ SeatInv(w) /\ DeriveInv(w)
EveryJob  == \A w \in Workers : JobInv(w)

CostInv == TurnsAge /\ LocalInv /\ RowsInv /\ DriverInv /\ LookInv /\ EveryJob

-----------------------------------------------------------------------------
(* Transcripts and rows                                                    *)

\* A bounded set of numbers has a greatest: what RowOf chooses exists.
LEMMA NewestOf ==
  ASSUME NEW S, S \subseteq Nat, S # {}, NEW m \in Nat, \A r \in S : r <= m
  PROVE  \E r \in S : \A s \in S : s <= r
<1> DEFINE Rel == OpToRel(<, Nat)
           T == {m - r : r \in S}
<1> HIDE DEF Rel
<1>0. \A r \in S : r \in Nat /\ m - r \in Nat
  OBVIOUS
<1>1. T \subseteq Nat /\ T # {}
  BY <1>0
<1>2. PICK x \in T : \A y \in T : ~(<<y, x>> \in Rel)
  <2>1. IsWellFoundedOn(Rel, Nat)
    BY NatLessThanWellFounded DEF Rel
  <2> HIDE DEF T
  <2> QED  BY <1>1, <2>1, WFMin, Zenon
<1>3. \A y \in T : ~(y < x)
  BY <1>1, <1>2 DEF OpToRel, Rel
<1>4. PICK r \in S : x = m - r
  OBVIOUS
<1>5. \A s \in S : s <= r
  <2> SUFFICES ASSUME NEW s \in S PROVE s <= r
    OBVIOUS
  <2>1. m - s \in T
    OBVIOUS
  <2>2. ~(m - s < m - r)
    BY <1>3, <1>4, <2>1
  <2>3. s \in Nat /\ r \in Nat
    OBVIOUS
  <2> HIDE DEF T
  <2> QED  BY <2>2, <2>3
<1> QED  BY <1>5

\* A size is the cardinality of a set of bytes and places, whichever.
LEMMA SizeType == ASSUME NEW raw \in Raws PROVE Size(raw) \in Sizes
<1>1. UNION {{k} \X raw[k] : k \in DOMAIN raw} \in SUBSET (Nat \X (Nat \X Nat))
  BY DEF Raws
<1> QED  BY <1>1 DEF Size, Sizes

\* Nothing has the size 0, which a session starts with.
LEMMA SizeZero == 0 \in Sizes
BY FS_EmptySet DEF Sizes

\* RowOf finds a row of the source if there is one.
LEMMA RowOfIs ==
  ASSUME rows \in Seq(CostRows), NEW source
  PROVE  /\ RowOf(source) \in Nat
         /\ RowOf(source) = 0 => \A r \in DOMAIN rows : rows[r].source # source
         /\ RowOf(source) # 0 =>
              RowOf(source) \in DOMAIN rows /\ rows[RowOf(source)].source = source
<1> DEFINE S == Newest(source)
<1>1. /\ S \subseteq Nat
      /\ \A r \in S : r <= Len(rows) /\ r \in DOMAIN rows /\ rows[r].source = source /\ r # 0
  BY DEF Newest
<1>2. CASE S = {}
  BY <1>2 DEF RowOf, Newest
<1>3. CASE S # {}
  <2>1. \E r \in S : \A s \in S : s <= r
    <3>1. Len(rows) \in Nat
      OBVIOUS
    <3> HIDE DEF S
    <3> QED  BY <1>1, <1>3, <3>1, NewestOf
  <2>2. RowOf(source) \in S
    <3>1. RowOf(source) = CHOOSE r \in S : \A s \in S : s <= r
      BY <1>3 DEF RowOf
    <3> HIDE DEF S
    <3> QED  BY <2>1, <3>1, Zenon
  <2> HIDE DEF S
  <2> QED  BY <1>1, <2>2
<1> QED  BY <1>2, <1>3

\* The bytes of a transcript are bytes.
LEMMA BytesType == ASSUME NEW raw \in Raws PROVE BytesOf(raw) \in SUBSET (Nat \X Nat)
BY DEF BytesOf, Raws

\* A byte is in a transcript when it is in one of its pieces.
LEMMA BytesIn ==
  ASSUME NEW raw, NEW b
  PROVE  b \in BytesOf(raw) <=> \E k \in DOMAIN raw : b \in raw[k]
BY DEF BytesOf

\* The empty transcript
LEMMA NoBytes == <<>> \in Raws /\ BytesOf(<<>>) = {} /\ Apart(<<>>)
<1>1. DOMAIN <<>> = {}
  OBVIOUS
<1> QED  BY <1>1 DEF BytesOf, Apart, Raws

\* The source of record is one row, and its bytes are those of its raw.
LEMMA PrefixIs ==
  ASSUME CostTypes, LocalInv, RowsInv
  PROVE  /\ LocalRow \in Nat /\ Prefix \in Raws /\ BytesOf(Prefix) = Kept /\ Apart(Prefix)
         /\ LocalRow = 0 => \A r \in DOMAIN rows : ~LocalRowIs(r)
         /\ LocalRow # 0 => LocalRowIs(LocalRow)
         /\ \A r \in DOMAIN rows : LocalRowIs(r) => r = LocalRow
<1>1. /\ LocalRow \in Nat
      /\ LocalRow = 0 => \A r \in DOMAIN rows : ~LocalRowIs(r)
      /\ LocalRow # 0 => LocalRowIs(LocalRow)
  BY RowOfIs DEF LocalRow, LocalRowIs, CostTypes
<1>2. \A r \in DOMAIN rows : LocalRowIs(r) => r = LocalRow
  BY <1>1 DEF LocalInv, LocalRowIs
<1>3. CASE LocalRow = 0
  <2>1. Prefix = <<>>
    BY <1>3 DEF Prefix, RawOf
  <2>2. Kept = {}
    BY <1>1, <1>3 DEF Kept, LocalRowIs
  <2> QED  BY <1>1, <1>2, <2>1, <2>2, NoBytes
<1>4. CASE LocalRow # 0
  <2>1. Prefix = rows[LocalRow].raw /\ LocalRow \in DOMAIN rows
    BY <1>1, <1>4 DEF Prefix, RawOf, LocalRowIs
  <2>2. {s \in DOMAIN rows : rows[s].source = "local"} = {LocalRow}
    BY <1>1, <1>2, <1>4 DEF LocalRowIs
  <2>3. Kept = BytesOf(Prefix)
    BY <2>1, <2>2 DEF Kept
  <2>4. Prefix \in Raws
    <3>1. rows[LocalRow] \in CostRows
      BY <2>1 DEF CostTypes
    <3> QED  BY <2>1, <3>1 DEF CostRows
  <2> QED  BY <1>1, <1>2, <2>1, <2>3, <2>4 DEF RowsInv, Sound
<1> QED  BY <1>3, <1>4

\* A transcript put after another.
LEMMA Concats ==
  ASSUME NEW p \in Raws, NEW q \in Raws
  PROVE  /\ p \o q \in Raws
         /\ BytesOf(p \o q) = BytesOf(p) \cup BytesOf(q)
         /\ Apart(p) /\ Apart(q) /\ BytesOf(p) \cap BytesOf(q) = {} => Apart(p \o q)
<1> DEFINE c == p \o q
<1>1. /\ c \in Raws /\ Len(c) = Len(p) + Len(q) /\ Len(p) \in Nat /\ Len(q) \in Nat
      /\ \A i \in 1..Len(p) : c[i] = p[i]
      /\ \A i \in 1..Len(q) : c[Len(p) + i] = q[i]
      /\ DOMAIN p = 1..Len(p) /\ DOMAIN q = 1..Len(q) /\ DOMAIN c = 1..Len(c)
  BY DEF Raws
<1>2. \A i \in DOMAIN c : \/ i \in DOMAIN p /\ c[i] = p[i]
                          \/ i - Len(p) \in DOMAIN q /\ c[i] = q[i - Len(p)] /\ i > Len(p)
  <2> SUFFICES ASSUME NEW i \in DOMAIN c, i \notin DOMAIN p
               PROVE  i - Len(p) \in DOMAIN q /\ c[i] = q[i - Len(p)] /\ i > Len(p)
    BY <1>1
  <2>1. i \in Nat /\ i > Len(p) /\ i - Len(p) \in 1..Len(q) /\ i = Len(p) + (i - Len(p))
    BY <1>1
  <2> HIDE DEF c
  <2> QED  BY <1>1, <2>1
<1> HIDE DEF c
<1>3. BytesOf(c) = BytesOf(p) \cup BytesOf(q)
  <2>1. \A b \in BytesOf(c) : b \in BytesOf(p) \/ b \in BytesOf(q)
    BY <1>2, BytesIn
  <2>2. \A i \in 1..Len(q) : Len(p) + i \in DOMAIN c
    BY <1>1
  <2>3. \A i \in 1..Len(p) : i \in DOMAIN c
    BY <1>1
  <2>4. \A b \in BytesOf(p) : b \in BytesOf(c)
    BY <1>1, <2>3, BytesIn
  <2>5. \A b \in BytesOf(q) : b \in BytesOf(c)
    BY <1>1, <2>2, BytesIn
  <2> QED  BY <2>1, <2>4, <2>5
<1>4. ASSUME Apart(p), Apart(q), BytesOf(p) \cap BytesOf(q) = {}
      PROVE  Apart(c)
  <2> SUFFICES ASSUME NEW k \in DOMAIN c, NEW l \in DOMAIN c, k # l, NEW b \in c[k], b \in c[l]
               PROVE  FALSE
    BY DEF Apart
  <2>1. CASE k \in DOMAIN p /\ c[k] = p[k] /\ l \in DOMAIN p /\ c[l] = p[l]
    BY <1>4, <2>1 DEF Apart
  <2>2. CASE /\ k - Len(p) \in DOMAIN q /\ c[k] = q[k - Len(p)]
             /\ l - Len(p) \in DOMAIN q /\ c[l] = q[l - Len(p)]
    <3>1. k - Len(p) # l - Len(p)
      BY <1>1
    <3> QED  BY <1>4, <2>2, <3>1 DEF Apart
  <2>3. \/ b \in BytesOf(p) /\ b \in BytesOf(q)
        \/ k \in DOMAIN p /\ c[k] = p[k] /\ l \in DOMAIN p /\ c[l] = p[l]
        \/ /\ k - Len(p) \in DOMAIN q /\ c[k] = q[k - Len(p)]
           /\ l - Len(p) \in DOMAIN q /\ c[l] = q[l - Len(p)]
    BY <1>2, BytesIn
  <2> QED  BY <1>4, <2>1, <2>2, <2>3
<1> QED  BY <1>1, <1>3, <1>4 DEF c

\* What each row, turn and worker is
LEMMA CostTyped ==
  ASSUME CostTypes
  PROVE  /\ \A r \in DOMAIN rows : rows[r] \in CostRows /\ r \in Nat \ {0}
         /\ \A i \in DOMAIN turns : turns[i] \in CanopyTurns /\ i \in Nat \ {0}
         /\ \A w \in Workers : job[w] \in Jobs
         /\ DOMAIN rows = 1..Len(rows) /\ Len(rows) \in Nat
         /\ DOMAIN turns = 1..Len(turns) /\ Len(turns) \in Nat
BY DEF CostTypes

\* The fields of a job
LEMMA JobTyped ==
  ASSUME NEW j \in Jobs
  PROVE  /\ j.step \in JobSteps /\ j.known \in BOOLEAN /\ j.loaded \in Sizes /\ j.fresh \in BOOLEAN
         /\ j.saves \in BOOLEAN /\ j.seen \in Seq(CanopyStatuses) /\ j.raw \in Raws
         /\ j.seat \in Nat /\ j.whole \in BOOLEAN /\ j.owed \in SUBSET (Nat \X Nat)
         /\ DOMAIN j.seen = 1..Len(j.seen) /\ Len(j.seen) \in Nat
         /\ DOMAIN j.raw = 1..Len(j.raw) /\ Len(j.raw) \in Nat
BY DEF Jobs, Raws

\* A worker that takes j changes no other.
LEMMA JobMoves ==
  ASSUME CostTypes, NEW w \in Workers, NEW j, Takes(w, j)
  PROVE  /\ job'[w] = j /\ \A v \in Workers : v # w => job'[v] = job[v]
         /\ j \in Jobs => job' \in [Workers -> Jobs]
BY DEF CostTypes, Takes

\* What no step does to a turn that settled, to a row and to what is kept; a
\* turn settles when nobody reads.
Grows ==
  /\ \A i \in DOMAIN turns : /\ i \in DOMAIN turns' /\ turns'[i].bytes >= turns[i].bytes
                             /\ ~turns'[i].recent => turns'[i] = turns[i]
  /\ Kept \subseteq Kept'
  /\ \A r \in DOMAIN rows : r \in DOMAIN rows' /\ rows'[r].source = rows[r].source

\* Turns are not forgotten, and what they wrote is not taken back.
LEMMA GrowsLen ==
  ASSUME CostTypes, CostTypes', Grows
  PROVE  /\ Len(turns) <= Len(turns') /\ (turns # <<>> => turns' # <<>>)
         /\ \A i \in DOMAIN turns : Piece(i) \subseteq Piece(i)'
         /\ \A i \in DOMAIN turns : ~turns'[i].recent => ~turns[i].recent /\ Piece(i)' = Piece(i)
<1>1. /\ DOMAIN turns = 1..Len(turns) /\ Len(turns) \in Nat
      /\ DOMAIN turns' = 1..Len(turns') /\ Len(turns') \in Nat
  BY DEF CostTypes
<1>2. Len(turns) <= Len(turns')
  <2>1. CASE Len(turns) = 0
    BY <1>1, <2>1
  <2>2. CASE Len(turns) # 0
    <3>1. Len(turns) \in DOMAIN turns'
      BY <1>1, <2>2 DEF Grows
    <3> QED  BY <1>1, <3>1
  <2> QED  BY <2>1, <2>2
<1>3. turns # <<>> => turns' # <<>>
  BY <1>1, <1>2 DEF CostTypes
<1>4. ASSUME NEW i \in DOMAIN turns PROVE Piece(i) \subseteq Piece(i)'
  <2>1. turns[i].bytes \in Nat /\ turns'[i].bytes \in Nat /\ turns'[i].bytes >= turns[i].bytes
    <3>1. i \in DOMAIN turns' /\ turns'[i].bytes >= turns[i].bytes
      BY DEF Grows
    <3>2. turns[i] \in CanopyTurns /\ turns'[i] \in CanopyTurns
      BY <3>1 DEF CostTypes
    <3> QED  BY <3>1, <3>2 DEF CanopyTurns
  <2> QED  BY <2>1 DEF Piece
<1>5. ASSUME NEW i \in DOMAIN turns, ~turns'[i].recent
      PROVE  ~turns[i].recent /\ Piece(i)' = Piece(i)
  BY <1>5 DEF Grows, Piece
<1> QED  BY <1>2, <1>3, <1>4, <1>5

\* What is claimed of a worker that does not move stays true as the ledger grows.
LEMMA OthersKept ==
  ASSUME CostTypes, CostTypes', Grows, NEW v \in Workers, job'[v] = job[v], JobInv(v)
  PROVE  JobInv(v)'
<1> DEFINE j == job[v]
<1>0. j \in Jobs /\ job'[v] = j
  BY DEF CostTypes
<1>j. j.seen \in Seq(CanopyStatuses) /\ DOMAIN j.seen = 1..Len(j.seen) /\ Len(j.seen) \in Nat
  BY <1>0, JobTyped
<1>t. /\ DOMAIN turns = 1..Len(turns) /\ Len(turns) \in Nat
      /\ DOMAIN turns' = 1..Len(turns') /\ Len(turns') \in Nat
  BY DEF CostTypes
<1>g. /\ \A i \in DOMAIN turns : i \in DOMAIN turns' /\ (~turns'[i].recent => turns'[i] = turns[i])
      /\ Kept \subseteq Kept'
      /\ \A r \in DOMAIN rows : r \in DOMAIN rows' /\ rows'[r].source = rows[r].source
  BY DEF Grows
<1>k. KnownInv(v)'
  <2>1. j.known => turns' # <<>>
    BY GrowsLen DEF JobInv, KnownInv
  <2>2. ASSUME j.step \in {"fetch", "compose", "seat"}
        PROVE  /\ j.known /\ Len(j.seen) \in 1..Len(turns')
               /\ \A i \in DOMAIN j.seen : ~turns'[i].recent => j.seen[i] = turns'[i].status
    <3>1. /\ j.known /\ Len(j.seen) \in 1..Len(turns)
          /\ \A i \in DOMAIN j.seen : ~turns[i].recent => j.seen[i] = turns[i].status
      BY <2>2 DEF JobInv, KnownInv
    <3>2. \A i \in DOMAIN j.seen : i \in DOMAIN turns
      BY <3>1, <1>j, <1>t
    <3>3. Len(j.seen) \in 1..Len(turns')
      BY <3>1, <1>t, GrowsLen
    <3> HIDE DEF j
    <3> QED  BY <3>1, <3>2, <3>3, GrowsLen, <1>g
  <2> QED  BY <1>0, <2>1, <2>2 DEF KnownInv
<1>m. j.step \in {"fetch", "compose", "seat"} => \A i \in DOMAIN j.seen : i \in DOMAIN turns
  BY <1>j, <1>t DEF JobInv, KnownInv
<1>f. FetchInv(v)'
  <2> SUFFICES ASSUME j.step = "fetch", NEW b \in j.owed
               PROVE  b \in Kept' \/ \E i \in DOMAIN j.seen : b \in Piece(i)'
    BY <1>0 DEF FetchInv, JobAt
  <2>1. b \in Kept \/ \E i \in DOMAIN j.seen : b \in Piece(i)
    BY DEF JobInv, FetchInv, JobAt
  <2> QED  BY <2>1, <1>g, <1>m, GrowsLen
<1>c. ComposeInv(v)'
  <2> SUFFICES ASSUME j.step = "compose"
               PROVE  /\ Len(j.raw) = Len(j.seen)
                      /\ \A i \in DOMAIN j.seen : \E z \in 0..MaxBytes :
                           /\ j.raw[i] = {i} \X (1..z)
                           /\ ~turns'[i].recent => z = turns'[i].bytes
                           /\ j.seen[i] = "complete" => z > 0
                      /\ j.owed \subseteq Kept' \cup BytesOf(j.raw)
    BY <1>0 DEF ComposeInv, JobAt
  <2>1. /\ Len(j.raw) = Len(j.seen)
        /\ \A i \in DOMAIN j.seen : \E z \in 0..MaxBytes :
             /\ j.raw[i] = {i} \X (1..z)
             /\ ~turns[i].recent => z = turns[i].bytes
             /\ j.seen[i] = "complete" => z > 0
        /\ j.owed \subseteq Kept \cup BytesOf(j.raw)
    BY DEF JobInv, ComposeInv, JobAt
  <2>2. \A i \in DOMAIN j.seen :
          ~turns'[i].recent => ~turns[i].recent /\ turns'[i].bytes = turns[i].bytes
    BY <1>m, <1>g
  <2> HIDE DEF j
  <2> QED  BY <2>1, <2>2, <1>g
<1>s. SeatInv(v)'
  <2> SUFFICES ASSUME j.step = "seat"
               PROVE  /\ Sound(j.raw)' /\ j.owed \subseteq BytesOf(j.raw)
                      /\ Speaks(BytesOf(j.raw), j.seen)
                      /\ HoldsSettled(BytesOf(j.raw), Len(j.seen))'
                      /\ j.seat # 0 => j.seat \in DOMAIN rows' /\ rows'[j.seat].source = "canopy"
    BY <1>0 DEF SeatInv, JobAt, Speaks, BytesOf, Sound, Apart, HoldsSettled, Holds
  <2>1. /\ Sound(j.raw) /\ j.owed \subseteq BytesOf(j.raw)
        /\ Speaks(BytesOf(j.raw), j.seen)
        /\ HoldsSettled(BytesOf(j.raw), Len(j.seen))
        /\ j.seat # 0 => j.seat \in DOMAIN rows /\ rows[j.seat].source = "canopy"
    BY DEF JobInv, SeatInv, JobAt
  <2>2. Sound(j.raw)'
    BY <2>1, <1>0, <1>g DEF Sound, Apart, BytesOf
  <2>3. HoldsSettled(BytesOf(j.raw), Len(j.seen))'
    <3> SUFFICES ASSUME NEW i \in DOMAIN j.seen, ~turns'[i].recent
                 PROVE  /\ Piece(i)' \subseteq BytesOf(j.raw)
                        /\ turns'[i].status = "complete" => turns'[i].bytes > 0
      BY <1>0, <1>j DEF HoldsSettled, Holds, BytesOf
    <3>1. i \in DOMAIN turns
      BY <1>m
    <3>2. ~turns[i].recent /\ turns'[i] = turns[i] /\ Piece(i)' = Piece(i)
      BY <3>1, <1>g, GrowsLen
    <3>3. Piece(i) \subseteq BytesOf(j.raw) /\ (turns[i].status = "complete" => turns[i].bytes > 0)
      BY <2>1, <3>2, <1>j DEF HoldsSettled, Holds
    <3> QED  BY <3>2, <3>3
  <2> HIDE DEF j
  <2> QED  BY <2>1, <2>2, <2>3, <1>g
<1>d. DeriveInv(v)'
  <2>1. Counts(v)' => Counts(v)
    BY <1>0, GrowsLen DEF Counts, JobAt
  <2>2. DeriveInv(v)
    BY DEF JobInv
  <2> QED  BY <1>0, <2>1, <2>2 DEF DeriveInv, Apart, Speaks, BytesOf
<1> QED  BY <1>k, <1>f, <1>c, <1>s, <1>d DEF JobInv

-----------------------------------------------------------------------------
\* Steps that leave the rows alone

\* What is kept is in the rows.
LEMMA KeptKept == ASSUME rows' = rows PROVE Kept' = Kept
BY DEF Kept, BytesOf

\* Rows that nobody writes stay transcripts of the session.
LEMMA RowsKept ==
  ASSUME CostTypes, CostTypes', RowsInv, rows' = rows, Len(turns) <= Len(turns')
  PROVE  RowsInv'
<1>1. Kept' = Kept
  BY KeptKept
<1> SUFFICES ASSUME NEW r \in DOMAIN rows
             PROVE  /\ Sound(rows[r].raw)'
                    /\ rows[r].source = "canopy" => rows[r].ids \in 1..Len(turns')
  BY DEF RowsInv, Sound, Apart, BytesOf
<1>2. Sound(rows[r].raw) /\ (rows[r].source = "canopy" => rows[r].ids \in 1..Len(turns))
  BY DEF RowsInv
<1>3. Sound(rows[r].raw)'
  BY <1>1, <1>2 DEF Sound, Apart, BytesOf
<1>4. Len(turns) \in Nat /\ Len(turns') \in Nat
  BY DEF CostTypes
<1> QED  BY <1>2, <1>3, <1>4

\* So does the source of record, while turns end.
LEMMA LocalKept ==
  ASSUME LocalInv, rows' = rows, ended \in Nat, ended' \in Nat, ended' >= ended
  PROVE  LocalInv'
<1>1. Kept' = Kept
  BY KeptKept
<1>2. \A b \in Kept : b[1] = 0 /\ b[2] \in 1..ended'
  BY DEF LocalInv
<1>3. \A r, s \in DOMAIN rows' : LocalRowIs(r)' /\ LocalRowIs(s)' => r = s
  BY DEF LocalInv, LocalRowIs
<1> QED  BY <1>1, <1>2, <1>3 DEF LocalInv

\* A row that holds what settled still does, unless more settles.
LEMMA SettledKept ==
  ASSUME CostTypes, CostTypes', Grows, NEW bytes, NEW k \in 0..Len(turns), HoldsSettled(bytes, k)
  PROVE  HoldsSettled(bytes, k)'
<1> SUFFICES ASSUME NEW i \in 1..k, ~turns'[i].recent
             PROVE  /\ Piece(i)' \subseteq bytes
                    /\ turns'[i].status = "complete" => turns'[i].bytes > 0
  BY DEF HoldsSettled, Holds
<1>1. i \in DOMAIN turns
  BY DEF CostTypes
<1>2. ~turns[i].recent /\ turns'[i] = turns[i] /\ Piece(i)' = Piece(i)
  BY <1>1, GrowsLen DEF Grows
<1> QED  BY <1>2 DEF HoldsSettled, Holds

\* What a driver will find at its look, while rows stay as they are
LEMMA LookKept ==
  ASSUME CostTypes, CostTypes', Grows, RowsInv, LookInv, rows' = rows,
         \A w \in Workers : Looking(w)' => Looking(w)
  PROVE  LookInv'
<1> SUFFICES ASSUME NEW r \in DOMAIN rows, Covers(r), Full(r) PROVE Full(r)'
  <2>1. \A r \in DOMAIN rows : Covers(r)' => Covers(r)
    BY KeptKept DEF Covers, BytesOf
  <2> QED  BY <2>1 DEF LookInv
<1>1. rows[r].ids \in 0..Len(turns)
  BY CostTyped DEF RowsInv, Covers
<1>2. BytesOf(rows[r].raw)' = BytesOf(rows[r].raw) /\ (rows[r].ids)' = rows[r].ids
  BY DEF BytesOf
<1> QED  BY <1>1, <1>2, SettledKept DEF Full

\* A step that leaves the rows alone keeps the invariant if it does so for those who move.
LEMMA RowsAloneKept ==
  ASSUME CostTypes, CostTypes', CostInv, TurnsAge', DriverInv', Grows,
         rows' = rows, ended' >= ended,
         \A w \in Workers : Looking(w)' => Looking(w),
         \A w \in Workers : job'[w] = job[w] \/ JobInv(w)'
  PROVE  CostInv'
<1>1. LocalInv'
  BY LocalKept DEF CostInv, CostTypes
<1>2. RowsInv'
  BY RowsKept, GrowsLen DEF CostInv
<1>3. LookInv'
  BY LookKept DEF CostInv
<1>4. \A w \in Workers : JobInv(w)'
  BY OthersKept DEF CostInv, EveryJob, JobInv
<1> QED  BY <1>1, <1>2, <1>3, <1>4 DEF CostInv, EveryJob, JobInv

\* A step that leaves the turns alone takes nothing back.
LEMMA TurnsSame ==
  ASSUME CostTypes, TurnsAge, rows' = rows, turns' = turns
  PROVE  TurnsAge' /\ Grows
<1>1. TurnsAge'
  BY DEF TurnsAge
<1>2. Grows
  BY KeptKept, CostTyped DEF Grows, CanopyTurns
<1> QED  BY <1>1, <1>2

\* One worker moves, to a step that is not a driver's.
LEMMA DriversKept ==
  ASSUME CostTypes, CostTypes', DriverInv, NEW w \in Workers, rows' = rows, ended' = ended,
         \A v \in Workers : v # w => job'[v] = job[v], job'[w].step \notin {"drive", "append"}
  PROVE  DriverInv'
<1>1. Kept' = Kept
  BY KeptKept
<1>2. \A v \in Workers : Driving(v)' => job'[v] = job[v] /\ Driving(v)
  BY DEF Driving
<1>3. \A v, u \in Workers : Driving(v)' /\ Driving(u)' => v = u
  BY <1>2 DEF DriverInv
<1>4. ASSUME NEW v \in Workers PROVE AppendInv(v)'
  <2> SUFFICES ASSUME JobAt(v, "append")' PROVE AppendInv(v)'
    BY DEF AppendInv
  <2>1. job'[v] = job[v] /\ JobAt(v, "append")
    BY <1>2 DEF JobAt, Driving
  <2>2. AppendInv(v)
    BY DEF DriverInv
  <2>3. RawOf(job[v].seat)' = RawOf(job[v].seat) /\ LocalPiece(ended)' = LocalPiece(ended)
    BY <2>1 DEF RawOf, LocalPiece
  <2> QED  BY <2>1, <2>2, <2>3, <1>1 DEF LocalRowIs, AppendInv
<1> QED  BY <1>3, <1>4 DEF DriverInv

\* A worker takes j, and nothing else changes.
LEMMA JobAlone ==
  ASSUME CostTypes, CostInv, NEW w \in Workers, NEW j \in Jobs, Takes(w, j),
         rows' = rows, turns' = turns, ended' = ended, cost' \in Sizes,
         j.step \notin {"drive", "append"}, j.step = "look" => ~j.saves \/ j.fresh,
         JobInv(w)'
  PROVE  CostTypes' /\ CostInv'
<1>1. CostTypes'
  BY JobMoves DEF CostTypes
<1>2. job'[w] = j /\ \A v \in Workers : v # w => job'[v] = job[v]
  BY JobMoves
<1>3. DriverInv'
  BY <1>1, <1>2, DriversKept DEF CostInv
<1>4. \A v \in Workers : Looking(v)' => Looking(v)
  BY <1>2 DEF Looking, JobAt
<1>5. ended' >= ended
  BY DEF CostTypes
<1>6. TurnsAge' /\ Grows
  BY TurnsSame DEF CostInv
<1>7. \A v \in Workers : job'[v] = job[v] \/ JobInv(v)'
  BY <1>2
<1> QED  BY <1>1, <1>3, <1>4, <1>5, <1>6, <1>7, RowsAloneKept

-----------------------------------------------------------------------------
\* One action at a time

\* A worker that does nothing has a job of the right type.
LEMMA NoJobType == NoJob \in Jobs /\ <<>> \in Seq(CanopyStatuses) /\ <<>> \in Raws
<1>1. <<>> \in Seq(CanopyStatuses) /\ <<>> \in Raws
  BY DEF Raws
<1> QED  BY <1>1, SizeZero DEF NoJob, Jobs, JobSteps

\* So has one that has just loaded the session row.
LEMMA LoadedType ==
  ASSUME CostTypes
  PROVE  /\ Loaded \in Jobs /\ Loaded.step = "idle" /\ (Loaded.known <=> turns # <<>>)
         /\ ~Loaded.saves /\ ~Loaded.fresh
BY NoJobType DEF Loaded, NoJob, Jobs, CostTypes

\* Before its look a worker claims nothing but that canopy has turns.
LEMMA EarlyInv ==
  ASSUME NEW w \in Workers, job'[w].step \in {"idle", "drive", "append", "look"},
         job'[w].known => turns' # <<>>
  PROVE  JobInv(w)'
BY DEF JobInv, KnownInv, FetchInv, ComposeInv, SeatInv, DeriveInv, Counts, JobAt

\* A view, or the command: it reads past the cache if it saves.
LEMMA StepReads ==
  ASSUME CostTypes, CostInv, ~CachedCommand, NEW w \in Workers, ReadsCost(w)
  PROVE  CostTypes' /\ CostInv'
<1>1. PICK j \in {[Loaded EXCEPT !.step = "look"],
                  [Loaded EXCEPT !.step = "look", !.saves = TRUE, !.fresh = ~CachedCommand]} :
        Takes(w, j)
  BY DEF ReadsCost
<1>2. j \in Jobs /\ j.step = "look" /\ (~j.saves \/ j.fresh) /\ (j.known => turns # <<>>)
  BY LoadedType DEF Jobs, JobSteps
<1>3. rows' = rows /\ turns' = turns /\ ended' = ended /\ cost' \in Sizes
  BY DEF ReadsCost, CostTypes
<1>4. JobInv(w)'
  BY <1>1, <1>2, <1>3, JobMoves, EarlyInv
<1> QED  BY <1>1, <1>2, <1>3, <1>4, JobAlone

\* A worker that ends claims nothing any more.
LEMMA StepEnds ==
  ASSUME CostTypes, CostInv, NEW w \in Workers, JobEnds(w), rows' = rows, turns' = turns,
         ended' = ended, cost' \in Sizes
  PROVE  CostTypes' /\ CostInv'
<1>1. NoJob \in Jobs /\ NoJob.step = "idle" /\ ~NoJob.known /\ Takes(w, NoJob)
  BY NoJobType DEF NoJob, JobEnds
<1>2. JobInv(w)'
  BY <1>1, JobMoves, EarlyInv
<1> QED  BY <1>1, <1>2, JobAlone

\* recompute_cost_from_source
LEMMA StepDerive ==
  ASSUME CostTypes, CostInv, NEW w \in Workers, Derive(w)
  PROVE  CostTypes' /\ CostInv'
<1>1. cost' \in Sizes
  BY CostTyped, JobTyped, SizeType DEF Derive, CostTypes
<1> QED  BY <1>1, StepEnds DEF Derive

\* A worker that dies or raises
LEMMA StepStops ==
  ASSUME CostTypes, CostInv, NEW w \in Workers, JobStops(w)
  PROVE  CostTypes' /\ CostInv'
BY StepEnds DEF JobStops, CostTypes

\* A read that is known to be short is not saved.
LEMMA StepFails ==
  ASSUME CostTypes, CostInv, NEW w \in Workers, FetchFails(w)
  PROVE  CostTypes' /\ CostInv'
<1> DEFINE j == [job[w] EXCEPT !.step = "derive", !.whole = FALSE]
<1>1. job[w] \in Jobs /\ (job[w].known => turns # <<>>)
  BY DEF CostTypes, CostInv, EveryJob, JobInv, KnownInv
<1>2. j \in Jobs /\ j.step = "derive" /\ ~j.whole /\ (j.known => turns # <<>>)
  BY <1>1 DEF Jobs, JobSteps
<1>3. Takes(w, j) /\ rows' = rows /\ turns' = turns /\ ended' = ended /\ cost' \in Sizes
  BY DEF FetchFails, CostTypes
<1> HIDE DEF j
<1>4. job'[w] = j
  BY <1>2, <1>3, JobMoves
<1>5. JobInv(w)'
  BY <1>2, <1>3, <1>4 DEF JobInv, KnownInv, FetchInv, ComposeInv, SeatInv, DeriveInv, Counts, JobAt
<1> QED  BY <1>2, <1>3, <1>5, JobAlone

\* The transcripts of the first k turns
LEMMA PiecesType ==
  ASSUME CostTypes, NEW k \in 0..Len(turns)
  PROVE  /\ Pieces(k) \in Raws /\ Len(Pieces(k)) = k /\ DOMAIN Pieces(k) = 1..k
         /\ \A i \in 1..k : Pieces(k)[i] = Piece(i)
<1>1. \A i \in 1..k : i \in Nat /\ turns[i].bytes \in Nat
  <2>1. \A i \in 1..k : i \in DOMAIN turns
    BY CostTyped
  <2> QED  BY <2>1, CostTyped DEF CanopyTurns
<1>2. \A i \in 1..k : Piece(i) \in SUBSET (Nat \X Nat)
  BY <1>1 DEF Piece
<1>3. Pieces(k) \in [1..k -> SUBSET (Nat \X Nat)]
  BY <1>2 DEF Pieces
<1>4. k \in Nat
  BY DEF CostTypes
<1> QED  BY <1>3, <1>4 DEF Pieces, Raws

\* The fetch takes what each turn has written, after the look.
LEMMA StepFetch ==
  ASSUME CostTypes, CostInv, NEW w \in Workers, FetchTurns(w)
  PROVE  CostTypes' /\ CostInv'
<1> DEFINE k == Len(job[w].seen)
           j == [job[w] EXCEPT !.step = "compose", !.raw = Pieces(k)]
<1>1. /\ job[w] \in Jobs /\ job[w].known /\ turns # <<>> /\ k \in 1..Len(turns)
      /\ \A i \in DOMAIN job[w].seen : ~turns[i].recent => job[w].seen[i] = turns[i].status
      /\ \A b \in job[w].owed : b \in Kept \/ \E i \in DOMAIN job[w].seen : b \in Piece(i)
      /\ DOMAIN job[w].seen = 1..k
  BY CostTyped, JobTyped DEF FetchTurns, CostInv, EveryJob, JobInv, KnownInv, FetchInv, JobAt
<1>2. /\ Pieces(k) \in Raws /\ Len(Pieces(k)) = k /\ DOMAIN Pieces(k) = 1..k
      /\ \A i \in 1..k : Pieces(k)[i] = Piece(i)
  <2>1. k \in 0..Len(turns)
    BY <1>1, CostTyped
  <2> QED  BY <2>1, PiecesType
<1>3. /\ j \in Jobs /\ j.step = "compose" /\ j.known /\ j.seen = job[w].seen /\ j.raw = Pieces(k)
      /\ j.owed = job[w].owed
  BY <1>1, <1>2 DEF Jobs, JobSteps
<1>4. Takes(w, j) /\ rows' = rows /\ turns' = turns /\ ended' = ended /\ cost' \in Sizes
  BY DEF FetchTurns, CostTypes
<1>5. \A i \in 1..k : job[w].seen[i] = "complete" => turns[i].bytes # 0
  BY <1>1 DEF FetchTurns, TurnMissing
<1>6. \A i \in 1..k : turns[i].bytes \in 0..MaxBytes
  BY <1>1, CostTyped DEF CanopyTurns, CostInv, TurnsAge
<1>7. job[w].owed \subseteq Kept \cup BytesOf(Pieces(k))
  <2> HIDE DEF k
  <2> QED  BY <1>1, <1>2, BytesIn
<1> HIDE DEF j
<1>8. job'[w] = j /\ Kept' = Kept
  BY <1>3, <1>4, JobMoves, KeptKept
<1>9. ComposeInv(w)'
  <2> SUFFICES /\ Len(j.raw) = Len(j.seen)
               /\ \A i \in DOMAIN j.seen : \E z \in 0..MaxBytes :
                    /\ j.raw[i] = {i} \X (1..z)
                    /\ ~turns[i].recent => z = turns[i].bytes
                    /\ j.seen[i] = "complete" => z > 0
               /\ j.owed \subseteq Kept \cup BytesOf(j.raw)
    BY <1>4, <1>8 DEF ComposeInv, BytesOf
  <2>1. ASSUME NEW i \in DOMAIN j.seen
        PROVE  \E z \in 0..MaxBytes :
                    /\ j.raw[i] = {i} \X (1..z)
                    /\ ~turns[i].recent => z = turns[i].bytes
                    /\ j.seen[i] = "complete" => z > 0
    <3>1. turns[i].bytes \in 0..MaxBytes
      BY <1>1, <1>3, <1>6
    <3> WITNESS turns[i].bytes \in 0..MaxBytes
    <3> QED  BY <1>1, <1>2, <1>3, <1>5, <1>6, SMTT(60) DEF Piece
  <2> QED  BY <1>2, <1>3, <1>7, <2>1
<1>10. JobInv(w)'
  BY <1>1, <1>3, <1>4, <1>8, <1>9 DEF JobInv, KnownInv, FetchInv, SeatInv, DeriveInv, Counts, JobAt
<1> QED  BY <1>3, <1>4, <1>10, JobAlone

\* What a read must not miss is what is kept, and every turn's.
LEMMA OwedIs ==
  ASSUME CostTypes, LocalInv, RowsInv
  PROVE  /\ Owed \in SUBSET (Nat \X Nat)
         /\ \A b \in Owed : b \in Kept \/ \E i \in DOMAIN turns : b \in Piece(i)
<1> DEFINE q == Pieces(Len(turns))
<1>1. Len(turns) \in 0..Len(turns) /\ DOMAIN turns = 1..Len(turns)
  BY CostTyped
<1>2. q \in Raws /\ DOMAIN q = 1..Len(turns) /\ \A i \in 1..Len(turns) : q[i] = Piece(i)
  BY <1>1, PiecesType
<1>3. Prefix \in Raws /\ BytesOf(Prefix) = Kept
  BY PrefixIs
<1> HIDE DEF q
<1>4. Prefix \o q \in Raws /\ BytesOf(Prefix \o q) = Kept \cup BytesOf(q)
  BY <1>2, <1>3, Concats
<1>5. Owed = BytesOf(Prefix \o q)
  BY DEF Owed, q
<1>6. Owed \in SUBSET (Nat \X Nat)
  BY <1>4, <1>5, BytesType
<1>7. \A b \in Owed : b \in Kept \/ \E i \in DOMAIN turns : b \in Piece(i)
  BY <1>1, <1>2, <1>4, <1>5, BytesIn
<1> QED  BY <1>6, <1>7

\* What starts with p has its bytes.
LEMMA StartsBytes ==
  ASSUME NEW p \in Raws, NEW raw \in Raws, StartsWith(raw, p)
  PROVE  BytesOf(p) \subseteq BytesOf(raw)
<1>1. /\ Len(p) <= Len(raw) /\ SubSeq(raw, 1, Len(p)) = p /\ Len(p) \in Nat /\ Len(raw) \in Nat
      /\ DOMAIN p = 1..Len(p) /\ DOMAIN raw = 1..Len(raw)
  BY DEF StartsWith, Raws
<1>2. \A i \in 1..Len(p) : SubSeq(raw, 1, Len(p))[i] = raw[i]
  BY <1>1 DEF Raws
<1>3. \A i \in DOMAIN p : i \in DOMAIN raw /\ raw[i] = p[i]
  BY <1>1, <1>2
<1> QED  BY <1>3, BytesIn

\* A cached row that is served to a driver misses nothing.
LEMMA ServedRow ==
  ASSUME CostTypes, CostInv, NEW w \in Workers, JobAt(w, "look"), job[w].known, job[w].saves,
         NEW r, r = RowOf("canopy"), ~MustFetch(w, r)
  PROVE  /\ r # 0 /\ rows[r].raw \in Raws /\ Apart(rows[r].raw)
         /\ Owed \subseteq BytesOf(rows[r].raw)
         /\ \A i \in DOMAIN turns : turns[i].status = "complete" =>
              \E k \in 1..MaxBytes : <<i, k>> \in BytesOf(rows[r].raw)
<1>1. /\ r # 0 /\ ~job[w].fresh /\ ~Provisional /\ rows[r].ids = Len(turns)
      /\ StartsWith(rows[r].raw, Prefix)
  BY DEF MustFetch
<1>2. r \in DOMAIN rows /\ rows[r].source = "canopy"
  BY <1>1, RowOfIs DEF CostTypes
<1>3. rows[r].raw \in Raws
  BY <1>2, CostTyped DEF CostRows
<1>4. Kept \subseteq BytesOf(rows[r].raw)
  BY <1>1, <1>3, PrefixIs, StartsBytes DEF CostInv
<1>5. Full(r)
  BY <1>1, <1>2, <1>4 DEF CostInv, LookInv, Looking, Covers
<1>6. turns # <<>> /\ Len(turns) \in DOMAIN turns /\ DOMAIN turns = 1..Len(turns)
  <2>1. turns # <<>>
    BY DEF CostInv, EveryJob, JobInv, KnownInv
  <2> QED  BY <2>1 DEF CostTypes
<1>7. \A i \in DOMAIN turns : ~turns[i].recent
  <2>1. ~turns[Len(turns)].recent
    BY <1>1, <1>6 DEF Provisional
  <2>2. \A i \in DOMAIN turns : i \in 1..Len(turns)
    BY <1>6
  <2> QED  BY <1>6, <2>1, <2>2 DEF CostInv, TurnsAge
<1>8. \A i \in DOMAIN turns : Holds(BytesOf(rows[r].raw), i)
  BY <1>1, <1>5, <1>6, <1>7 DEF Full, HoldsSettled
<1>9. Owed \subseteq BytesOf(rows[r].raw)
  BY <1>4, <1>8, OwedIs DEF CostInv, Holds
<1>10. ASSUME NEW i \in DOMAIN turns, turns[i].status = "complete"
       PROVE  \E k \in 1..MaxBytes : <<i, k>> \in BytesOf(rows[r].raw)
  <2>1. turns[i].bytes \in Nat /\ turns[i].bytes > 0 /\ turns[i].bytes <= MaxBytes
    BY <1>8, <1>10, CostTyped DEF Holds, CostInv, TurnsAge, CanopyTurns
  <2>2. 1 \in 1..MaxBytes /\ <<i, 1>> \in Piece(i)
    BY <2>1, CostLedgerAssumption DEF CostLedgerAssumption, Piece
  <2>3. <<i, 1>> \in BytesOf(rows[r].raw)
    BY <1>8, <2>2 DEF Holds
  <2> QED  BY <2>2, <2>3
<1>11. Apart(rows[r].raw)
  BY <1>2 DEF CostInv, RowsInv, Sound
<1> QED  BY <1>1, <1>3, <1>9, <1>10, <1>11

\* Without canopy turns the newest row is the source of record, if there is one.
LEMMA ServedLocal ==
  ASSUME CostTypes, CostInv
  PROVE  /\ RawOf(Len(rows)) \in Raws
         /\ turns = <<>> => /\ Apart(RawOf(Len(rows))) /\ Owed \subseteq BytesOf(RawOf(Len(rows)))
<1>1. Len(rows) \in Nat /\ DOMAIN rows = 1..Len(rows)
  BY CostTyped
<1>2. RawOf(Len(rows)) \in Raws
  <2>1. CASE Len(rows) = 0
    BY <2>1, NoBytes DEF RawOf
  <2>2. CASE Len(rows) # 0
    <3>1. Len(rows) \in DOMAIN rows
      BY <1>1, <2>2
    <3> QED  BY <2>2, <3>1, CostTyped DEF RawOf, CostRows
  <2> QED  BY <2>1, <2>2
<1>3. ASSUME turns = <<>> PROVE Apart(RawOf(Len(rows))) /\ Owed \subseteq BytesOf(RawOf(Len(rows)))
  <2>1. Len(turns) = 0 /\ DOMAIN turns = {}
    BY <1>3
  <2>2. Owed \subseteq Kept
    BY <2>1, OwedIs DEF CostInv
  <2>3. \A r \in DOMAIN rows : LocalRowIs(r)
    <3>1. \A r \in DOMAIN rows : rows[r].source # "canopy"
      BY <2>1 DEF CostInv, RowsInv
    <3> QED  BY <3>1, CostTyped DEF LocalRowIs, CostRows
  <2>4. RawOf(Len(rows)) = Prefix
    <3>1. CASE Len(rows) = 0
      <4>1. LocalRow = 0
        BY <1>1, <3>1, PrefixIs DEF CostInv, LocalRowIs
      <4> QED  BY <3>1, <4>1 DEF Prefix
    <3>2. CASE Len(rows) # 0
      <4>1. Len(rows) \in DOMAIN rows
        BY <1>1, <3>2
      <4> QED  BY <4>1, <2>3, PrefixIs DEF CostInv, Prefix
    <3> QED  BY <3>1, <3>2
  <2> QED  BY <2>2, <2>4, PrefixIs DEF CostInv
<1> QED  BY <1>2, <1>3

\* The look: a cached row is served, or canopy is asked.
LEMMA StepLook ==
  ASSUME CostTypes, CostInv, NEW w \in Workers, LookUp(w)
  PROVE  CostTypes' /\ CostInv'
<1> DEFINE r == RowOf("canopy")
           seen == [i \in DOMAIN turns |-> turns[i].status]
           j == [job[w] EXCEPT !.owed = Owed, !.fresh = FALSE, !.seen = seen]
<1>1. job[w] \in Jobs /\ JobAt(w, "look") /\ (job[w].known => turns # <<>>)
  BY CostTyped DEF LookUp, CostInv, EveryJob, JobInv, KnownInv
<1>2. /\ seen \in Seq(CanopyStatuses) /\ Len(seen) = Len(turns) /\ DOMAIN seen = DOMAIN turns
      /\ \A i \in DOMAIN turns : seen[i] = turns[i].status
  <2>1. seen \in [1..Len(turns) -> CanopyStatuses] /\ Len(turns) \in Nat
    BY CostTyped DEF CanopyTurns
  <2> QED  BY <2>1, CostTyped
<1>3. Owed \in SUBSET (Nat \X Nat)
  BY OwedIs DEF CostInv
<1>4. /\ j \in Jobs /\ j.owed = Owed /\ j.seen = seen /\ j.known = job[w].known
      /\ j.saves = job[w].saves /\ j.whole = job[w].whole
  <2> HIDE DEF seen
  <2> QED  BY <1>1, <1>2, <1>3 DEF Jobs
<1>5. rows' = rows /\ turns' = turns /\ ended' = ended /\ cost' \in Sizes
  BY DEF LookUp, CostTypes
<1>6. PICK x \in Jobs :
        /\ Takes(w, x) /\ x.owed = Owed /\ x.seen = seen /\ x.known = job[w].known
        /\ x.saves = job[w].saves
        /\ \/ x.step = "fetch" /\ x.known
           \/ x.step = "derive" /\ ~x.known /\ x.raw = RawOf(Len(rows))
           \/ x.step = "derive" /\ x.known /\ ~MustFetch(w, r) /\ x.raw = rows[r].raw
  <2>1. CASE ~job[w].known
    <3> DEFINE x == [j EXCEPT !.step = "derive", !.raw = RawOf(Len(rows))]
    <3>1. Takes(w, x)
      BY <2>1 DEF LookUp
    <3> HIDE DEF j, seen
    <3>2. /\ x \in Jobs /\ x.owed = Owed /\ x.seen = seen /\ x.known = job[w].known
          /\ x.saves = job[w].saves /\ x.step = "derive" /\ x.raw = RawOf(Len(rows))
      BY <1>4, ServedLocal DEF Jobs, JobSteps
    <3> QED  BY <2>1, <3>1, <3>2
  <2>2. CASE job[w].known
    <3> DEFINE x == [j EXCEPT !.step = IF MustFetch(w, r) THEN "fetch" ELSE "derive",
                              !.raw = IF r = 0 THEN Prefix ELSE rows[r].raw]
    <3>1. Takes(w, x)
      BY <2>2 DEF LookUp
    <3>2. (IF r = 0 THEN Prefix ELSE rows[r].raw) \in Raws
      BY RowOfIs, PrefixIs, CostTyped DEF CostTypes, CostRows, CostInv
    <3>3. MustFetch(w, r) \/ r # 0
      BY DEF MustFetch
    <3> HIDE DEF j, seen, r
    <3>4. /\ x \in Jobs /\ x.owed = Owed /\ x.seen = seen /\ x.known = job[w].known
          /\ x.saves = job[w].saves
          /\ x.step = IF MustFetch(w, r) THEN "fetch" ELSE "derive"
          /\ x.raw = IF r = 0 THEN Prefix ELSE rows[r].raw
      BY <1>4, <3>2 DEF Jobs, JobSteps
    <3> QED  BY <2>2, <3>1, <3>3, <3>4
  <2> QED  BY <2>1, <2>2
<1> HIDE DEF j, seen, r
<1>7. job'[w] = x /\ Kept' = Kept
  BY <1>5, <1>6, JobMoves, KeptKept
<1>8. KnownInv(w)'
  BY <1>1, <1>2, <1>5, <1>6, <1>7, CostTyped DEF KnownInv
<1>9. FetchInv(w)'
  <2>1. \A b \in x.owed : b \in Kept \/ \E i \in DOMAIN x.seen : b \in Piece(i)
    BY <1>2, <1>6, OwedIs DEF CostInv
  <2> QED  BY <2>1, <1>5, <1>7 DEF FetchInv, Piece
<1>10. DeriveInv(w)'
  <2> SUFFICES ASSUME x.step = "derive", x.saves, turns # <<>> => x.known
               PROVE  /\ Apart(x.raw) /\ x.owed \subseteq BytesOf(x.raw)
                      /\ Speaks(BytesOf(x.raw), x.seen)
    BY <1>5, <1>7 DEF DeriveInv, Counts, JobAt, Apart, Speaks, BytesOf
  <2>1. CASE ~x.known /\ x.raw = RawOf(Len(rows))
    <3>1. DOMAIN turns = {}
      BY <2>1
    <3> QED  BY <1>2, <1>6, <2>1, <3>1, ServedLocal DEF Speaks
  <2>2. CASE x.known /\ ~MustFetch(w, r) /\ x.raw = rows[r].raw
    <3>1. /\ Apart(x.raw) /\ Owed \subseteq BytesOf(x.raw)
          /\ \A i \in DOMAIN turns : turns[i].status = "complete" =>
               \E k \in 1..MaxBytes : <<i, k>> \in BytesOf(x.raw)
      BY <1>1, <1>6, <2>2, ServedRow DEF r
    <3> QED  BY <1>2, <1>6, <3>1 DEF Speaks
  <2> QED  BY <1>6, <2>1, <2>2
<1>11. JobInv(w)'
  BY <1>6, <1>7, <1>8, <1>9, <1>10 DEF JobInv, ComposeInv, SeatInv, JobAt
<1>12. x.step \notin {"drive", "append", "look"}
  BY <1>6
<1> QED  BY <1>5, <1>6, <1>11, <1>12, JobAlone

\* What canopy's turns wrote, put after what is kept: a transcript in which
\* every byte is once.
LEMMA ComposedIs ==
  ASSUME CostTypes, CostInv, NEW w \in Workers, JobAt(w, "compose")
  PROVE  LET c == Prefix \o job[w].raw IN
         /\ c \in Raws /\ Sound(c) /\ job[w].owed \subseteq BytesOf(c)
         /\ Speaks(BytesOf(c), job[w].seen) /\ HoldsSettled(BytesOf(c), Len(job[w].seen))
<1> DEFINE q == job[w].raw
           s == job[w].seen
           c == Prefix \o q
<1>1. /\ q \in Raws /\ DOMAIN s = 1..Len(s) /\ DOMAIN q = DOMAIN s
      /\ Len(s) \in 1..Len(turns) /\ job[w].owed \subseteq Kept \cup BytesOf(q)
      /\ \A i \in DOMAIN s : ~turns[i].recent => s[i] = turns[i].status
  BY CostTyped, JobTyped DEF CostInv, EveryJob, JobInv, ComposeInv, KnownInv, JobAt
<1>2. \A i \in DOMAIN s : \E z \in 0..MaxBytes :
        /\ q[i] = {i} \X (1..z)
        /\ ~turns[i].recent => z = turns[i].bytes
        /\ s[i] = "complete" => z > 0
  BY DEF CostInv, EveryJob, JobInv, ComposeInv
<1>3. /\ Prefix \in Raws /\ BytesOf(Prefix) = Kept /\ Apart(Prefix)
      /\ \A b \in Kept : b[1] = 0
  BY PrefixIs DEF CostInv, LocalInv
<1> HIDE DEF q, s
<1>4. \A i \in DOMAIN q : \A b \in q[i] : b[1] = i /\ i # 0
  BY <1>1, <1>2
<1>5. Apart(q)
  BY <1>4 DEF Apart
<1>6. \A b \in BytesOf(q) : b[1] # 0
  BY <1>4, BytesIn
<1>7. c \in Raws /\ BytesOf(c) = Kept \cup BytesOf(q) /\ Apart(c)
  <2>1. BytesOf(Prefix) \cap BytesOf(q) = {}
    BY <1>3, <1>6
  <2> QED  BY <1>1, <1>3, <1>5, <2>1, Concats
<1> HIDE DEF c
<1>8. Sound(c)
  BY <1>6, <1>7 DEF Sound
<1>9. \A i \in DOMAIN s : q[i] \subseteq BytesOf(c)
  BY <1>1, <1>7, BytesIn
<1>10. Speaks(BytesOf(c), s)
  <2> SUFFICES ASSUME NEW i \in DOMAIN s, s[i] = "complete"
               PROVE  \E k \in 1..MaxBytes : <<i, k>> \in BytesOf(c)
    BY DEF Speaks
  <2>1. PICK z \in 0..MaxBytes : q[i] = {i} \X (1..z) /\ z > 0
    BY <1>2
  <2>2. 1 \in 1..MaxBytes /\ <<i, 1>> \in q[i]
    BY <2>1, CostLedgerAssumption DEF CostLedgerAssumption
  <2> QED  BY <1>9, <2>2
<1>11. HoldsSettled(BytesOf(c), Len(s))
  <2> SUFFICES ASSUME NEW i \in DOMAIN s, ~turns[i].recent
               PROVE  /\ Piece(i) \subseteq BytesOf(c)
                      /\ turns[i].status = "complete" => turns[i].bytes > 0
    BY <1>1 DEF HoldsSettled, Holds
  <2>1. PICK z \in 0..MaxBytes : /\ q[i] = {i} \X (1..z) /\ z = turns[i].bytes
                                 /\ s[i] = "complete" => z > 0
    BY <1>2
  <2> QED  BY <1>1, <1>9, <2>1 DEF Piece
<1> QED  BY <1>1, <1>7, <1>8, <1>10, <1>11 DEF c, q, s

\* _local_prefix and the turns, and the row to store it in
LEMMA StepCompose ==
  ASSUME CostTypes, CostInv, NEW w \in Workers, Compose(w)
  PROVE  CostTypes' /\ CostInv'
<1> DEFINE c == Prefix \o job[w].raw
           r == RowOf("canopy")
           j == [job[w] EXCEPT !.step = "seat", !.raw = c, !.seat = r]
<1>1. /\ job[w] \in Jobs /\ JobAt(w, "compose") /\ job[w].known /\ turns # <<>>
      /\ Len(job[w].seen) \in 1..Len(turns)
      /\ \A i \in DOMAIN job[w].seen : ~turns[i].recent => job[w].seen[i] = turns[i].status
  BY CostTyped DEF Compose, CostInv, EveryJob, JobInv, KnownInv, JobAt
<1>2. /\ c \in Raws /\ Sound(c) /\ job[w].owed \subseteq BytesOf(c)
      /\ Speaks(BytesOf(c), job[w].seen) /\ HoldsSettled(BytesOf(c), Len(job[w].seen))
  BY <1>1, ComposedIs
<1>3. r \in Nat /\ (r # 0 => r \in DOMAIN rows /\ rows[r].source = "canopy")
  BY RowOfIs DEF CostTypes
<1>4. Takes(w, j) /\ rows' = rows /\ turns' = turns /\ ended' = ended /\ cost' \in Sizes
  BY DEF Compose, CostTypes
<1> HIDE DEF c, r
<1>5. /\ j \in Jobs /\ j.step = "seat" /\ j.known /\ j.seen = job[w].seen /\ j.raw = c /\ j.seat = r
      /\ j.owed = job[w].owed
  BY <1>1, <1>2, <1>3 DEF Jobs, JobSteps
<1> HIDE DEF j
<1>6. job'[w] = j /\ Kept' = Kept
  BY <1>4, <1>5, JobMoves, KeptKept
<1>7. SeatInv(w)'
  BY <1>2, <1>3, <1>4, <1>5, <1>6
  DEF SeatInv, Sound, Apart, BytesOf, Speaks, HoldsSettled, Holds, Piece
<1>8. JobInv(w)'
  BY <1>1, <1>4, <1>5, <1>6, <1>7
  DEF JobInv, KnownInv, FetchInv, ComposeInv, DeriveInv, Counts, JobAt
<1> QED  BY <1>4, <1>5, <1>8, JobAlone

\* A local turn begins: no other is under way.
LEMMA StepDrive ==
  ASSUME CostTypes, CostInv, NEW w \in Workers, Drive(w)
  PROVE  CostTypes' /\ CostInv'
<1> DEFINE j == [Loaded EXCEPT !.step = "drive", !.saves = TRUE]
<1>1. j \in Jobs /\ j.step = "drive" /\ (j.known => turns # <<>>)
  BY LoadedType DEF Jobs, JobSteps
<1>2. Takes(w, j) /\ rows' = rows /\ turns' = turns /\ ended' = ended /\ cost' = cost
  BY DEF Drive
<1> HIDE DEF j
<1>3. job'[w] = j /\ (\A v \in Workers : v # w => job'[v] = job[v]) /\ CostTypes'
  BY <1>1, <1>2, JobMoves DEF CostTypes
<1>4. \A v \in Workers : ~Driving(v)
  BY DEF Drive, Driving
<1>5. DriverInv'
  <2>1. \A v, u \in Workers : Driving(v)' /\ Driving(u)' => v = u
    BY <1>3, <1>4 DEF Driving
  <2>2. \A v \in Workers : ~JobAt(v, "append")'
    BY <1>1, <1>3, <1>4 DEF Driving, JobAt
  <2> QED  BY <2>1, <2>2 DEF DriverInv, AppendInv
<1>6. JobInv(w)'
  BY <1>1, <1>2, <1>3, EarlyInv
<1>7. \A v \in Workers : Looking(v)' => Looking(v)
  BY <1>1, <1>3 DEF Looking, JobAt
<1>8. TurnsAge' /\ Grows
  BY <1>2, TurnsSame DEF CostInv
<1>9. ended' >= ended
  BY <1>2 DEF CostTypes
<1>10. \A v \in Workers : job'[v] = job[v] \/ JobInv(v)'
  BY <1>3, <1>6
<1> QED  BY <1>2, <1>3, <1>5, <1>7, <1>8, <1>9, <1>10, RowsAloneKept

\* It ends, and what it wrote is put after what is kept.
LEMMA StepReadPrior ==
  ASSUME CostTypes, CostInv, NEW w \in Workers, ReadPrior(w)
  PROVE  CostTypes' /\ CostInv'
<1> DEFINE p == LocalPiece(ended + 1)
           j == [job[w] EXCEPT !.step = "append", !.seat = LocalRow,
                               !.raw = Append(RawOf(LocalRow), p)]
<1>1. job[w] \in Jobs /\ Driving(w) /\ (job[w].known => turns # <<>>) /\ ended \in Nat
  BY CostTyped DEF ReadPrior, CostInv, EveryJob, JobInv, KnownInv, JobAt, Driving, CostTypes
<1>2. /\ LocalRow \in Nat /\ RawOf(LocalRow) \in Raws
      /\ LocalRow = 0 => \A r \in DOMAIN rows : ~LocalRowIs(r)
      /\ LocalRow # 0 => LocalRowIs(LocalRow)
  BY PrefixIs DEF CostInv, Prefix
<1>3. Append(RawOf(LocalRow), p) \in Raws
  BY <1>1, <1>2 DEF Raws, LocalPiece
<1>4. Takes(w, j) /\ rows' = rows /\ turns' = turns /\ ended' = ended + 1 /\ cost' = cost
  BY DEF ReadPrior
<1> HIDE DEF p
<1>5. /\ j \in Jobs /\ j.step = "append" /\ j.known = job[w].known /\ j.seat = LocalRow
      /\ j.raw = Append(RawOf(LocalRow), p)
  BY <1>1, <1>2, <1>3 DEF Jobs, JobSteps
<1> HIDE DEF j
<1>6. job'[w] = j /\ (\A v \in Workers : v # w => job'[v] = job[v]) /\ CostTypes' /\ Kept' = Kept
  BY <1>1, <1>4, <1>5, JobMoves, KeptKept DEF CostTypes
<1>7. \A v \in Workers : Driving(v)' => v = w
  BY <1>1, <1>6 DEF Driving, CostInv, DriverInv
<1>8. AppendInv(w)'
  <2>1. ended + 1 > 0 /\ <<0, ended + 1>> \notin Kept
    BY <1>1 DEF CostInv, LocalInv
  <2>2. LocalPiece(ended)' = p
    BY <1>4 DEF LocalPiece, p
  <2> QED  BY <1>2, <1>4, <1>5, <1>6, <2>1, <2>2 DEF AppendInv, LocalRowIs, RawOf
<1>9. DriverInv'
  <2>1. ASSUME NEW v \in Workers, v # w PROVE AppendInv(v)'
    BY <1>7, <2>1 DEF AppendInv, JobAt, Driving
  <2> QED  BY <1>7, <1>8, <2>1 DEF DriverInv
<1>10. JobInv(w)'
  BY <1>1, <1>4, <1>5, <1>6, EarlyInv
<1>11. \A v \in Workers : Looking(v)' => Looking(v)
  BY <1>5, <1>6 DEF Looking, JobAt
<1>12. TurnsAge' /\ Grows
  BY <1>4, TurnsSame DEF CostInv
<1>13. ended' >= ended
  BY <1>1, <1>4
<1>14. \A v \in Workers : job'[v] = job[v] \/ JobInv(v)'
  BY <1>6, <1>10
<1> QED  BY <1>4, <1>6, <1>9, <1>11, <1>12, <1>13, <1>14, RowsAloneKept

\* The status of turn i, which is running, becomes final.
LEMMA StatusMoves ==
  ASSUME CostTypes, TurnsAge, rows' = rows, NEW i \in DOMAIN turns, NEW final \in CanopyStatuses,
         turns[i].status = "running", turns' = [turns EXCEPT ![i].status = final]
  PROVE  turns' \in Seq(CanopyTurns) /\ TurnsAge' /\ Grows
<1>1. turns[i] \in CanopyTurns
  BY CostTyped
<1>2. /\ [turns[i] EXCEPT !.status = final] \in CanopyTurns
      /\ turns' = [turns EXCEPT ![i] = [turns[i] EXCEPT !.status = final]]
  BY <1>1 DEF CanopyTurns
<1>3. turns' \in Seq(CanopyTurns) /\ DOMAIN turns' = DOMAIN turns
  BY <1>2 DEF CostTypes
<1>4. /\ \A k \in DOMAIN turns : k # i => turns'[k] = turns[k]
      /\ turns'[i] = [turns[i] EXCEPT !.status = final]
  BY <1>2
<1>5. turns'[i].bytes = turns[i].bytes /\ turns'[i].recent = turns[i].recent /\ turns[i].recent
  BY <1>1, <1>4 DEF CanopyTurns, TurnsAge
<1>6. \A k \in DOMAIN turns : turns'[k].bytes = turns[k].bytes /\ turns'[k].recent = turns[k].recent
  BY <1>4, <1>5
<1>7. TurnsAge'
  <2>1. \A k \in DOMAIN turns' : ~turns'[k].recent => turns'[k].status # "running"
    BY <1>3, <1>4, <1>5, <1>6 DEF TurnsAge
  <2>2. \A l \in DOMAIN turns : \A k \in 1..l : k \in DOMAIN turns
    BY DEF CostTypes
  <2>3. \A l \in DOMAIN turns' : \A k \in 1..l : turns'[k].recent => turns'[l].recent
    BY <1>3, <1>6, <2>2 DEF TurnsAge
  <2>4. \A k \in DOMAIN turns' : turns'[k].bytes <= MaxBytes
    BY <1>3, <1>6 DEF TurnsAge
  <2> QED  BY <2>1, <2>3, <2>4 DEF TurnsAge
<1>8. Grows
  <2>1. \A k \in DOMAIN turns : turns[k].bytes >= turns[k].bytes
    BY CostTyped DEF CanopyTurns
  <2>2. \A k \in DOMAIN turns : ~turns'[k].recent => turns'[k] = turns[k]
    BY <1>4, <1>5
  <2> QED  BY <1>3, <1>6, <2>1, <2>2, KeptKept DEF Grows
<1> QED  BY <1>3, <1>7, <1>8

\* A reconcile settles a turn, and will read past the cache.
LEMMA StepReconcile ==
  ASSUME CostTypes, CostInv, NEW w \in Workers, NEW i \in DOMAIN turns,
         NEW final \in CanopyStatuses, ReconcileCost(w, i, final)
  PROVE  CostTypes' /\ CostInv'
<1> DEFINE j == [Loaded EXCEPT !.step = "look", !.fresh = TRUE, !.saves = TRUE]
<1>1. j \in Jobs /\ j.step = "look" /\ j.fresh
  BY LoadedType DEF Jobs, JobSteps
<1>2. /\ Takes(w, j) /\ rows' = rows /\ ended' = ended /\ cost' = cost
      /\ turns[i].status = "running" /\ turns' = [turns EXCEPT ![i].status = final]
  BY DEF ReconcileCost
<1> HIDE DEF j
<1>3. turns' \in Seq(CanopyTurns) /\ TurnsAge' /\ Grows
  BY <1>2, StatusMoves DEF CostInv
<1>4. job'[w] = j /\ (\A v \in Workers : v # w => job'[v] = job[v]) /\ CostTypes'
  BY <1>1, <1>2, <1>3, JobMoves DEF CostTypes
<1>5. DriverInv'
  BY <1>1, <1>2, <1>4, DriversKept DEF CostInv
<1>6. JobInv(w)'
  <2>1. turns # <<>> /\ turns' # <<>>
    <3>1. turns # <<>>
      OBVIOUS
    <3> QED  BY <1>3, <1>4, <3>1, GrowsLen
  <2> QED  BY <1>1, <1>4, <2>1, EarlyInv
<1>7. \A v \in Workers : Looking(v)' => Looking(v)
  BY <1>1, <1>4 DEF Looking, JobAt
<1>8. ended' >= ended
  BY <1>2 DEF CostTypes
<1>9. \A v \in Workers : job'[v] = job[v] \/ JobInv(v)'
  BY <1>4, <1>6
<1> QED  BY <1>2, <1>3, <1>4, <1>5, <1>7, <1>8, <1>9, RowsAloneKept

\* canopy moves, and no worker does.
LEMMA CanopyMoves ==
  ASSUME CostTypes, CostInv, turns' \in Seq(CanopyTurns), TurnsAge', Grows,
         UNCHANGED <<rows, ended, cost, job>>
  PROVE  CostTypes' /\ CostInv'
<1>1. CostTypes'
  BY DEF CostTypes
<1>2. DriverInv'
  BY KeptKept DEF CostInv, DriverInv, Driving, AppendInv, JobAt, LocalRowIs, RawOf, LocalPiece
<1>3. \A v \in Workers : (Looking(v)' => Looking(v)) /\ job'[v] = job[v]
  BY DEF Looking, JobAt
<1>4. ended' >= ended
  BY DEF CostTypes
<1> QED  BY <1>1, <1>2, <1>3, <1>4, RowsAloneKept

\* A turn that begins is recent, and has written nothing.
LEMMA StepDispatch ==
  ASSUME CostTypes, CostInv, Dispatch
  PROVE  CostTypes' /\ CostInv'
<1> DEFINE t == [status |-> "running", bytes |-> 0, recent |-> TRUE]
           z == Len(turns)
<1>1. t \in CanopyTurns /\ turns \in Seq(CanopyTurns) /\ z \in Nat /\ DOMAIN turns = 1..z
  BY DEF CanopyTurns, CanopyStatuses, CostTypes
<1>2. turns' = Append(turns, t) /\ UNCHANGED <<rows, ended, cost, job>>
  BY DEF Dispatch
<1>3. /\ turns' \in Seq(CanopyTurns) /\ DOMAIN turns' = 1..(z + 1) /\ turns'[z + 1] = t
      /\ \A i \in DOMAIN turns : i \in DOMAIN turns' /\ turns'[i] = turns[i]
  <2> HIDE DEF t
  <2> QED  BY <1>1, <1>2
<1>4. t.recent /\ t.bytes = 0 /\ 0 <= MaxBytes
  BY CostLedgerAssumption DEF CostLedgerAssumption
<1>5. TurnsAge'
  <2> HIDE DEF t
  <2>1. \A i \in DOMAIN turns' : 
        \/ i \in DOMAIN turns /\ turns'[i] = turns[i]
        \/ i = z + 1 /\ turns'[i] = t
    BY <1>1, <1>3
  <2>2. \A i \in DOMAIN turns' : \A k \in 1..i : i \in DOMAIN turns => k \in DOMAIN turns
    BY <1>1
  <2>3. \A i \in DOMAIN turns' : \A k \in 1..i : turns'[k].recent => turns'[i].recent
    BY <1>3, <1>4, <2>1, <2>2 DEF CostInv, TurnsAge
  <2> QED  BY <1>4, <2>1, <2>3 DEF CostInv, TurnsAge
<1>6. Grows
  BY <1>2, <1>3, KeptKept, CostTyped DEF Grows, CanopyTurns
<1> QED  BY <1>2, <1>3, <1>5, <1>6, CanopyMoves

\* Only recent turns write.
LEMMA StepEmit ==
  ASSUME CostTypes, CostInv, NEW i \in DOMAIN turns, Emit(i)
  PROVE  CostTypes' /\ CostInv'
<1>1. turns[i] \in CanopyTurns /\ turns[i].recent /\ turns[i].bytes < MaxBytes
  BY CostTyped DEF Emit
<1>2. /\ [turns[i] EXCEPT !.bytes = @ + 1] \in CanopyTurns
      /\ turns' = [turns EXCEPT ![i] = [turns[i] EXCEPT !.bytes = @ + 1]]
      /\ UNCHANGED <<rows, ended, cost, job>>
  BY <1>1 DEF CanopyTurns, Emit
<1>3. turns' \in Seq(CanopyTurns) /\ DOMAIN turns' = DOMAIN turns
  BY <1>2 DEF CostTypes
<1>4. /\ \A k \in DOMAIN turns : k # i => turns'[k] = turns[k]
      /\ turns'[i] = [turns[i] EXCEPT !.bytes = @ + 1]
  BY <1>2
<1>5. /\ turns'[i].bytes = turns[i].bytes + 1 /\ turns'[i].recent
      /\ turns'[i].status = turns[i].status /\ turns[i].bytes \in Nat
  BY <1>1, <1>4 DEF CanopyTurns
<1>6. TurnsAge'
  <2>1. ASSUME NEW k \in DOMAIN turns', ~turns'[k].recent PROVE turns'[k].status # "running"
    <3>1. k \in DOMAIN turns /\ \A m \in DOMAIN turns : ~turns[m].recent => turns[m].status # "running"
      BY <1>3 DEF CostInv, TurnsAge
    <3>2. CASE k = i
      BY <1>5, <2>1, <3>2
    <3>3. CASE k # i
      <4>1. turns'[k] = turns[k]
        BY <1>4, <3>1, <3>3
      <4> QED  BY <2>1, <3>1, <4>1
    <3> QED  BY <3>2, <3>3
  <2>2. \A l \in DOMAIN turns : \A k \in 1..l : k \in DOMAIN turns
    BY DEF CostTypes
  <2>3. \A l \in DOMAIN turns' : \A k \in 1..l : turns'[k].recent => turns'[l].recent
    BY <1>1, <1>3, <1>4, <1>5, <2>2 DEF CostInv, TurnsAge
  <2>4. \A k \in DOMAIN turns' : turns'[k].bytes <= MaxBytes
    <3>1. turns'[i].bytes <= MaxBytes
      BY <1>1, <1>5, CostLedgerAssumption DEF CostLedgerAssumption
    <3> QED  BY <1>3, <1>4, <3>1 DEF CostInv, TurnsAge
  <2> QED  BY <2>1, <2>3, <2>4 DEF TurnsAge
<1>7. Grows
  <2>1. \A k \in DOMAIN turns : turns[k].bytes \in Nat
    BY CostTyped DEF CanopyTurns
  <2>2. ASSUME NEW k \in DOMAIN turns PROVE turns'[k].bytes >= turns[k].bytes
    <3>1. CASE k = i
      BY <1>5, <3>1
    <3>2. CASE k # i
      BY <1>4, <2>1, <3>2
    <3> QED  BY <3>1, <3>2
  <2>3. \A k \in DOMAIN turns : ~turns'[k].recent => turns'[k] = turns[k]
    BY <1>4, <1>5
  <2> QED  BY <1>2, <1>3, <2>2, <2>3, KeptKept DEF Grows
<1> QED  BY <1>2, <1>3, <1>6, <1>7, CanopyMoves

\* A turn settles when no worker reads: nothing is claimed of what is read.
LEMMA StepSettles ==
  ASSUME CostTypes, CostInv, NEW i \in DOMAIN turns, SettlesDown(i)
  PROVE  CostTypes' /\ CostInv'
<1>1. /\ turns[i] \in CanopyTurns /\ turns[i].status # "running"
      /\ \A k \in 1..(i - 1) : ~turns[k].recent
      /\ \A w \in Workers : job[w].step \in {"idle", "drive"}
  BY CostTyped DEF SettlesDown
<1>2. /\ [turns[i] EXCEPT !.recent = FALSE] \in CanopyTurns
      /\ turns' = [turns EXCEPT ![i] = [turns[i] EXCEPT !.recent = FALSE]]
      /\ UNCHANGED <<rows, ended, cost, job>>
  BY <1>1 DEF CanopyTurns, SettlesDown
<1>3. turns' \in Seq(CanopyTurns) /\ DOMAIN turns' = DOMAIN turns
  BY <1>2 DEF CostTypes
<1>4. /\ \A k \in DOMAIN turns : k # i => turns'[k] = turns[k]
      /\ turns'[i] = [turns[i] EXCEPT !.recent = FALSE]
  BY <1>2
<1>5. turns'[i].bytes = turns[i].bytes /\ ~turns'[i].recent /\ turns'[i].status # "running"
  BY <1>1, <1>4 DEF CanopyTurns
<1>6. CostTypes'
  BY <1>2, <1>3 DEF CostTypes
<1>7. TurnsAge'
  <2>1. ASSUME NEW k \in DOMAIN turns', ~turns'[k].recent PROVE turns'[k].status # "running"
    <3>1. k \in DOMAIN turns /\ \A m \in DOMAIN turns : ~turns[m].recent => turns[m].status # "running"
      BY <1>3 DEF CostInv, TurnsAge
    <3>2. CASE k = i
      BY <1>5, <3>2
    <3>3. CASE k # i
      <4>1. turns'[k] = turns[k]
        BY <1>4, <3>1, <3>3
      <4> QED  BY <2>1, <3>1, <4>1
    <3> QED  BY <3>2, <3>3
  <2>2. \A l \in DOMAIN turns : \A k \in 1..l : k \in DOMAIN turns
    BY DEF CostTypes
  <2>3. ASSUME NEW l \in DOMAIN turns', NEW k \in 1..l, turns'[k].recent PROVE turns'[l].recent
    <3>1. k # i /\ turns[k].recent /\ turns[l].recent
      BY <1>3, <1>4, <1>5, <2>2, <2>3 DEF CostInv, TurnsAge
    <3>2. CASE l = i
      <4>1. k \in 1..(i - 1)
        BY <3>1, <3>2, <1>3 DEF CostTypes
      <4> QED  BY <1>1, <3>1, <4>1
    <3> QED  BY <1>3, <1>4, <3>1, <3>2
  <2>4. \A k \in DOMAIN turns' : turns'[k].bytes <= MaxBytes
    BY <1>3, <1>4, <1>5 DEF CostInv, TurnsAge
  <2> QED  BY <2>1, <2>3, <2>4 DEF TurnsAge
<1>8. Len(turns) <= Len(turns') /\ (turns # <<>> => turns' # <<>>)
  BY <1>2 DEF CostTypes
<1>9. RowsInv'
  BY <1>2, <1>6, <1>8, RowsKept DEF CostInv
<1>10. LocalInv'
  BY <1>2, LocalKept DEF CostInv, CostTypes
<1>11. DriverInv'
  BY <1>2, KeptKept DEF CostInv, DriverInv, Driving, AppendInv, JobAt, LocalRowIs, RawOf, LocalPiece
<1>12. LookInv'
  BY <1>1, <1>2 DEF LookInv, Looking, JobAt
<1>13. \A w \in Workers : JobInv(w)'
  BY <1>1, <1>2, <1>8, EarlyInv DEF CostInv, EveryJob, JobInv, KnownInv
<1> QED  BY <1>6, <1>7, <1>9, <1>10, <1>11, <1>12, <1>13 DEF CostInv, EveryJob, JobInv

\* Row m is new, or takes the place of s.
SeatsAt(m, s, row) ==
  /\ rows'[m] = row /\ DOMAIN rows' = DOMAIN rows \cup {m}
  /\ s # 0 => m = s
  /\ s = 0 => m \notin DOMAIN rows
  /\ \A r \in DOMAIN rows : r # m => rows'[r] = rows[r]

\* Storing a row replaces one, or adds one.
LEMMA SeatedIs ==
  ASSUME CostTypes, NEW row \in CostRows, NEW s, s = 0 \/ s \in DOMAIN rows, rows' = Seated(s, row)
  PROVE  /\ rows' \in Seq(CostRows)
         /\ \E m \in DOMAIN rows' : SeatsAt(m, s, row)
<1>1. rows \in Seq(CostRows) /\ Len(rows) \in Nat /\ DOMAIN rows = 1..Len(rows)
  BY DEF CostTypes
<1>2. CASE s = 0
  <2>1. rows' = Append(rows, row)
    BY <1>2 DEF Seated
  <2>2. /\ rows' \in Seq(CostRows) /\ DOMAIN rows' = 1..(Len(rows) + 1)
        /\ rows'[Len(rows) + 1] = row
        /\ \A r \in 1..Len(rows) : rows'[r] = rows[r]
    BY <1>1, <2>1
  <2>3. /\ Len(rows) + 1 \in DOMAIN rows' /\ DOMAIN rows' = DOMAIN rows \cup {Len(rows) + 1}
        /\ Len(rows) + 1 \notin DOMAIN rows
    BY <1>1, <2>2
  <2>4. SeatsAt(Len(rows) + 1, s, row)
    BY <1>1, <1>2, <2>2, <2>3 DEF SeatsAt
  <2> QED  BY <2>2, <2>3, <2>4
<1>3. CASE s # 0
  <2>1. rows' = [rows EXCEPT ![s] = row] /\ s \in DOMAIN rows
    BY <1>3 DEF Seated
  <2>2. rows' \in Seq(CostRows) /\ s \in DOMAIN rows' /\ SeatsAt(s, s, row)
    BY <1>1, <1>3, <2>1 DEF SeatsAt
  <2> QED  BY <2>2
<1> QED  BY <1>2, <1>3

\* What a driver is about to store: what is kept, and its turn.
LEMMA AppendedIs ==
  ASSUME CostTypes, CostInv, NEW w \in Workers, JobAt(w, "append")
  PROVE  LET c == job[w].raw IN
         /\ c \in Raws /\ Apart(c) /\ BytesOf(c) = Kept \cup {<<0, ended>>}
         /\ job[w].seat = LocalRow
<1> DEFINE p == LocalPiece(ended)
           q == <<p>>
<1>1. AppendInv(w)
  BY DEF CostInv, DriverInv
<1>2. /\ LocalRow \in Nat /\ Prefix \in Raws /\ BytesOf(Prefix) = Kept /\ Apart(Prefix)
      /\ LocalRow = 0 => \A r \in DOMAIN rows : ~LocalRowIs(r)
      /\ LocalRow # 0 => LocalRowIs(LocalRow)
      /\ \A r \in DOMAIN rows : LocalRowIs(r) => r = LocalRow
  BY PrefixIs DEF CostInv
<1>3. job[w].seat = LocalRow
  BY <1>1, <1>2 DEF AppendInv, LocalRowIs
<1>4. job[w].raw = Append(Prefix, p) /\ <<0, ended>> \notin Kept
  BY <1>1, <1>3 DEF AppendInv, Prefix
<1>5. p = {<<0, ended>>} /\ p \in SUBSET (Nat \X Nat)
  BY DEF LocalPiece, CostTypes
<1> HIDE DEF p
<1>6. q \in Raws /\ DOMAIN q = {1} /\ q[1] = p
  BY <1>5 DEF Raws
<1>7. job[w].raw = Prefix \o q
  BY <1>2, <1>4, <1>5, AppendIsConcat, ZenonT(60) DEF Raws
<1> HIDE DEF q
<1>8. Apart(q) /\ BytesOf(q) = {<<0, ended>>}
  BY <1>5, <1>6 DEF Apart, BytesOf
<1>9. BytesOf(Prefix) \cap BytesOf(q) = {}
  BY <1>2, <1>4, <1>8
<1> QED  BY <1>2, <1>3, <1>6, <1>7, <1>8, <1>9, Concats

\* The local row is stored: a cached row that has this turn there is not yet.
LEMMA StepAppend ==
  ASSUME CostTypes, CostInv, NEW w \in Workers, AppendTurn(w)
  PROVE  CostTypes' /\ CostInv'
<1> DEFINE s == job[w].seat
           c == job[w].raw
           row == [source |-> "local", ids |-> 0, raw |-> c]
           j == [job[w] EXCEPT !.step = "look", !.raw = <<>>, !.seat = 0]
<1>1. /\ JobAt(w, "append") /\ job[w] \in Jobs /\ (job[w].known => turns # <<>>)
      /\ Takes(w, j) /\ rows' = Seated(s, row) /\ turns' = turns /\ ended' = ended /\ cost' = cost
  BY CostTyped DEF AppendTurn, CostInv, EveryJob, JobInv, KnownInv
<1>2. c \in Raws /\ Apart(c) /\ BytesOf(c) = Kept \cup {<<0, ended>>} /\ s = LocalRow
  BY <1>1, AppendedIs
<1>3. /\ LocalRow \in Nat
      /\ LocalRow = 0 => \A r \in DOMAIN rows : ~LocalRowIs(r)
      /\ LocalRow # 0 => LocalRowIs(LocalRow)
      /\ \A r \in DOMAIN rows : LocalRowIs(r) => r = LocalRow
  BY PrefixIs DEF CostInv
<1>4. ended \in Nat /\ ended > 0 /\ <<0, ended>> \notin Kept
  BY <1>1 DEF CostInv, DriverInv, AppendInv, CostTypes
<1>5. j \in Jobs /\ j.step = "look" /\ j.known = job[w].known
  BY <1>1, NoJobType DEF Jobs, JobSteps
<1> HIDE DEF j, c
<1>6. row \in CostRows /\ row.source = "local" /\ row.raw = c
  BY <1>2 DEF CostRows
<1> HIDE DEF row, s
<1>7. s = 0 \/ s \in DOMAIN rows
  BY <1>2, <1>3 DEF LocalRowIs
<1>8. PICK m \in DOMAIN rows' :
        /\ rows'[m] = row /\ DOMAIN rows' = DOMAIN rows \cup {m}
        /\ s # 0 => m = s
        /\ s = 0 => m \notin DOMAIN rows
        /\ \A r \in DOMAIN rows : r # m => rows'[r] = rows[r]
  <2>1. rows' = Seated(s, row) /\ row \in CostRows
    BY <1>1, <1>6
  <2>2. \E m \in DOMAIN rows' : SeatsAt(m, s, row)
    BY <1>7, <2>1, SeatedIs
  <2> QED  BY <2>2 DEF SeatsAt
<1>9. job'[w] = j /\ \A v \in Workers : v # w => job'[v] = job[v]
  BY <1>1, JobMoves
<1>10. CostTypes'
  <2>1. rows' \in Seq(CostRows)
    <3>1. rows' = Seated(s, row) /\ row \in CostRows
      BY <1>1, <1>6
    <3> QED  BY <1>7, <3>1, SeatedIs
  <2>2. job' \in [Workers -> Jobs]
    BY <1>1, <1>5, JobMoves
  <2> QED  BY <1>1, <2>1, <2>2 DEF CostTypes
<1>11. \A r \in DOMAIN rows : r # m => rows[r].source # "local"
  BY <1>2, <1>3, <1>8 DEF LocalRowIs
<1>12. \A r \in DOMAIN rows' : rows'[r].source = "local" <=> r = m
  BY <1>6, <1>8, <1>11
<1>13. Kept' = Kept \cup {<<0, ended>>}
  <2>1. {r \in DOMAIN rows' : rows'[r].source = "local"} = {m}
    BY <1>12
  <2>2. Kept' = BytesOf(rows[m].raw)'
    BY <2>1 DEF Kept, BytesOf
  <2>3. BytesOf(rows[m].raw)' = BytesOf(c)
    BY <1>6, <1>8 DEF BytesOf
  <2> QED  BY <1>2, <2>2, <2>3
<1>14. LocalInv'
  BY <1>1, <1>4, <1>12, <1>13 DEF LocalInv, CostInv, LocalRowIs
<1>15. \A r \in DOMAIN rows : r # m => Sound(rows[r].raw)
  BY DEF CostInv, RowsInv
<1>16. RowsInv'
  <2>1. ASSUME NEW r \in DOMAIN rows', r # m
        PROVE  /\ Sound(rows[r].raw)'
               /\ rows'[r].source = "canopy" => rows'[r].ids \in 1..Len(turns')
    <3>1. r \in DOMAIN rows /\ rows'[r] = rows[r]
      BY <1>8, <2>1
    <3>2. Sound(rows[r].raw) /\ (rows[r].source = "canopy" => rows[r].ids \in 1..Len(turns))
      BY <3>1 DEF CostInv, RowsInv
    <3> QED  BY <1>1, <1>13, <3>1, <3>2 DEF Sound, Apart, BytesOf
  <2>2. rows'[m].raw = c /\ rows'[m].source # "canopy"
    BY <1>6, <1>8
  <2>3. \A b \in BytesOf(c) : b \in Kept'
    BY <1>2, <1>13
  <2>4. Sound(rows[m].raw)'
    BY <1>2, <2>2, <2>3 DEF Sound, Apart, BytesOf
  <2> QED  BY <2>1, <2>2, <2>4 DEF RowsInv
<1>17. DriverInv'
  <2>1. \A v \in Workers : ~Driving(v)'
    BY <1>1, <1>5, <1>9 DEF Driving, CostInv, DriverInv, JobAt
  <2> QED  BY <2>1 DEF DriverInv, Driving, AppendInv, JobAt
<1>18. LookInv'
  <2> SUFFICES ASSUME NEW r \in DOMAIN rows', Covers(r)' PROVE FALSE
    BY DEF LookInv
  <2>1. r \in DOMAIN rows /\ rows'[r] = rows[r] /\ <<0, ended>> \in BytesOf(rows[r].raw)'
    BY <1>6, <1>8, <1>13 DEF Covers
  <2>2. <<0, ended>> \in BytesOf(rows[r].raw)
    BY <2>1 DEF BytesOf
  <2> QED  BY <1>4, <2>1, <2>2 DEF CostInv, RowsInv, Sound
<1>19. TurnsAge'
  BY <1>1 DEF CostInv, TurnsAge
<1>20. Grows
  <2>1. \A r \in DOMAIN rows : r \in DOMAIN rows' /\ rows'[r].source = rows[r].source
    BY <1>2, <1>3, <1>6, <1>8 DEF LocalRowIs
  <2> QED  BY <1>1, <1>13, <2>1, CostTyped DEF Grows, CanopyTurns
<1>21. \A v \in Workers : JobInv(v)'
  BY <1>1, <1>5, <1>9, <1>10, <1>20, EarlyInv, OthersKept DEF CostInv, EveryJob, JobInv
<1> QED  BY <1>10, <1>14, <1>16, <1>17, <1>18, <1>19, <1>21 DEF CostInv, EveryJob, JobInv

\* The canopy row is stored: it holds all that settled.
LEMMA StepSeat ==
  ASSUME CostTypes, CostInv, NEW w \in Workers, Seat(w)
  PROVE  CostTypes' /\ CostInv'
<1> DEFINE s == job[w].seat
           c == job[w].raw
           seen == job[w].seen
           row == [source |-> "canopy", ids |-> Len(seen), raw |-> c]
           j == [job[w] EXCEPT !.step = "derive"]
<1>1. /\ JobAt(w, "seat") /\ job[w] \in Jobs /\ job[w].known /\ turns # <<>>
      /\ Takes(w, j) /\ rows' = Seated(s, row) /\ turns' = turns /\ ended' = ended /\ cost' = cost
  BY CostTyped DEF Seat, CostInv, EveryJob, JobInv, KnownInv, JobAt
<1>2. /\ c \in Raws /\ Len(seen) \in 1..Len(turns) /\ Len(seen) \in Nat
  BY <1>1, JobTyped DEF CostInv, EveryJob, JobInv, KnownInv, JobAt
<1>3. /\ Sound(c) /\ job[w].owed \subseteq BytesOf(c) /\ Speaks(BytesOf(c), seen)
      /\ HoldsSettled(BytesOf(c), Len(seen))
      /\ s # 0 => s \in DOMAIN rows /\ rows[s].source = "canopy"
  BY <1>1 DEF CostInv, EveryJob, JobInv, SeatInv
<1>4. /\ j \in Jobs /\ j.step = "derive" /\ j.known = job[w].known /\ j.raw = c /\ j.seen = seen
      /\ j.owed = job[w].owed
  BY <1>1 DEF Jobs, JobSteps
<1> HIDE DEF j, c, seen
<1>5. row \in CostRows /\ row.source = "canopy" /\ row.raw = c /\ row.ids = Len(seen)
  BY <1>2 DEF CostRows
<1> HIDE DEF row, s
<1>6. s = 0 \/ s \in DOMAIN rows
  BY <1>3
<1>7. PICK m \in DOMAIN rows' :
        /\ rows'[m] = row /\ DOMAIN rows' = DOMAIN rows \cup {m}
        /\ s # 0 => m = s
        /\ s = 0 => m \notin DOMAIN rows
        /\ \A r \in DOMAIN rows : r # m => rows'[r] = rows[r]
  <2>1. rows' = Seated(s, row) /\ row \in CostRows
    BY <1>1, <1>5
  <2>2. \E m \in DOMAIN rows' : SeatsAt(m, s, row)
    BY <1>6, <2>1, SeatedIs
  <2> QED  BY <2>2 DEF SeatsAt
<1>8. job'[w] = j /\ \A v \in Workers : v # w => job'[v] = job[v]
  BY <1>1, JobMoves
<1>9. CostTypes'
  <2>1. rows' \in Seq(CostRows)
    <3>1. rows' = Seated(s, row) /\ row \in CostRows
      BY <1>1, <1>5
    <3> QED  BY <1>6, <3>1, SeatedIs
  <2>2. job' \in [Workers -> Jobs]
    BY <1>1, <1>4, JobMoves
  <2> QED  BY <1>1, <2>1, <2>2 DEF CostTypes
<1>10. \A r \in DOMAIN rows : r \in DOMAIN rows' /\ rows'[r].source = rows[r].source
  BY <1>3, <1>5, <1>7
<1>11. \A r : LocalRowIs(r)' <=> LocalRowIs(r)
  BY <1>5, <1>7, <1>10 DEF LocalRowIs
<1>12. \A r \in DOMAIN rows : LocalRowIs(r) => rows'[r] = rows[r]
  BY <1>5, <1>7, <1>10 DEF LocalRowIs
<1>13. Kept' = Kept
  <2>1. {r \in DOMAIN rows' : rows'[r].source = "local"}
          = {r \in DOMAIN rows : rows[r].source = "local"}
    BY <1>5, <1>7, <1>10
  <2>2. \A r \in {x \in DOMAIN rows : rows[x].source = "local"} : rows'[r] = rows[r]
    BY <1>12 DEF LocalRowIs
  <2> QED  BY <2>1, <2>2 DEF Kept, BytesOf
<1>14. LocalInv'
  <2>1. \A r \in DOMAIN rows' : LocalRowIs(r)' => r \in DOMAIN rows
    BY <1>11 DEF LocalRowIs
  <2> QED  BY <1>1, <1>11, <1>13, <2>1 DEF LocalInv, CostInv
<1>15. RowsInv'
  <2>1. ASSUME NEW r \in DOMAIN rows', r # m
        PROVE  /\ Sound(rows[r].raw)'
               /\ rows'[r].source = "canopy" => rows'[r].ids \in 1..Len(turns')
    <3>1. r \in DOMAIN rows /\ rows'[r] = rows[r]
      BY <1>7, <2>1
    <3>2. Sound(rows[r].raw) /\ (rows[r].source = "canopy" => rows[r].ids \in 1..Len(turns))
      BY <3>1 DEF CostInv, RowsInv
    <3> QED  BY <1>1, <1>13, <3>1, <3>2 DEF Sound, Apart, BytesOf
  <2>2. rows'[m].raw = c /\ rows'[m].ids \in 1..Len(turns')
    BY <1>1, <1>2, <1>5, <1>7
  <2>3. Sound(rows[m].raw)'
    BY <1>3, <1>13, <2>2 DEF Sound, Apart, BytesOf
  <2> QED  BY <2>1, <2>2, <2>3 DEF RowsInv
<1>16. DriverInv'
  <2>1. \A v \in Workers : Driving(v)' => Driving(v) /\ job'[v] = job[v]
    BY <1>4, <1>8 DEF Driving
  <2>2. ASSUME NEW v \in Workers, JobAt(v, "append")' PROVE AppendInv(v)'
    <3>1. job'[v] = job[v] /\ JobAt(v, "append")
      BY <2>1, <2>2 DEF JobAt, Driving
    <3>2. AppendInv(v)
      BY DEF CostInv, DriverInv
    <3>3. RawOf(job[v].seat)' = RawOf(job[v].seat)
      BY <1>12, <3>1, <3>2 DEF RawOf, AppendInv, LocalRowIs
    <3>4. \A r \in DOMAIN rows' : LocalRowIs(r)' => r \in DOMAIN rows /\ LocalRowIs(r)
      BY <1>11 DEF LocalRowIs
    <3>5. LocalPiece(ended)' = LocalPiece(ended)
      BY <1>1 DEF LocalPiece
    <3> QED  BY <1>1, <1>11, <1>13, <3>1, <3>2, <3>3, <3>4, <3>5 DEF AppendInv
  <2>3. \A v \in Workers : AppendInv(v)'
    BY <2>2 DEF AppendInv
  <2>4. \A v, u \in Workers : Driving(v)' /\ Driving(u)' => v = u
    BY <2>1 DEF CostInv, DriverInv
  <2> QED  BY <2>3, <2>4 DEF DriverInv
<1>17. TurnsAge' /\ Grows
  <2>1. TurnsAge'
    BY <1>1 DEF CostInv, TurnsAge
  <2> QED  BY <1>1, <1>10, <1>13, <2>1, CostTyped DEF Grows, CanopyTurns
<1>18. LookInv'
  <2> SUFFICES ASSUME NEW v \in Workers, Looking(v)', NEW r \in DOMAIN rows', Covers(r)'
               PROVE  Full(r)'
    BY DEF LookInv
  <2>1. Looking(v)
    BY <1>4, <1>8 DEF Looking, JobAt
  <2>2. CASE r = m
    BY <1>1, <1>3, <1>5, <1>7, <2>2 DEF Full, HoldsSettled, Holds, Piece, BytesOf
  <2>3. CASE r # m
    <3>1. r \in DOMAIN rows /\ rows'[r] = rows[r]
      BY <1>7, <2>3
    <3>2. Covers(r)
      BY <1>13, <3>1 DEF Covers, BytesOf
    <3>3. Full(r)
      BY <2>1, <3>1, <3>2 DEF CostInv, LookInv
    <3> QED  BY <1>1, <3>1, <3>3 DEF Full, HoldsSettled, Holds, Piece, BytesOf
  <2> QED  BY <2>2, <2>3
<1>19. JobInv(w)'
  <2>1. DeriveInv(w)'
    BY <1>3, <1>4, <1>8 DEF DeriveInv, Sound, Apart, Speaks, BytesOf
  <2> QED  BY <1>1, <1>4, <1>8, <2>1 DEF JobInv, KnownInv, FetchInv, ComposeInv, SeatInv, JobAt
<1>20. \A v \in Workers : JobInv(v)'
  BY <1>8, <1>9, <1>17, <1>19, OthersKept DEF CostInv, EveryJob, JobInv
<1> QED  BY <1>9, <1>14, <1>15, <1>16, <1>17, <1>18, <1>20 DEF CostInv, EveryJob, JobInv

-----------------------------------------------------------------------------

\* A session that has not run claims nothing.
LEMMA CostInitInv == CostInit => CostTypes /\ CostInv
<1> SUFFICES ASSUME CostInit PROVE CostTypes /\ CostInv
  OBVIOUS
<1>1. CostTypes
  BY NoJobType, SizeZero DEF CostInit, CostTypes
<1>2. DOMAIN rows = {} /\ DOMAIN turns = {} /\ Kept = {}
  BY DEF CostInit, Kept
<1>3. \A w \in Workers : job[w].step = "idle" /\ ~job[w].known
  BY DEF CostInit, NoJob
<1>4. \A w \in Workers : JobInv(w)
  BY <1>3 DEF JobInv, KnownInv, FetchInv, ComposeInv, SeatInv, DeriveInv, Counts, JobAt
<1>5. LookInv /\ DriverInv
  BY <1>3 DEF LookInv, Looking, DriverInv, Driving, AppendInv, JobAt
<1>6. TurnsAge /\ LocalInv /\ RowsInv
  BY <1>2 DEF TurnsAge, LocalInv, RowsInv
<1> QED  BY <1>1, <1>4, <1>5, <1>6 DEF CostInv, EveryJob, JobInv

\* Every step keeps the invariant.
LEMMA CostStep ==
  ASSUME ~CachedCommand, CostTypes, CostInv, [CostNext]_costVars
  PROVE  CostTypes' /\ CostInv'
<1>1. CASE UNCHANGED costVars
  <2>1. TurnsAge' /\ Grows /\ turns' \in Seq(CanopyTurns)
    BY <1>1, TurnsSame DEF costVars, CostInv, CostTypes
  <2> QED  BY <1>1, <2>1, CanopyMoves DEF costVars
<1>2. CASE Dispatch
  BY <1>2, StepDispatch
<1>3. ASSUME NEW i \in DOMAIN turns, Emit(i) \/ SettlesDown(i) PROVE CostTypes' /\ CostInv'
  BY <1>3, StepEmit, StepSettles
<1>4. ASSUME NEW w \in Workers,
             Drive(w) \/ ReadsCost(w) \/ ReadPrior(w) \/ AppendTurn(w) \/ LookUp(w)
      PROVE  CostTypes' /\ CostInv'
  BY <1>4, StepDrive, StepReads, StepReadPrior, StepAppend, StepLook
<1>5. ASSUME NEW w \in Workers, NEW i \in DOMAIN turns, NEW final \in CanopyStatuses,
             ReconcileCost(w, i, final)
      PROVE  CostTypes' /\ CostInv'
  BY <1>5, StepReconcile
<1>6. ASSUME NEW w \in Workers,
             FetchTurns(w) \/ FetchFails(w) \/ Compose(w) \/ Seat(w) \/ Derive(w) \/ JobStops(w)
      PROVE  CostTypes' /\ CostInv'
  BY <1>6, StepFetch, StepFails, StepCompose, StepSeat, StepDerive, StepStops
<1> QED  BY <1>1, <1>2, <1>3, <1>4, <1>5, <1>6 DEF CostNext

\* The invariant is about more than what is saved.
LEMMA CostInvCounts == CostInv => CostIsWhole
<1> SUFFICES ASSUME CostInv, NEW w \in Workers, JobAt(w, "derive"), Saves(w),
                    turns # <<>> => job[w].known
             PROVE  /\ job[w].owed \subseteq BytesOf(job[w].raw) /\ Apart(job[w].raw)
                    /\ Speaks(BytesOf(job[w].raw), job[w].seen)
  BY DEF CostIsWhole, Speaks
<1>1. job[w].saves /\ job[w].whole
  BY DEF Saves
<1> QED  BY <1>1 DEF CostInv, EveryJob, JobInv, DeriveInv, Counts

\* Whatever drivers, reconciles, views and commands append, fetch and seat in
\* between, and whichever calls fail, a figure that is saved counts every byte
\* there was when its read began, and none twice; the command reads past the
\* cache, as it does without --no-refresh.
THEOREM CostCountsAll == ASSUME ~CachedCommand PROVE CostSpec => []CostIsWhole
<1>1. CostInit => CostTypes /\ CostInv
  BY CostInitInv
<1>2. CostTypes /\ CostInv /\ [CostNext]_costVars => CostTypes' /\ CostInv'
  BY CostStep
<1>3. CostInv => CostIsWhole
  BY CostInvCounts
<1> QED  BY <1>1, <1>2, <1>3, PTL DEF CostSpec

=============================================================================
