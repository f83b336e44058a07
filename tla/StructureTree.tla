----------------------------- MODULE StructureTree -----------------------------
(***************************************************************************)
(* The tree of phases, skills and tools that ingest/structure_aggregator.py *)
(* makes of a transcript, as a state that each event of the transcript     *)
(* changes.  What a turn costs is abstracted to its line number: a row's   *)
(* spend is a sequence of lines, in which a line that was counted twice    *)
(* shows twice.  Its flag "partial" and its tokens go where its cost goes. *)
(* Times, labels and parallel groups are left out.                         *)
(*                                                                         *)
(* A skill is named by the phase that the registry has for it, or Unknown. *)
(***************************************************************************)
EXTENDS Naturals, Sequences, SequencesExt

CONSTANTS Phases, Unknown

Setup == "_orchestration"
Other == "_other"
Buckets == Phases \cup {Setup, Other}

\* open: the dispatches that have no result, outermost first.  active: the skill
\* closed last, at most one.  phase: <<>> before the first.  held: a dispatching
\* turn whose dispatch comes next.  told: tools whose row has its result.
Empty == [open |-> <<>>, active |-> <<>>, phase |-> <<>>, held |-> <<>>,
          rows |-> [b \in Buckets |-> <<>>], inline |-> [b \in Buckets |-> <<>>],
          tools |-> [b \in Buckets |-> {}], told |-> {}]

Frame(id, phase, spent) == [id |-> id, phase |-> phase, spent |-> spent, kids |-> <<>>, tools |-> {}]

Bucket(t) == IF t.phase = <<>> THEN Setup ELSE t.phase[1]

OnLast(frames, field, more) == [frames EXCEPT ![Len(frames)] = [@ EXCEPT ![field] = more]]

\* The active skill goes to its phase.
Flush(t) ==
  IF t.active = <<>> THEN t
  ELSE [t EXCEPT !.active = <<>>, !.rows[t.active[1].phase] = Append(@, t.active[1])]

SpendOn(frames, line) == OnLast(frames, "spent", Append(Last(frames).spent, line))

Turn(t, line, dispatches) ==
  IF t.open # <<>> THEN [t EXCEPT !.open = SpendOn(@, line)]
  ELSE IF dispatches THEN [t EXCEPT !.held = <<line>>]
  ELSE IF t.active # <<>> THEN [t EXCEPT !.active = SpendOn(@, line)]
  ELSE [t EXCEPT !.inline[Bucket(t)] = Append(@, line)]

PhaseOf(t, skill) ==
  IF skill # Unknown THEN skill
  ELSE IF t.open # <<>> THEN Last(t.open).phase
  ELSE IF t.phase # <<>> THEN t.phase[1]
  ELSE Other

\* The first dispatch of a line takes the turn it belongs to.
Dispatch(t, id, skill) ==
  LET top == t.open = <<>>
      u   == IF top THEN Flush(t) ELSE t
  IN [u EXCEPT !.phase = IF top /\ skill # Unknown THEN <<skill>> ELSE @,
               !.open = Append(@, Frame(id, PhaseOf(t, skill), t.held)),
               !.held = <<>>]

\* A task that names a phase is set to in_progress.
Begin(t, phase) ==
  IF t.open # <<>> \/ t.phase = <<phase>> THEN t ELSE [Flush(t) EXCEPT !.phase = <<phase>>]

ToolOn(frames, id) == OnLast(frames, "tools", Last(frames).tools \cup {id})

Tool(t, id) ==
  IF t.open # <<>> THEN [t EXCEPT !.open = ToolOn(@, id)]
  ELSE IF t.active # <<>> THEN [t EXCEPT !.active = ToolOn(@, id)]
  ELSE [t EXCEPT !.tools[Bucket(t)] = @ \cup {id}]

UnderAlone(frames, f) == OnLast(frames, "kids", Append(Last(frames).kids, f))

\* _propagate_to_parent, and the row under the parent's.
Under(frames, f) ==
  OnLast(OnLast(frames, "spent", Last(frames).spent \o f.spent), "kids", Append(Last(frames).kids, f))

Close(t, i) ==
  LET f == t.open[i]  rest == RemoveAt(t.open, i)
  IN IF rest # <<>> THEN [t EXCEPT !.open = Under(rest, f)]
     ELSE [Flush(t) EXCEPT !.open = <<>>, !.active = <<f>>]

HereOutside(t) == IF t.active # <<>> THEN t.active[1].tools ELSE t.tools[Bucket(t)]

\* Where the row of a result is looked for.
Here(t) ==
  IF t.open # <<>> THEN Last(t.open).tools
  ELSE IF t.active # <<>> THEN t.active[1].tools
  ELSE t.tools[Bucket(t)]

Result(t, id) ==
  IF \E i \in DOMAIN t.open : t.open[i].id = id
  THEN Close(t, CHOOSE i \in DOMAIN t.open : t.open[i].id = id)
  ELSE [t EXCEPT !.told = IF id \in Here(t) THEN @ \cup {id} ELSE @]

\* The end of the transcript: what is open is attached as incomplete.
Outer(t) ==
  FoldRight(LAMBDA f, below : IF below = <<>> THEN <<f>> ELSE Under(<<f>>, below[1]), t.open, <<>>)

FinishedInPhase(t) ==
  LET outer == Outer(t)  done == Flush(t)
  IN IF outer = <<>> THEN done ELSE [done EXCEPT !.open = <<>>, !.rows[Bucket(t)] = Append(@, outer[1])]

Finished(t) ==
  LET outer == Outer(t)  done == Flush(t)
  IN IF outer = <<>> THEN done
     ELSE [done EXCEPT !.open = <<>>, !.rows[outer[1].phase] = Append(@, outer[1])]

\* What a phase is charged: its skill rows, and the synthetic one.
Spend(t, b) ==
  FoldLeft(LAMBDA sum, row : sum \o row.spent, Finished(t).inline[b], Finished(t).rows[b])

=============================================================================
