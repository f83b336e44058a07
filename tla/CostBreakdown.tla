----------------------------- MODULE CostBreakdown -----------------------------
(***************************************************************************)
(* The breakdown by phase and skill that ingest/cost_aggregator.py makes   *)
(* of a transcript, with the abstractions of StructureTree.  The turns of  *)
(* subagents are found by their ancestry.                                  *)
(***************************************************************************)
EXTENDS Naturals, Sequences, SequencesExt

CONSTANTS Phases, Unknown

Setup == "_orchestration"
Other == "_other"
Buckets == Phases \cup {Setup, Other}

\* rows: the skills' invocations, by phase.  inline: the orchestrator's own turns.
Empty == [open |-> <<>>, phase |-> <<>>, held |-> <<>>,
          rows |-> [b \in Buckets |-> <<>>], inline |-> [b \in Buckets |-> <<>>]]

Segment(id, line, skill, spent) == [id |-> id, line |-> line, skill |-> skill, spent |-> spent]

\* _resolve_segment_for_sidechain: the segment of the nearest ancestor that has
\* one; 0 when there is none.
SegmentOf(open, parent, line) ==
  LET Of(l) == {i \in DOMAIN open : open[i].line = l}
      near[l \in 0..line] ==
        IF l = 0 THEN 0
        ELSE IF Of(l) # {} THEN CHOOSE i \in Of(l) : \A j \in Of(l) : i <= j
        ELSE near[parent[l]]
  IN near[parent[line]]

Charge(c, i, line) ==
  IF i # 0 THEN [c EXCEPT !.open[i].spent = Append(@, line)]
  ELSE [c EXCEPT !.inline[IF c.phase = <<>> THEN Setup ELSE c.phase[1]] = Append(@, line)]

Turn(c, line, dispatches, side, parent) ==
  IF side THEN Charge(c, SegmentOf(c.open, parent, line), line)
  ELSE IF dispatches THEN [c EXCEPT !.held = <<line>>]
  ELSE Charge(c, Len(c.open), line)

Dispatch(c, id, line, skill) ==
  [c EXCEPT !.phase = IF skill # Unknown THEN <<skill>> ELSE @,
            !.open = Append(@, Segment(id, line, skill, c.held)),
            !.held = <<>>]

PhaseOf(c, skill) ==
  IF skill # Unknown THEN skill ELSE IF c.phase # <<>> THEN c.phase[1] ELSE Other

Close(c, i) ==
  [c EXCEPT !.open = RemoveAt(c.open, i),
            !.rows[PhaseOf(c, c.open[i].skill)] = Append(@, c.open[i].spent)]

Result(c, id) ==
  IF \E i \in DOMAIN c.open : c.open[i].id = id
  THEN Close(c, CHOOSE i \in DOMAIN c.open : c.open[i].id = id)
  ELSE c

\* Segments that are still open count where they would be closed.
Spend(c, b) ==
  LET incomplete == SelectSeq(c.open, LAMBDA s : PhaseOf(c, s.skill) = b)
  IN c.inline[b] \o FlattenSeq(c.rows[b])
       \o FoldLeft(LAMBDA sum, s : sum \o s.spent, <<>>, incomplete)

=============================================================================
