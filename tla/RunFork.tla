------------------------------- MODULE RunFork -------------------------------
(***************************************************************************)
(* Forking the runs of one opp (opps/opp_forker.py, decisions_edit.py): a  *)
(* new folder, run_state.yaml first, then the copies, then the decisions   *)
(* log rewritten, so that the phases to run again find their rows' ids     *)
(* free while the old rows stay as history.  A fork may be of a fork, of a *)
(* run that still goes on, or die between any two Drive calls.             *)
(***************************************************************************)
EXTENDS Forks, Sequences

CONSTANTS
  Decisions,     \* what the rows of a log decide
  PhaseOf,       \* the ordinal of the phase each belongs to
  MaxRuns,       \* bound on runs
  MaxForkFaults  \* bound on forks that fail half-way

ASSUME RunForkAssumption ==
  PhaseOf \in [Decisions -> Nat] /\ MaxRuns \in Nat /\ MaxForkFaults \in Nat

VARIABLES
  runs,  \* the run folders, oldest first: [pending, log, ready, whole, from]
  fork,  \* fork[p]: what request p does
  forkFaults

forkVars == <<runs, fork, forkFaults>>

\* A row of decisions.yaml.  Its id is its decision, followed by the runs whose
\* forks retired it; `by` is superseded_by; `born` the run that recorded it.
Row(x, r) == [id |-> <<x>>, ruled |-> FALSE, by |-> <<>>, born |-> r]

NoFork == [step |-> "idle", src |-> 0, at |-> 0, all |-> TRUE, targets |-> {},
           edit |-> <<>>, run |-> 0, body |-> {}]

ForkAt(p, s) == fork[p].step = s
ForkGoes(p, f) == fork' = [fork EXCEPT ![p] = f]
ForkEnds(p) == ForkGoes(p, NoFork)
BeingForked(r) == \E p \in Forkers : fork[p].run = r
WithLog(r, log) == runs' = [runs EXCEPT ![r].log = log]

-----------------------------------------------------------------------------
(* What a run does to its own log: the plugin's append, and rulings *)

\* decisions_append_rows skips an id that is there already.
Produce(r, x) ==
  /\ runs[r].ready /\ ~BeingForked(r) /\ PhaseOf[x] \in runs[r].pending
  /\ \A row \in runs[r].log : row.id # <<x>>
  /\ WithLog(r, runs[r].log \cup {Row(x, r)})
  /\ UNCHANGED <<fork, forkFaults>>

\* A row that is live is overridden, or decided by a human.
Rule(r, row) ==
  /\ ~BeingForked(r) /\ row.by = <<>> /\ ~row.ruled
  /\ WithLog(r, (runs[r].log \ {row}) \cup {[row EXCEPT !.ruled = TRUE]})
  /\ UNCHANGED <<fork, forkFaults>>

-----------------------------------------------------------------------------
(* fork_opp *)

\* Either every phase from the fork point on runs again, or those asked for.
ForkEdits == {<<>>} \cup (Decisions \X {"override", "revert"})

Start(p) ==
  /\ ForkAt(p, "idle") /\ Len(runs) < MaxRuns
  /\ \E src \in DOMAIN runs, at \in Phases, all \in BOOLEAN, edit \in ForkEdits :
       \E targets \in {{n \in Phases : n >= at}, {at}} :
         ForkGoes(p, [NoFork EXCEPT !.step = "folder", !.src = src, !.at = at, !.all = all,
                                    !.targets = targets, !.edit = edit])
  /\ UNCHANGED <<runs, forkFaults>>

CreateFolder(p) ==
  /\ ForkAt(p, "folder") /\ Len(runs) < MaxRuns
  /\ runs' = Append(runs, [pending |-> {}, log |-> {}, ready |-> FALSE, whole |-> FALSE,
                           from |-> {}])
  /\ ForkGoes(p, [fork[p] EXCEPT !.step = "state", !.run = Len(runs) + 1])
  /\ UNCHANGED forkFaults

\* Phases before the fork point are done, the others pending or skipped.
WriteState(p) ==
  /\ ForkAt(p, "state")
  /\ runs' = [runs EXCEPT ![fork[p].run].ready = TRUE,
                          ![fork[p].run].pending = fork[p].targets]
  /\ ForkGoes(p, [fork[p] EXCEPT !.step = "copy"])
  /\ UNCHANGED forkFaults

CopyLog(p) ==
  /\ ForkAt(p, "copy")
  /\ WithLog(fork[p].run, runs[fork[p].src].log)
  /\ ForkGoes(p, [fork[p] EXCEPT !.step = "rewrite", !.body = runs[fork[p].src].log])
  /\ UNCHANGED forkFaults

\* apply_edits_to_decisions_data: an answer of its own overrides, the AI's own
\* without a reason reverts; an id the log does not have is ignored.
Edited(rows, edit) ==
  IF edit = <<>> THEN rows
  ELSE {IF row.id = <<edit[1]>> THEN [row EXCEPT !.ruled = (edit[2] = "override")] ELSE row :
          row \in rows}

\* Rulings stay live whichever phase they belong to; else, in keep-all mode,
\* what the phases before the fork point decided.
StaysLive(row, at, all) == row.ruled \/ (all /\ PhaseOf[row.id[1]] < at)

\* _retire_decision_rows: off its canonical id, superseded by what will take
\* its place, and so are the links between retired rows.
RetiredInPlace(rows, retire, src) ==  \* a slip: superseded, but not off its id
  (rows \ retire) \cup
    {[row EXCEPT !.by = IF row.by = <<>> THEN Append(row.id, src) ELSE row.by] : row \in retire}

Retired(rows, retire, src) ==
  LET Renamed(id) == IF \E row \in retire : row.id = id THEN Append(id, src) ELSE id
  IN (rows \ retire) \cup
     {[row EXCEPT !.id = Renamed(row.id),
                  !.by = IF row.by = <<>> THEN row.id ELSE Renamed(row.by)] : row \in retire}

Rewritten(f) ==
  LET rows == Edited(f.body, f.edit)
  IN Retired(rows, {row \in rows : ~StaysLive(row, f.at, f.all)}, f.src)

RewriteLog(p) ==
  /\ ForkAt(p, "rewrite")
  /\ runs' = [runs EXCEPT ![fork[p].run].log = Rewritten(fork[p]),
                          ![fork[p].run].whole = TRUE,
                          ![fork[p].run].from = Edited(fork[p].body, fork[p].edit)]
  /\ ForkEnds(p) /\ UNCHANGED forkFaults

\* A Drive call raises, or the worker dies: what is there stays there.
Dies(p) ==
  /\ ~ForkAt(p, "idle") /\ forkFaults < MaxForkFaults /\ forkFaults' = forkFaults + 1
  /\ ForkEnds(p) /\ UNCHANGED runs

ForkInit ==
  /\ runs = <<[pending |-> Phases, log |-> {}, ready |-> TRUE, whole |-> TRUE, from |-> {}]>>
  /\ fork = [p \in Forkers |-> NoFork] /\ forkFaults = 0

ForkNext ==
  \/ \E r \in DOMAIN runs :
       \/ \E x \in Decisions : Produce(r, x)
       \/ \E row \in runs[r].log : Rule(r, row)
  \/ \E p \in Forkers : \/ Start(p) \/ CreateFolder(p) \/ WriteState(p)
                        \/ CopyLog(p) \/ RewriteLog(p) \/ Dies(p)

ForkSpec == ForkInit /\ [][ForkNext]_forkVars

-----------------------------------------------------------------------------
(* Properties *)

\* Nothing is dropped: each row the fork found is there, a ruling as it was.
KeepsRows(r) ==
  \A row \in runs[r].from :
    /\ \E kept \in runs[r].log : kept.born = row.born /\ kept.id[1] = row.id[1]
    /\ row.ruled => \E kept \in runs[r].log : kept.id = row.id /\ kept.by = row.by /\ kept.ruled

\* What a phase decides anew is recorded: no answer of an earlier run, unless a
\* human's, stands in its place.
RerunLands(r) ==
  \A row \in runs[r].log :
    Len(row.id) = 1 /\ PhaseOf[row.id[1]] \in runs[r].pending => row.born = r \/ row.ruled

\* Ids are unique, only canonical ones are live, and a row of the past leads to
\* another row, or to the id its phase will give.
LinesHold(r) ==
  \A row \in runs[r].log :
    /\ \A other \in runs[r].log : other.id = row.id => other = row
    /\ row.by = <<>> => Len(row.id) = 1
    /\ row.by # <<>> => Len(row.by) = 1 \/ \E other \in runs[r].log : other.id = row.by

\* However often runs are forked, edited, ruled on and run again, and whatever
\* else is being forked: a run whose fork ended well has a log in which all of
\* this holds.
ForksKeepTheRecord ==
  \A r \in DOMAIN runs : runs[r].whole => KeepsRows(r) /\ RerunLands(r) /\ LinesHold(r)

=============================================================================
