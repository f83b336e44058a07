--------------------------- MODULE DecisionRecord ---------------------------
(***************************************************************************)
(* What the decision editors promise of the answers to one run's questions *)
(* (decision_overrides.py, decisions_buffer.py): an answer stays pending   *)
(* until it is recorded, the newest answer of a row is the one in force,   *)
(* and an answer that is superseded stays in the row's history.            *)
(***************************************************************************)
EXTENDS Naturals, Sequences

CONSTANTS
  Rows,     \* decision rows
  Known,    \* those the run's decisions.yaml has
  Edits,    \* the answers that may be given: [n, row, answer]
  Default,  \* the AI's own answer: given bare, it reverts a row
  Nothing,  \* no answer
  Cap       \* superseded answers a row keeps

VARIABLES
  given,    \* the answers given so far
  pending,  \* pending[r]: the answer that waits for row r
  record,   \* record[r]: the answers recorded for row r, newest first
  settled   \* the answers that took effect: recorded, or taken along by a fork

vars == <<given, pending, record, settled>>

Init ==
  /\ given = {} /\ settled = {}
  /\ pending = [r \in Rows |-> Nothing]
  /\ record = [r \in Rows |-> <<>>]

\* A row's answers once e supersedes them.  A revert of a row without a
\* history leaves nothing to remember.
Superseded(answers, e) ==
  IF e.answer = Default /\ answers = <<>> THEN <<>>
  ELSE <<e>> \o SubSeq(answers, 1, IF Len(answers) < Cap THEN Len(answers) ELSE Cap)

Stage(e) ==
  /\ e \in Edits \ given /\ given' = given \cup {e}
  /\ pending' = [pending EXCEPT ![e.row] = e]
  /\ UNCHANGED <<record, settled>>

Unstage(r) ==
  /\ pending' = [pending EXCEPT ![r] = Nothing]
  /\ UNCHANGED <<given, record, settled>>

\* Answers that were given, or one that is given now, are recorded: at most one
\* for a row, each as its row's newest.
Record ==
  /\ given \subseteq given' /\ given' \subseteq Edits
  /\ \E news \in SUBSET given' :
       /\ \A e, f \in news : e.row = f.row => e = f
       /\ \A e \in news : e.row \in Known /\ record'[e.row] = Superseded(record[e.row], e)
       /\ \A r \in Rows : (\A e \in news : e.row # r) => record'[r] = record[r]
       /\ settled' = settled \cup news
  /\ UNCHANGED pending

Fork ==
  /\ settled \subseteq settled' /\ settled' \subseteq given
  /\ UNCHANGED <<given, pending, record>>

\* Pending answers go only when they took effect; those for a row the run does
\* not have never can.
Settle ==
  /\ \A r \in Known : pending[r] \in settled \cup {Nothing}
  /\ pending' = [r \in Rows |-> Nothing]
  /\ UNCHANGED <<given, record, settled>>

Next ==
  \/ \E e \in Edits : Stage(e)
  \/ \E r \in Rows : Unstage(r)
  \/ Record \/ Fork \/ Settle

Spec == Init /\ [][Next]_vars

=============================================================================
