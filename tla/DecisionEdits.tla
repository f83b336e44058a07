--------------------------- MODULE DecisionEdits ---------------------------
(***************************************************************************)
(* Editing the decisions of one run: the shared Redis buffer of the        *)
(* Workbench (consumers.py, decisions_buffer.py), saving it into           *)
(* inputs/decision-overrides.yaml, changing one answer in place on the run *)
(* summary (decision_overrides.py), and a fork that takes edits along.     *)
(*                                                                         *)
(* Nothing locks the buffer or the file: each is read, changed and written *)
(* back; in between any other worker may run, and any call may fail.       *)
(***************************************************************************)
EXTENDS Naturals, Sequences

CONSTANTS
  Workers,   \* consumers' threads and requests in flight
  Rows, Known, Default, Nothing,  \* as in DecisionRecord
  Answers,   \* what an editor may answer
  Cap,       \* MAX_HISTORY_PER_ROW
  MaxEdits,  \* bound on answers given
  MaxFaults  \* bound on requests that stop half-way and on expiries

\* Nothing is no answer, and answers are numbered.
ASSUME DecisionEditsAssumption ==
  /\ Known \subseteq Rows /\ Nothing \notin [n : 1..MaxEdits, row : Rows, answer : Answers]
  /\ Cap \in Nat /\ MaxEdits \in Nat /\ MaxFaults \in Nat

VARIABLES
  edits,    \* number of answers given
  buffer,   \* the Redis dict: the answer under each row
  files,    \* the override files in inputs/: each row's answers, newest first
  settled,  \* history: answers a write or a fork brought along
  given,    \* history: answers acknowledged
  task,     \* task[w]: what worker w does
  spoiled,  \* history: a write undid another one unread, or the buffer expired
  faults

dvars == <<edits, buffer, files, settled, given, task, spoiled, faults>>

Edits  == [n : 1..MaxEdits, row : Rows, answer : Answers]
Buffer == [Rows -> Edits \cup {Nothing}]
Empty  == [r \in Rows |-> Nothing]
NoRows == [r \in Rows |-> <<>>]
Steps  == {"idle", "set", "remove", "read", "write", "clear", "copy", "drop"}
Idle   == [step |-> "idle", seen |-> Empty, row |-> Nothing, answer |-> Nothing,
           file |-> 0, rows |-> NoRows, saving |-> FALSE]

TypeOK ==
  /\ edits \in 0..MaxEdits /\ buffer \in Buffer
  /\ \A i \in DOMAIN files, r \in Rows : files[i][r] \in Seq(Edits)
  /\ settled \subseteq given /\ given \subseteq Edits
  /\ \A w \in Workers : task[w].step \in Steps /\ task[w].seen \in Buffer
  /\ spoiled \in BOOLEAN /\ faults \in 0..MaxFaults

At(w, s)    == task[w].step = s
Goes(w, t)  == task' = [task EXCEPT ![w] = t]
Ends(w)     == Goes(w, Idle)
New(w)      == [n |-> edits + 1, row |-> task[w].row, answer |-> task[w].answer]
Spoils(yes) == spoiled' = (spoiled \/ yes)

-----------------------------------------------------------------------------
(* decision.edit and decision.revert: get the dict, change it, set it *)

Edit(w, r, a) ==
  /\ At(w, "idle") /\ edits < MaxEdits
  /\ Goes(w, [Idle EXCEPT !.step = "set", !.seen = buffer, !.row = r, !.answer = a])
  /\ UNCHANGED <<edits, buffer, files, settled, given, spoiled, faults>>

SetEdit(w) ==
  /\ At(w, "set") /\ edits < MaxEdits
  /\ edits' = edits + 1 /\ given' = given \cup {New(w)}
  /\ buffer' = [task[w].seen EXCEPT ![task[w].row] = New(w)]
  /\ Spoils(buffer # task[w].seen)
  /\ Ends(w) /\ UNCHANGED <<files, settled, faults>>

Revert(w, r) ==
  /\ At(w, "idle") /\ buffer[r] # Nothing
  /\ Goes(w, [Idle EXCEPT !.step = "remove", !.seen = buffer, !.row = r])
  /\ UNCHANGED <<edits, buffer, files, settled, given, spoiled, faults>>

RemoveEdit(w) ==
  /\ At(w, "remove")
  /\ buffer' = [task[w].seen EXCEPT ![task[w].row] = Nothing]
  /\ Spoils(buffer # task[w].seen)
  /\ Ends(w) /\ UNCHANGED <<edits, files, settled, given, faults>>

-----------------------------------------------------------------------------
(* The override file *)

\* Save to Drive: the buffered answers, joined to the rows the run has.
Save(w) ==
  /\ At(w, "idle") /\ buffer # Empty
  /\ Goes(w, [Idle EXCEPT !.step = "read", !.seen = buffer, !.saving = TRUE])
  /\ UNCHANGED <<edits, buffer, files, settled, given, spoiled, faults>>

\* One answer in place; of a row the run does not have, it is refused.
EditInPlace(w, r, a) ==
  /\ At(w, "idle") /\ edits < MaxEdits /\ r \in Known
  /\ Goes(w, [Idle EXCEPT !.step = "read", !.row = r, !.answer = a])
  /\ UNCHANGED <<edits, buffer, files, settled, given, spoiled, faults>>

\* The file found by its name: any of them, should there be two.
ReadFile(w) ==
  /\ At(w, "read")
  /\ \/ files = <<>> /\ Goes(w, [task[w] EXCEPT !.step = "write"])
     \/ \E i \in DOMAIN files :
          Goes(w, [task[w] EXCEPT !.step = "write", !.file = i, !.rows = files[i]])
  /\ UNCHANGED <<edits, buffer, files, settled, given, spoiled, faults>>

\* The answers a write brings: those saved for known rows, or the one given.
Brought(w) ==
  IF task[w].saving THEN {task[w].seen[r] : r \in Known} \ {Nothing} ELSE {New(w)}

\* merge_overrides: what was in force joins the history, which is capped; a
\* bare revert stays only for a row that has a history.
HistoryOfPrior(prior) ==  \* a slip: the prior answer itself is not remembered
  IF prior = <<>> THEN <<>> ELSE Tail(prior)

History(prior) == SubSeq(prior, 1, IF Len(prior) < Cap THEN Len(prior) ELSE Cap)

Merged(rows, answers) ==
  [r \in Rows |-> IF ~\E e \in answers : e.row = r THEN rows[r]
                  ELSE LET e == CHOOSE x \in answers : x.row = r
                       IN IF e.answer = Default /\ rows[r] = <<>> THEN <<>>
                          ELSE <<e>> \o History(rows[r])]

\* Nothing to write: no row, and no file yet.
Written(w) ==
  LET rows == Merged(task[w].rows, Brought(w))
  IN CASE task[w].file # 0 -> [files EXCEPT ![task[w].file] = rows]
       [] task[w].file = 0 /\ rows # NoRows -> Append(files, rows)
       [] OTHER -> files

WriteFile(w) ==
  /\ At(w, "write") /\ (~task[w].saving => edits < MaxEdits)
  /\ files' = Written(w)
  /\ Spoils(IF task[w].file = 0 THEN files # <<>> ELSE files[task[w].file] # task[w].rows)
  /\ IF task[w].saving
       THEN Goes(w, [task[w] EXCEPT !.step = "clear"]) /\ UNCHANGED <<edits, given>>
       ELSE Ends(w) /\ edits' = edits + 1 /\ given' = given \cup {New(w)}
  /\ settled' = settled \cup Brought(w)
  /\ UNCHANGED <<buffer, faults>>

\* The saved buffer goes, with whatever it holds by now.
ClearEdits(w) ==
  /\ At(w, "clear")
  /\ buffer' = Empty /\ Spoils(buffer # task[w].seen)
  /\ Ends(w) /\ UNCHANGED <<edits, files, settled, given, faults>>

-----------------------------------------------------------------------------
(* A fork: the caller sends the edits it shows, or none *)

Fork(w) ==
  /\ At(w, "idle")
  /\ \E sent \in {buffer, Empty} : Goes(w, [Idle EXCEPT !.step = "copy", !.seen = sent])
  /\ UNCHANGED <<edits, buffer, files, settled, given, spoiled, faults>>

CopyRun(w) ==
  /\ At(w, "copy")
  /\ settled' = settled \cup ({task[w].seen[r] : r \in Known} \ {Nothing})
  /\ Goes(w, [task[w] EXCEPT !.step = "drop"])
  /\ UNCHANGED <<edits, buffer, files, given, spoiled, faults>>

DropEdits(w) ==
  /\ At(w, "drop")
  /\ buffer' = Empty /\ Spoils(buffer # task[w].seen)
  /\ Ends(w) /\ UNCHANGED <<edits, files, settled, given, faults>>

-----------------------------------------------------------------------------
(* Faults *)

\* A Drive or Redis call fails, or the process dies: the request ends there.
Stops(w) ==
  /\ ~At(w, "idle") /\ faults < MaxFaults /\ faults' = faults + 1
  /\ Ends(w) /\ UNCHANGED <<edits, buffer, files, settled, given, spoiled>>

\* 24 hours without an edit.
Expires ==
  /\ buffer # Empty /\ faults < MaxFaults /\ faults' = faults + 1
  /\ buffer' = Empty /\ Spoils(TRUE)
  /\ UNCHANGED <<edits, files, settled, given, task>>

DInit ==
  /\ edits = 0 /\ buffer = Empty /\ files = <<>> /\ settled = {} /\ given = {}
  /\ task = [w \in Workers |-> Idle] /\ spoiled = FALSE /\ faults = 0

DNext ==
  \/ \E w \in Workers :
       \/ \E r \in Rows, a \in Answers : Edit(w, r, a) \/ EditInPlace(w, r, a)
       \/ \E r \in Rows : Revert(w, r)
       \/ Save(w) \/ Fork(w)
       \/ SetEdit(w) \/ RemoveEdit(w) \/ ReadFile(w) \/ WriteFile(w) \/ ClearEdits(w)
       \/ CopyRun(w) \/ DropEdits(w) \/ Stops(w)
  \/ Expires

DSpec == DInit /\ [][DNext]_dvars

-----------------------------------------------------------------------------
(* Properties *)

\* The buffer and the file together keep the record DecisionRecord promises:
\* every step is one of its steps, so no answer that was acknowledged goes
\* before it is in the file's history, in a fork, or taken back, whatever fails
\* and in whatever order saves, forks and edits run, until a write undoes
\* another one it had not read, or the buffer's day is over.
Record == INSTANCE DecisionRecord
          WITH pending <- buffer, record <- IF files = <<>> THEN NoRows ELSE files[1]

KeepsAnswers == Record!Init /\ [][spoiled' \/ Record!Next]_<<buffer, files, settled, given>>

=============================================================================
