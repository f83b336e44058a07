---------------------------- MODULE RecordsProofs ----------------------------
(***************************************************************************)
(* What holds of a run's records, for every value of the constants.  The   *)
(* buffer and the override file of DecisionEdits keep the record that      *)
(* DecisionRecord promises, with any number of workers, rows and answers:  *)
(* every step is one of DecisionRecord or none, until a write undoes one   *)
(* it had not read.  And with any number of decisions, phases, runs and    *)
(* fork requests, the logs that RunFork rewrites keep what they recorded,  *)
(* and what the states of RunPhases claim is there and handed on.  A clone *)
(* of RunClone that says done is whole.                                    *)
(***************************************************************************)
EXTENDS DecisionEdits, RunFork, RunPhases, RunClone, SequenceTheorems, TLAPS

-----------------------------------------------------------------------------
(* DecisionEdits: what tasks, answers and files are.                       *)

Tasks == [step : Steps, seen : Buffer, row : Rows \cup {Nothing}, answer : Answers \cup {Nothing},
          file : Nat, rows : [Rows -> Seq(Edits)], saving : BOOLEAN]

\* The answers of a buffer, or of a copy of it, are given, each to its row.
OfTheirRows(b) == \A r \in Rows : b[r] # Nothing => b[r] \in given /\ b[r].row = r

\* What a task needs for its step; what it read before it clears the buffer
\* took effect.
TaskOK(t) ==
  /\ t.step \in {"set", "remove"} => t.row \in Rows
  /\ t.step = "set" => t.answer \in Answers
  /\ t.step \in {"read", "write"} /\ ~t.saving => t.row \in Known /\ t.answer \in Answers
  /\ t.step = "read" => t.file = 0
  /\ t.step = "write" => t.file \in {0} \cup DOMAIN files
  /\ t.step \in {"read", "write"} /\ t.file = 0 => t.rows = NoRows
  /\ OfTheirRows(t.seen)
  /\ t.step \in {"clear", "drop"} => \A r \in Known : t.seen[r] \in settled \cup {Nothing}

\* Answers are numbered in the order they are given, and without a write that
\* undid another there is one file at most.
EditsInv ==
  /\ edits \in 0..MaxEdits /\ buffer \in Buffer
  /\ files \in Seq([Rows -> Seq(Edits)])
  /\ settled \subseteq given /\ given \subseteq Edits
  /\ task \in [Workers -> Tasks]
  /\ spoiled \in BOOLEAN /\ faults \in 0..MaxFaults
  /\ \A w \in Workers : TaskOK(task[w])
  /\ \A e \in given : e.n <= edits
  /\ OfTheirRows(buffer)
  /\ ~spoiled => Len(files) <= 1

-----------------------------------------------------------------------------
(* What merging and writing do.                                            *)

LEMMA IdleTask == Idle \in Tasks /\ Empty \in Buffer
BY DEF Idle, Tasks, Steps, Buffer, Empty, NoRows

\* A history is a prefix of the row's answers.
LEMMA HistoryType ==
  ASSUME NEW prior \in Seq(Edits)
  PROVE  History(prior) \in Seq(Edits)
<1> DEFINE n == IF Len(prior) < Cap THEN Len(prior) ELSE Cap
<1>1. Len(prior) \in Nat /\ n \in 0..Len(prior)
  BY LenProperties, DecisionEditsAssumption
<1>2. SubSeq(prior, 1, n) \in Seq(Edits)
  BY <1>1, SubSeqProperties
<1>3. QED
  BY <1>2 DEF History

\* Merging keeps a sequence of answers per row.
LEMMA MergedType ==
  ASSUME NEW rows \in [Rows -> Seq(Edits)], NEW answers, answers \subseteq Edits
  PROVE  Merged(rows, answers) \in [Rows -> Seq(Edits)]
<1> SUFFICES ASSUME NEW r \in Rows
             PROVE  Merged(rows, answers)[r] \in Seq(Edits)
  BY DEF Merged
<1>1. CASE ~\E e \in answers : e.row = r
  BY <1>1 DEF Merged
<1>2. CASE \E e \in answers : e.row = r
  <2> DEFINE e == CHOOSE x \in answers : x.row = r
  <2>1. e \in Edits
    BY <1>2
  <2>2. <<e>> \o History(rows[r]) \in Seq(Edits) /\ <<>> \in Seq(Edits)
    BY <2>1, HistoryType, ConcatProperties
  <2>3. Merged(rows, answers)[r] \in {<<e>> \o History(rows[r]), <<>>}
    BY <1>2 DEF Merged
  <2>4. QED
    BY <2>2, <2>3
<1>3. QED
  BY <1>1, <1>2

\* Merging one answer at most for each row puts it before what it supersedes,
\* as the record does, and leaves the other rows.
LEMMA MergedIs ==
  ASSUME NEW rows \in [Rows -> Seq(Edits)], NEW answers,
         \A e, f \in answers : e.row = f.row => e = f
  PROVE  /\ \A e \in answers : e.row \in Rows =>
              Merged(rows, answers)[e.row] = Record!Superseded(rows[e.row], e)
         /\ \A r \in Rows : (\A e \in answers : e.row # r) => Merged(rows, answers)[r] = rows[r]
<1>1. ASSUME NEW e \in answers, e.row \in Rows
      PROVE  Merged(rows, answers)[e.row] = Record!Superseded(rows[e.row], e)
  <2>1. (CHOOSE x \in answers : x.row = e.row) = e
    OBVIOUS
  <2>2. QED
    BY <1>1, <2>1 DEF Merged, History, Record!Superseded
<1>2. ASSUME NEW r \in Rows, \A e \in answers : e.row # r
      PROVE  Merged(rows, answers)[r] = rows[r]
  BY <1>2 DEF Merged
<1>3. QED
  BY <1>1, <1>2

\* The answers a write brings are for rows the run has, one for each.
LEMMA BroughtIs ==
  ASSUME EditsInv, NEW w \in Workers, At(w, "write"),
         ~task[w].saving => edits < MaxEdits
  PROVE  /\ Brought(w) \subseteq Edits
         /\ \A e \in Brought(w) : e.row \in Known
         /\ \A e, f \in Brought(w) : e.row = f.row => e = f
         /\ Brought(w) \subseteq given \cup (IF task[w].saving THEN {} ELSE {New(w)})
<1>1. task[w] \in Tasks /\ edits \in Nat /\ MaxEdits \in Nat /\ Known \subseteq Rows
  BY DecisionEditsAssumption DEF EditsInv
<1>2. CASE task[w].saving
  <2>1. \A r \in Known : task[w].seen[r] # Nothing
          => task[w].seen[r] \in given /\ task[w].seen[r].row = r
    BY <1>1 DEF EditsInv, TaskOK, OfTheirRows
  <2>2. QED
    BY <1>2, <2>1 DEF Brought, EditsInv
<1>3. CASE ~task[w].saving
  <2>1. task[w].row \in Known /\ task[w].answer \in Answers /\ edits < MaxEdits
    BY <1>3 DEF EditsInv, TaskOK, At
  <2>2. New(w) \in Edits /\ New(w).row \in Known
    BY <1>1, <2>1 DEF New, Edits
  <2>3. QED
    BY <1>3, <2>2 DEF Brought
<1>4. QED
  BY <1>1, <1>2, <1>3 DEF Tasks

\* What a write leaves: files only appear, one at most, and the merged rows are
\* in the file that was read, or in a new one if there are any.
LEMMA WrittenIs ==
  ASSUME EditsInv, NEW w \in Workers, At(w, "write"),
         ~task[w].saving => edits < MaxEdits
  PROVE  /\ Written(w) \in Seq([Rows -> Seq(Edits)])
         /\ DOMAIN files \subseteq DOMAIN Written(w)
         /\ \/ Len(Written(w)) = Len(files)
            \/ task[w].file = 0 /\ Len(Written(w)) = Len(files) + 1
<1> DEFINE rows == Merged(task[w].rows, Brought(w))
<1>1. /\ task[w].rows \in [Rows -> Seq(Edits)] /\ task[w].file \in {0} \cup DOMAIN files
      /\ files \in Seq([Rows -> Seq(Edits)])
  BY DEF EditsInv, Tasks, TaskOK, At
<1>2. rows \in [Rows -> Seq(Edits)]
  BY <1>1, MergedType, BroughtIs
<1>3. Len(files) \in Nat /\ DOMAIN files = 1..Len(files)
  BY <1>1, LenProperties
<1> HIDE DEF rows
<1>4. CASE task[w].file # 0
  <2>1. Written(w) = [files EXCEPT ![task[w].file] = rows]
    BY <1>4 DEF Written, rows
  <2>2. Written(w) \in Seq([Rows -> Seq(Edits)]) /\ Len(Written(w)) = Len(files)
    BY <1>1, <1>2, <1>3, <1>4, <2>1, ExceptSeq
  <2>3. QED
    BY <2>1, <2>2
<1>5. CASE task[w].file = 0
  <2>1. Written(w) = Append(files, rows) \/ Written(w) = files
    BY <1>5 DEF Written, rows
  <2>2. CASE Written(w) = Append(files, rows)
    <3>1. Written(w) \in Seq([Rows -> Seq(Edits)]) /\ Len(Written(w)) = Len(files) + 1
      BY <1>1, <1>2, <2>2, AppendProperties
    <3>2. DOMAIN Written(w) = 1..(Len(files) + 1)
      BY <3>1, LenProperties
    <3>3. QED
      BY <1>3, <1>5, <3>1, <3>2
  <2>3. QED
    BY <1>1, <2>1, <2>2
<1>6. QED
  BY <1>4, <1>5

\* As long as the write undoes none, what the record holds becomes what the
\* write merged: it is what it read, or there is no file.
LEMMA WrittenRecord ==
  ASSUME EditsInv, NEW w \in Workers, WriteFile(w), ~spoiled'
  PROVE  LET now == IF files = <<>> THEN NoRows ELSE files[1]
         IN (IF files' = <<>> THEN NoRows ELSE files'[1]) = Merged(now, Brought(w))
<1> DEFINE rows == Merged(task[w].rows, Brought(w))
<1>1. /\ task[w].rows \in [Rows -> Seq(Edits)] /\ task[w].file \in {0} \cup DOMAIN files
      /\ files \in Seq([Rows -> Seq(Edits)]) /\ files' = Written(w) /\ ~spoiled
      /\ task[w].file = 0 => files = <<>>
      /\ task[w].file # 0 => files[task[w].file] = task[w].rows
  BY DEF EditsInv, Tasks, TaskOK, At, WriteFile, Spoils
<1>2. Len(files) \in 0..1 /\ DOMAIN files = 1..Len(files)
  <2>1. Len(files) \in Nat /\ DOMAIN files = 1..Len(files)
    BY <1>1, LenProperties
  <2>2. QED
    BY <1>1, <2>1 DEF EditsInv
<1>3. rows \in [Rows -> Seq(Edits)]
  BY <1>1, MergedType, BroughtIs DEF WriteFile
<1>4. CASE task[w].file # 0
  <2>1. task[w].file = 1 /\ files # <<>> /\ files[1] = task[w].rows
    BY <1>1, <1>2, <1>4
  <2>2. files' = [files EXCEPT ![1] = rows]
    BY <1>1, <1>4, <2>1 DEF Written
  <2>3. files'[1] = rows /\ files' # <<>>
    BY <1>1, <1>2, <2>1, <2>2
  <2>4. QED
    BY <2>1, <2>3
<1>5. CASE task[w].file = 0
  <2>1. files = <<>> /\ task[w].rows = NoRows
    BY <1>1, <1>5 DEF WriteFile, At, EditsInv, TaskOK
  <2>2. CASE rows # NoRows
    <3>1. files' = Append(files, rows)
      BY <1>1, <1>5, <2>2 DEF Written
    <3>2. files' # <<>> /\ files'[1] = rows
      BY <1>3, <2>1, <3>1
    <3>3. QED
      BY <2>1, <3>2
  <2>3. CASE rows = NoRows
    <3>1. files' = <<>>
      BY <1>1, <1>5, <2>1, <2>3 DEF Written
    <3>2. QED
      BY <2>1, <2>3, <3>1
  <2>4. QED
    BY <2>2, <2>3
<1>6. QED
  BY <1>4, <1>5

-----------------------------------------------------------------------------
(* Every step of the editors is a step of the record.                      *)

\* A worker goes on to a task that is sound; the others' stay sound.
LEMMA TaskMoves ==
  ASSUME EditsInv, NEW w \in Workers, NEW t \in Tasks, Goes(w, t), TaskOK(t)',
         DOMAIN files \subseteq DOMAIN files', given \subseteq given', settled \subseteq settled'
  PROVE  task' \in [Workers -> Tasks] /\ \A v \in Workers : TaskOK(task[v])'
<1>1. task' \in [Workers -> Tasks] /\ \A v \in Workers : task'[v] = IF v = w THEN t ELSE task[v]
  BY DEF Goes, EditsInv
<1>2. ASSUME NEW v \in Workers, v # w PROVE TaskOK(task[v])'
  <2>1. task'[v] = task[v] /\ TaskOK(task[v])
    BY <1>1, <1>2 DEF EditsInv
  <2>2. QED
    BY <2>1 DEF TaskOK, OfTheirRows
<1>3. TaskOK(task[w])'
  BY <1>1 DEF TaskOK, OfTheirRows
<1>4. QED
  BY <1>1, <1>2, <1>3

\* A request that ends is sound.
LEMMA IdleOK == TaskOK(Idle)'
BY DEF TaskOK, Idle, OfTheirRows, Empty

\* Requests that begin, and read: nothing changes but what they are at.
LEMMA BeginKeeps ==
  ASSUME EditsInv, NEW w \in Workers,
         \/ \E r \in Rows, a \in Answers : Edit(w, r, a) \/ EditInPlace(w, r, a)
         \/ \E r \in Rows : Revert(w, r)
         \/ Save(w) \/ Fork(w) \/ ReadFile(w)
  PROVE  EditsInv' /\ UNCHANGED <<buffer, files, settled, given>>
<1>1. UNCHANGED <<edits, buffer, files, settled, given, spoiled, faults>>
  BY DEF Edit, EditInPlace, Revert, Save, Fork, ReadFile
<1>2. ASSUME NEW t \in Tasks, Goes(w, t), TaskOK(t)
      PROVE  EditsInv'
  <2>1. TaskOK(t)'
    BY <1>1, <1>2 DEF TaskOK, OfTheirRows
  <2>2. task' \in [Workers -> Tasks] /\ \A v \in Workers : TaskOK(task[v])'
    BY <1>1, <1>2, <2>1, TaskMoves
  <2>3. QED
    BY <1>1, <2>2 DEF EditsInv, OfTheirRows
<1>3. buffer \in Buffer /\ OfTheirRows(buffer) /\ OfTheirRows(Empty)
  BY DEF EditsInv, OfTheirRows, Empty
<1>4. ASSUME NEW r \in Rows, NEW a \in Answers, Edit(w, r, a)
      PROVE  EditsInv'
  <2> DEFINE t == [Idle EXCEPT !.step = "set", !.seen = buffer, !.row = r, !.answer = a]
  <2>1. t \in Tasks /\ TaskOK(t)
    BY <1>3, IdleTask DEF Tasks, Steps, TaskOK
  <2>2. QED
    BY <1>2, <1>4, <2>1 DEF Edit
<1>5. ASSUME NEW r \in Rows, NEW a \in Answers, EditInPlace(w, r, a)
      PROVE  EditsInv'
  <2> DEFINE t == [Idle EXCEPT !.step = "read", !.row = r, !.answer = a]
  <2>1. t \in Tasks /\ TaskOK(t)
    BY <1>3, <1>5, IdleTask DEF Tasks, Steps, TaskOK, Idle, EditInPlace
  <2>2. QED
    BY <1>2, <1>5, <2>1 DEF EditInPlace
<1>6. ASSUME NEW r \in Rows, Revert(w, r)
      PROVE  EditsInv'
  <2> DEFINE t == [Idle EXCEPT !.step = "remove", !.seen = buffer, !.row = r]
  <2>1. t \in Tasks /\ TaskOK(t)
    BY <1>3, IdleTask DEF Tasks, Steps, TaskOK
  <2>2. QED
    BY <1>2, <1>6, <2>1 DEF Revert
<1>7. ASSUME Save(w)
      PROVE  EditsInv'
  <2> DEFINE t == [Idle EXCEPT !.step = "read", !.seen = buffer, !.saving = TRUE]
  <2>1. t \in Tasks /\ TaskOK(t)
    BY <1>3, IdleTask DEF Tasks, Steps, TaskOK, Idle
  <2>2. QED
    BY <1>2, <1>7, <2>1 DEF Save
<1>8. ASSUME Fork(w)
      PROVE  EditsInv'
  <2>1. PICK sent \in {buffer, Empty} : Goes(w, [Idle EXCEPT !.step = "copy", !.seen = sent])
    BY <1>8 DEF Fork
  <2> DEFINE t == [Idle EXCEPT !.step = "copy", !.seen = sent]
  <2>2. t \in Tasks /\ TaskOK(t)
    BY <1>3, IdleTask DEF Tasks, Steps, TaskOK
  <2>3. QED
    BY <1>2, <2>1, <2>2
<1>9. ASSUME ReadFile(w)
      PROVE  EditsInv'
  <2>0. task[w] \in Tasks /\ TaskOK(task[w]) /\ task[w].step = "read"
    BY <1>9 DEF EditsInv, ReadFile, At
  <2>1. CASE Goes(w, [task[w] EXCEPT !.step = "write"])
    <3> DEFINE t == [task[w] EXCEPT !.step = "write"]
    <3>1. t \in Tasks /\ TaskOK(t)
      BY <2>0 DEF Tasks, Steps, TaskOK
    <3>2. QED
      BY <1>2, <2>1, <3>1
  <2>2. ASSUME NEW i \in DOMAIN files,
               Goes(w, [task[w] EXCEPT !.step = "write", !.file = i, !.rows = files[i]])
        PROVE  EditsInv'
    <3> DEFINE t == [task[w] EXCEPT !.step = "write", !.file = i, !.rows = files[i]]
    <3>1. i \in Nat \ {0} /\ files[i] \in [Rows -> Seq(Edits)]
      BY ElementOfSeq, LenProperties DEF EditsInv
    <3>2. t \in Tasks
      BY <2>0, <3>1 DEF Tasks, Steps
    <3>3. TaskOK(t)
      BY <2>0, <3>1 DEF Tasks, TaskOK
    <3>4. QED
      BY <1>2, <2>2, <3>2, <3>3
  <2>3. QED
    BY <1>9, <2>1, <2>2 DEF ReadFile
<1>10. QED
  BY <1>1, <1>4, <1>5, <1>6, <1>7, <1>8, <1>9, SMTT(60)

\* An answer that is set stays pending.
LEMMA SetKeeps ==
  ASSUME EditsInv, NEW w \in Workers, SetEdit(w)
  PROVE  EditsInv' /\ (spoiled' \/ \E e \in Edits : Record!Stage(e))
<1> DEFINE e == New(w)
<1>1. /\ task[w].row \in Rows /\ task[w].answer \in Answers /\ task[w].seen \in Buffer
      /\ OfTheirRows(task[w].seen) /\ edits < MaxEdits /\ edits \in Nat /\ MaxEdits \in Nat
  BY DecisionEditsAssumption DEF EditsInv, TaskOK, Tasks, SetEdit, At
<1>2. e \in Edits /\ e.row = task[w].row /\ e.n = edits + 1
  BY <1>1 DEF New, Edits
<1>3. e \notin given
  BY <1>1, <1>2 DEF EditsInv
<1>4. /\ edits' = edits + 1 /\ given' = given \cup {e} /\ Goes(w, Idle)
      /\ buffer' = [task[w].seen EXCEPT ![task[w].row] = e]
      /\ spoiled' = (spoiled \/ buffer # task[w].seen)
      /\ UNCHANGED <<files, settled, faults>>
  BY DEF SetEdit, Ends, Spoils
<1> HIDE DEF e
<1>5. buffer' \in Buffer /\ OfTheirRows(buffer)'
  BY <1>1, <1>2, <1>4 DEF Buffer, OfTheirRows
<1>6. task' \in [Workers -> Tasks] /\ \A v \in Workers : TaskOK(task[v])'
  BY <1>4, TaskMoves, IdleTask, IdleOK
<1>7. \A f \in given' : f.n <= edits'
  <2>1. \A f \in given : f.n \in Nat /\ f.n <= edits
    BY DEF EditsInv, Edits
  <2>2. QED
    BY <1>1, <1>2, <1>4, <2>1
<1>8. EditsInv'
  BY <1>1, <1>2, <1>4, <1>5, <1>6, <1>7 DEF EditsInv
<1>9. ~spoiled' => Record!Stage(e)
  BY <1>2, <1>3, <1>4 DEF Record!Stage
<1>10. QED
  BY <1>2, <1>8, <1>9

\* An answer that is taken back no longer is.
LEMMA RemoveKeeps ==
  ASSUME EditsInv, NEW w \in Workers, RemoveEdit(w)
  PROVE  EditsInv' /\ (spoiled' \/ \E r \in Rows : Record!Unstage(r))
<1>1. task[w].row \in Rows /\ task[w].seen \in Buffer /\ OfTheirRows(task[w].seen)
  BY DEF EditsInv, TaskOK, Tasks, RemoveEdit, At
<1>2. /\ buffer' = [task[w].seen EXCEPT ![task[w].row] = Nothing] /\ Goes(w, Idle)
      /\ spoiled' = (spoiled \/ buffer # task[w].seen)
      /\ UNCHANGED <<edits, files, settled, given, faults>>
  BY DEF RemoveEdit, Ends, Spoils
<1>3. buffer' \in Buffer /\ OfTheirRows(buffer)'
  BY <1>1, <1>2 DEF Buffer, OfTheirRows
<1>4. task' \in [Workers -> Tasks] /\ \A v \in Workers : TaskOK(task[v])'
  BY <1>2, TaskMoves, IdleTask, IdleOK
<1>5. EditsInv'
  BY <1>1, <1>2, <1>3, <1>4 DEF EditsInv
<1>6. ~spoiled' => Record!Unstage(task[w].row)
  BY <1>2 DEF Record!Unstage
<1>7. QED
  BY <1>1, <1>5, <1>6

\* The buffer goes once what it held took effect.
LEMMA ClearKeeps ==
  ASSUME EditsInv, NEW w \in Workers, ClearEdits(w) \/ DropEdits(w)
  PROVE  EditsInv' /\ (spoiled' \/ Record!Settle)
<1>1. /\ buffer' = Empty /\ Goes(w, Idle) /\ spoiled' = (spoiled \/ buffer # task[w].seen)
      /\ UNCHANGED <<edits, files, settled, given, faults>>
  BY DEF ClearEdits, DropEdits, Ends, Spoils
<1>2. buffer' \in Buffer /\ OfTheirRows(buffer)'
  BY <1>1, IdleTask DEF OfTheirRows, Empty
<1>3. task' \in [Workers -> Tasks] /\ \A v \in Workers : TaskOK(task[v])'
  BY <1>1, TaskMoves, IdleTask, IdleOK
<1>4. EditsInv'
  BY <1>1, <1>2, <1>3 DEF EditsInv
<1>5. \A r \in Known : task[w].seen[r] \in settled \cup {Nothing}
  BY DEF EditsInv, TaskOK, ClearEdits, DropEdits, At
<1>6. ~spoiled' => Record!Settle
  BY <1>1, <1>5 DEF Record!Settle, Empty
<1>7. QED
  BY <1>4, <1>6

\* A fork takes answers along that were given.
LEMMA CopyKeeps ==
  ASSUME EditsInv, NEW w \in Workers, CopyRun(w)
  PROVE  EditsInv' /\ Record!Fork
<1> DEFINE taken == {task[w].seen[r] : r \in Known} \ {Nothing}
<1>0. PICK t \in Tasks : t = [task[w] EXCEPT !.step = "drop"]
  BY DEF EditsInv, Tasks, Steps
<1>1. task[w] \in Tasks /\ OfTheirRows(task[w].seen) /\ Known \subseteq Rows
  BY DecisionEditsAssumption DEF EditsInv, TaskOK
<1>2. taken \subseteq given
  BY <1>1 DEF OfTheirRows
<1>3. /\ settled' = settled \cup taken /\ Goes(w, t)
      /\ UNCHANGED <<edits, buffer, files, given, spoiled, faults>>
  BY <1>0 DEF CopyRun
<1>4. settled \subseteq settled' /\ settled' \subseteq given
  BY <1>2, <1>3 DEF EditsInv
<1>5. t \in Tasks /\ t.step = "drop" /\ t.seen = task[w].seen
  BY <1>0, <1>1 DEF Tasks
<1>6. TaskOK(t)'
  BY <1>1, <1>3, <1>5 DEF TaskOK, OfTheirRows
<1> HIDE DEF taken
<1>7. task' \in [Workers -> Tasks] /\ \A v \in Workers : TaskOK(task[v])'
  BY <1>3, <1>4, <1>5, <1>6, TaskMoves
<1>8. EditsInv'
  BY <1>3, <1>4, <1>7 DEF EditsInv, OfTheirRows
<1>9. QED
  BY <1>3, <1>4, <1>8 DEF Record!Fork

\* A write records what it brings.
LEMMA WriteKeeps ==
  ASSUME EditsInv, NEW w \in Workers, WriteFile(w)
  PROVE  EditsInv' /\ (spoiled' \/ Record!Record)
<1> DEFINE saving == task[w].saving  news == Brought(w)  e == New(w)
<1>0. PICK t \in Tasks : t = [task[w] EXCEPT !.step = "clear"]
  BY DEF EditsInv, Tasks, Steps
<1>1. /\ task[w] \in Tasks /\ TaskOK(task[w]) /\ At(w, "write")
      /\ ~saving => edits < MaxEdits /\ task[w].row \in Known /\ task[w].answer \in Answers
      /\ edits \in Nat /\ MaxEdits \in Nat /\ Known \subseteq Rows
      /\ files \in Seq([Rows -> Seq(Edits)]) /\ saving \in BOOLEAN
  BY DecisionEditsAssumption DEF EditsInv, TaskOK, Tasks, WriteFile, At
<1>2. /\ files' = Written(w) /\ settled' = settled \cup news
      /\ spoiled' = (spoiled \/ (IF task[w].file = 0 THEN files # <<>>
                                 ELSE files[task[w].file] # task[w].rows))
      /\ saving => Goes(w, t) /\ UNCHANGED <<edits, given>>
      /\ ~saving => Goes(w, Idle) /\ edits' = edits + 1 /\ given' = given \cup {e}
      /\ UNCHANGED <<buffer, faults>>
  BY <1>0 DEF WriteFile, Spoils, Ends
<1>3. /\ news \subseteq Edits /\ \A f \in news : f.row \in Known
      /\ \A f, g \in news : f.row = g.row => f = g
      /\ news \subseteq given \cup (IF saving THEN {} ELSE {e})
  BY <1>1, BroughtIs
<1>4. /\ files' \in Seq([Rows -> Seq(Edits)]) /\ DOMAIN files \subseteq DOMAIN files'
      /\ \/ Len(files') = Len(files)
         \/ task[w].file = 0 /\ Len(files') = Len(files) + 1
  BY <1>1, <1>2, WrittenIs
<1>5. ~saving => e \in Edits /\ e.n = edits + 1
  BY <1>1 DEF New, Edits
<1>6. /\ given \subseteq given' /\ given' \subseteq Edits /\ news \subseteq given'
      /\ settled \subseteq settled' /\ settled' \subseteq given'
  BY <1>1, <1>2, <1>3, <1>5 DEF EditsInv
<1>7. edits' \in 0..MaxEdits /\ \A f \in given' : f.n <= edits'
  <2>1. /\ \A f \in given : f.n \in Nat /\ f.n <= edits
        /\ edits \in 0..MaxEdits
    BY DEF EditsInv, Edits
  <2>2. CASE saving
    BY <1>2, <2>1, <2>2
  <2>3. CASE ~saving
    <3>1. edits' = edits + 1 /\ given' = given \cup {e} /\ e.n = edits + 1 /\ edits < MaxEdits
      BY <1>1, <1>2, <1>5, <2>3
    <3>2. \A f \in given' : f.n <= edits + 1
      BY <1>1, <2>1, <3>1
    <3>3. QED
      BY <1>1, <2>1, <3>1, <3>2
  <2>4. QED
    BY <2>2, <2>3
<1>8. saving => /\ t \in Tasks /\ t.step = "clear" /\ t.seen = task[w].seen
                /\ OfTheirRows(t.seen) /\ \A r \in Known : t.seen[r] \in news \cup {Nothing}
  BY <1>0, <1>1 DEF Tasks, TaskOK, Brought
<1> HIDE DEF saving, news, e
<1>9. saving => TaskOK(t)'
  BY <1>2, <1>6, <1>8 DEF TaskOK, OfTheirRows
<1>10. task' \in [Workers -> Tasks] /\ \A v \in Workers : TaskOK(task[v])'
  BY <1>1, <1>2, <1>4, <1>6, <1>8, <1>9, TaskMoves, IdleTask, IdleOK
<1>11. spoiled' \in BOOLEAN /\ (~spoiled' => Len(files') <= 1)
  <2>1. Len(files) \in Nat /\ Len(files') \in Nat /\ (files = <<>> => Len(files) = 0)
    BY <1>1, <1>4, LenProperties, EmptySeq
  <2>2. spoiled \in BOOLEAN /\ (~spoiled => Len(files) <= 1)
    BY DEF EditsInv
  <2>3. spoiled' \in BOOLEAN
    BY <1>2, <2>2
  <2>4. CASE task[w].file = 0
    <3>1. ~spoiled' => files = <<>>
      BY <1>2, <2>2, <2>4
    <3>2. ~spoiled' => Len(files) = 0
      BY <2>1, <3>1
    <3>3. QED
      BY <1>4, <2>1, <2>3, <3>2
  <2>5. CASE task[w].file # 0
    BY <1>2, <1>4, <2>1, <2>2, <2>3, <2>5
  <2>6. QED
    BY <2>4, <2>5
<1>12. EditsInv'
  BY <1>2, <1>4, <1>6, <1>7, <1>10, <1>11 DEF EditsInv, OfTheirRows
<1>13. ASSUME ~spoiled' PROVE Record!Record
  <2> DEFINE now  == IF files = <<>> THEN NoRows ELSE files[1]
             next == IF files' = <<>> THEN NoRows ELSE files'[1]
  <2>1. next = Merged(now, Brought(w))
    BY <1>13, WrittenRecord
  <2>2. now \in [Rows -> Seq(Edits)]
    <3>1. NoRows \in [Rows -> Seq(Edits)]
      BY EmptySeq DEF NoRows
    <3>2. files # <<>> => files[1] \in [Rows -> Seq(Edits)]
      BY <1>1, EmptySeq, ElementOfSeq, LenProperties
    <3>3. QED
      BY <3>1, <3>2
  <2> HIDE DEF now, next
  <2>3. /\ \A f \in news : f.row \in Known /\ next[f.row] = Record!Superseded(now[f.row], f)
        /\ \A r \in Rows : (\A f \in news : f.row # r) => next[r] = now[r]
    <3>1. /\ \A f \in Brought(w) : f.row \in Rows =>
                Merged(now, Brought(w))[f.row] = Record!Superseded(now[f.row], f)
          /\ \A r \in Rows : (\A f \in Brought(w) : f.row # r)
                => Merged(now, Brought(w))[r] = now[r]
      BY <1>3, <2>2, MergedIs DEF news
    <3>2. \A f \in news : f.row \in Known /\ f.row \in Rows
      BY <1>1, <1>3
    <3>3. QED
      BY <2>1, <3>1, <3>2 DEF news
  <2> USE DEF now, next
  <2>4. QED
    BY <1>2, <1>3, <1>6, <2>3 DEF Record!Record
<1>14. QED
  BY <1>12, <1>13

\* A request that fails leaves everything; a buffer that expires is spoiled.
LEMMA FaultKeeps ==
  ASSUME EditsInv, Expires \/ \E w \in Workers : Stops(w)
  PROVE  EditsInv' /\ (spoiled' \/ UNCHANGED <<buffer, files, settled, given>>)
<1>1. faults' \in 0..MaxFaults
  <2>1. faults \in 0..MaxFaults /\ MaxFaults \in Nat
    BY DecisionEditsAssumption DEF EditsInv
  <2>2. faults < MaxFaults /\ faults' = faults + 1
    BY DEF Expires, Stops
  <2>3. QED
    BY <2>1, <2>2
<1>2. CASE Expires
  <2>1. UNCHANGED <<edits, files, settled, given, task>> /\ buffer' = Empty /\ spoiled' = TRUE
    BY <1>2 DEF Expires, Spoils
  <2>2. OfTheirRows(buffer)' /\ \A v \in Workers : TaskOK(task[v])'
    BY <2>1 DEF EditsInv, TaskOK, OfTheirRows, Empty
  <2>3. QED
    BY <1>1, <2>1, <2>2, IdleTask DEF EditsInv
<1>3. ASSUME NEW w \in Workers, Stops(w)
      PROVE  EditsInv' /\ UNCHANGED <<buffer, files, settled, given>>
  <2>1. UNCHANGED <<edits, buffer, files, settled, given, spoiled>> /\ Goes(w, Idle)
    BY <1>3 DEF Stops, Ends
  <2>2. task' \in [Workers -> Tasks] /\ \A v \in Workers : TaskOK(task[v])'
    BY <2>1, TaskMoves, IdleTask, IdleOK
  <2>3. QED
    BY <1>1, <2>1, <2>2 DEF EditsInv, OfTheirRows
<1>4. QED
  BY <1>2, <1>3

\* There are no answers.
LEMMA EditsInit == DInit => EditsInv
<1> SUFFICES ASSUME DInit PROVE EditsInv
  OBVIOUS
<1>1. \A w \in Workers : TaskOK(task[w])
  BY DEF DInit, TaskOK, Idle, OfTheirRows, Empty
<1>2. files \in Seq([Rows -> Seq(Edits)]) /\ Len(files) = 0
  BY EmptySeq DEF DInit
<1>3. task \in [Workers -> Tasks] /\ buffer \in Buffer /\ OfTheirRows(buffer)
  BY IdleTask DEF DInit, OfTheirRows, Empty
<1>4. edits \in 0..MaxEdits /\ faults \in 0..MaxFaults
  BY DecisionEditsAssumption DEF DInit
<1>5. settled \subseteq given /\ given \subseteq Edits /\ \A e \in given : e.n <= edits
  BY DEF DInit
<1>6. spoiled \in BOOLEAN /\ (~spoiled => Len(files) <= 1)
  <2>1. Len(files) <= 1
    BY <1>2
  <2>2. spoiled \in BOOLEAN
    BY DEF DInit
  <2>3. QED
    BY <2>1, <2>2
<1>7. QED
  BY <1>1, <1>2, <1>3, <1>4, <1>5, <1>6 DEF EditsInv

\* Every step keeps the invariant, and is one of the record's, or leaves the
\* record as it is, or spoils it.
LEMMA EditsNext ==
  EditsInv /\ [DNext]_dvars
    => EditsInv' /\ [spoiled' \/ Record!Next]_<<buffer, files, settled, given>>
<1> SUFFICES ASSUME EditsInv, [DNext]_dvars
             PROVE  EditsInv' /\ (\/ spoiled' \/ Record!Next
                                 \/ UNCHANGED <<buffer, files, settled, given>>)
  OBVIOUS
<1>1. ASSUME NEW w \in Workers,
             \/ \E r \in Rows, a \in Answers : Edit(w, r, a) \/ EditInPlace(w, r, a)
             \/ \E r \in Rows : Revert(w, r)
             \/ Save(w) \/ Fork(w) \/ ReadFile(w)
      PROVE  EditsInv' /\ UNCHANGED <<buffer, files, settled, given>>
  BY <1>1, BeginKeeps
<1>2. ASSUME NEW w \in Workers,
             \/ SetEdit(w) \/ RemoveEdit(w) \/ WriteFile(w) \/ ClearEdits(w) \/ DropEdits(w)
             \/ CopyRun(w)
      PROVE  EditsInv' /\ (spoiled' \/ Record!Next)
  BY <1>2, SetKeeps, RemoveKeeps, WriteKeeps, ClearKeeps, CopyKeeps DEF Record!Next
<1>3. CASE Expires \/ \E w \in Workers : Stops(w)
  BY <1>3, FaultKeeps
<1>4. CASE UNCHANGED dvars
  BY <1>4 DEF dvars, EditsInv, TaskOK, OfTheirRows
<1>5. QED
  BY <1>1, <1>2, <1>3, <1>4 DEF DNext

\* Whatever requests do, the buffer, the file and the tasks are what they are
\* declared to be, and what took effect was given.
THEOREM TypeCorrect == DSpec => []TypeOK
<1>1. DInit => EditsInv
  BY EditsInit
<1>2. EditsInv /\ [DNext]_dvars => EditsInv'
  BY EditsNext
<1>3. EditsInv => TypeOK
  <2> SUFFICES ASSUME EditsInv PROVE TypeOK
    OBVIOUS
  <2>1. \A i \in DOMAIN files : files[i] \in [Rows -> Seq(Edits)]
    BY ElementOfSeq, LenProperties DEF EditsInv
  <2>2. QED
    BY <2>1 DEF EditsInv, TypeOK, Tasks
<1>4. QED
  BY <1>1, <1>2, <1>3, PTL DEF DSpec

\* The editors implement the record: until a write undoes one it had not read,
\* or the buffer expires, every step of theirs is one the record allows.
THEOREM RecordImplemented == DSpec => KeepsAnswers
<1>1. DInit => EditsInv /\ Record!Init
  BY EditsInit DEF DInit, Record!Init, Empty, NoRows
<1>2. EditsInv /\ [DNext]_dvars
        => EditsInv' /\ [spoiled' \/ Record!Next]_<<buffer, files, settled, given>>
  BY EditsNext
<1>3. QED
  BY <1>1, <1>2, PTL DEF DSpec, KeepsAnswers

-----------------------------------------------------------------------------
(* RunFork: what logs are.                                                 *)

\* Ids of rows, rows, and what the runs and the requests are.
Ids     == Seq(Decisions \cup Nat)
LogRows == [id : Ids, ruled : BOOLEAN, by : Ids, born : Nat]
RunRecords == [pending : SUBSET Phases, log : SUBSET LogRows, ready : BOOLEAN, whole : BOOLEAN,
               from : SUBSET LogRows]
ForkSteps == {"idle", "folder", "state", "copy", "rewrite"}
ForkRecords == [step : ForkSteps, src : Nat, at : Nat, all : BOOLEAN, targets : SUBSET Phases,
                edit : ForkEdits, run : Nat, body : SUBSET LogRows]

\* An id is a decision and the runs whose forks retired it, all before run n;
\* a row that was retired, and no other, is superseded, by one on its decision,
\* and no ruling.
RowOK(row, n) ==
  /\ row.id # <<>> /\ row.id[1] \in Decisions
  /\ \A i \in 2..Len(row.id) : row.id[i] \in Nat /\ row.id[i] < n
  /\ row.by = <<>> <=> Len(row.id) = 1
  /\ row.by # <<>> => row.by[1] = row.id[1] /\ ~row.ruled

\* Each id once; each row that was retired leads to another, or to a live id.
Distinct(log) == \A a, b \in log : a.id = b.id => a = b
Leads(log)    == \A row \in log : Len(row.by) > 1 => \E other \in log : other.id = row.by
LogOK(log, n) ==
  log \subseteq LogRows /\ (\A row \in log : RowOK(row, n)) /\ Distinct(log) /\ Leads(log)

-----------------------------------------------------------------------------
(* Logs: what is done to their rows.                                       *)

\* A longer id is another, on the same decision.
LEMMA Appended ==
  ASSUME NEW id \in Ids, id # <<>>, NEW n \in Nat
  PROVE  /\ Append(id, n) \in Ids /\ Append(id, n) # <<>> /\ Append(id, n)[1] = id[1]
         /\ Len(id) \in Nat \ {0} /\ Len(Append(id, n)) = Len(id) + 1
         /\ \A i \in 1..Len(id) : Append(id, n)[i] = id[i]
         /\ Append(id, n)[Len(id) + 1] = n
         /\ \A other \in Ids : Append(id, n) = Append(other, n) => id = other
<1>1. n \in Decisions \cup Nat
  OBVIOUS
<1>2. Len(id) \in Nat \ {0}
  BY EmptySeq DEF Ids
<1> QED BY <1>1, <1>2, AppendProperties, AppendInjective DEF Ids

\* The runs that retired a row come before one, and so before any later one.
LEMMA LogLater ==
  ASSUME NEW m \in Nat, NEW n \in Nat, m <= n, NEW log, LogOK(log, m)
  PROVE  LogOK(log, n)
<1> SUFFICES ASSUME NEW row \in log PROVE RowOK(row, n)
  BY DEF LogOK
<1>1. RowOK(row, m)
  BY DEF LogOK
<1> QED BY <1>1 DEF RowOK

\* A log with rows that have changed in nothing but their being rulings.
LEMMA SameLines ==
  ASSUME NEW n, NEW log, LogOK(log, n), NEW new, new \subseteq LogRows,
         \A row \in new : \E old \in log :
           row.id = old.id /\ row.by = old.by /\ (row.ruled => old.ruled \/ old.by = <<>>),
         \A old \in log : \E row \in new : row.id = old.id,
         \A a, b \in new : a.id = b.id => a = b
  PROVE  LogOK(new, n)
<1>1. ASSUME NEW row \in new PROVE RowOK(row, n)
  BY <1>1 DEF LogOK, RowOK
<1>2. Leads(new)
  <2> SUFFICES ASSUME NEW row \in new, Len(row.by) > 1 PROVE \E other \in new : other.id = row.by
    BY DEF Leads
  <2>1. PICK old \in log : row.by = old.by
    OBVIOUS
  <2>2. PICK other \in log : other.id = row.by
    BY <2>1 DEF LogOK, Leads
  <2> QED BY <2>2
<1> QED BY <1>1, <1>2 DEF LogOK, Distinct

\* What an edit leaves of a row.
Changed(row, edit) ==
  IF row.id = <<edit[1]>> THEN [row EXCEPT !.ruled = (edit[2] = "override")] ELSE row

\* An edit changes a row in nothing but whether it is a ruling.
LEMMA ChangedIs ==
  ASSUME NEW row \in LogRows, NEW edit \in Decisions \X {"override", "revert"}
  PROVE  /\ Changed(row, edit) \in LogRows
         /\ Changed(row, edit).id = row.id /\ Changed(row, edit).by = row.by
         /\ Changed(row, edit).ruled => row.ruled \/ row.id = <<edit[1]>>
BY DEF Changed, LogRows

\* The edits of a request keep a log one.
LEMMA EditedOK ==
  ASSUME NEW n, NEW log, LogOK(log, n), NEW edit \in ForkEdits
  PROVE  LogOK(Edited(log, edit), n)
<1>1. CASE edit = <<>>
  BY <1>1 DEF Edited
<1>2. CASE edit # <<>>
  <2>1. edit \in Decisions \X {"override", "revert"}
    BY <1>2 DEF ForkEdits
  <2>2. Edited(log, edit) = {Changed(row, edit) : row \in log}
    BY <1>2 DEF Edited, Changed
  <2>3. log \subseteq LogRows /\ Distinct(log) /\ \A row \in log : RowOK(row, n)
    BY DEF LogOK
  <2>4. \A row \in log : row.id = <<edit[1]>> => row.by = <<>>
    <3> SUFFICES ASSUME NEW row \in log, row.id = <<edit[1]>> PROVE row.by = <<>>
      OBVIOUS
    <3>1. Len(row.id) = 1
      OBVIOUS
    <3> QED BY <3>1, <2>3 DEF RowOK
  <2> DEFINE new == {Changed(row, edit) : row \in log}
  <2>5. new \subseteq LogRows
    BY <2>1, <2>3, ChangedIs
  <2>6. ASSUME NEW row \in new
        PROVE  \E old \in log :
                 row.id = old.id /\ row.by = old.by /\ (row.ruled => old.ruled \/ old.by = <<>>)
    <3>1. PICK old \in log : row = Changed(old, edit)
      OBVIOUS
    <3> QED BY <2>1, <2>3, <2>4, <3>1, ChangedIs
  <2>7. \A old \in log : \E row \in new : row.id = old.id
    BY <2>1, <2>3, ChangedIs
  <2>8. \A a, b \in new : a.id = b.id => a = b
    <3> SUFFICES ASSUME NEW a \in log, NEW b \in log,
                        Changed(a, edit).id = Changed(b, edit).id
                 PROVE  Changed(a, edit) = Changed(b, edit)
      OBVIOUS
    <3>1. a.id = b.id
      BY <2>1, <2>3, ChangedIs
    <3> QED BY <2>3, <3>1 DEF Distinct
  <2> HIDE DEF new
  <2>9. LogOK(new, n)
    BY <2>5, <2>6, <2>7, <2>8, SameLines
  <2> QED BY <2>2, <2>9 DEF new
<1> QED BY <1>1, <1>2

-----------------------------------------------------------------------------
(* Retiring rows *)

\* What retiring makes of an id and of a row, as operators of their own.
NewId(id, retire, src) == IF \E row \in retire : row.id = id THEN Append(id, src) ELSE id
Moved(row, retire, src) ==
  [row EXCEPT !.id = NewId(row.id, retire, src),
              !.by = IF row.by = <<>> THEN row.id ELSE NewId(row.by, retire, src)]

\* Retiring moves rows off their ids and leaves the others.
LEMMA RetiredIs ==
  ASSUME NEW rows, NEW retire, NEW src
  PROVE  Retired(rows, retire, src) = (rows \ retire) \cup {Moved(row, retire, src) : row \in retire}
BY DEF Retired, Moved, NewId

\* A row that is retired: what becomes of its fields.
LEMMA MovedIs ==
  ASSUME NEW n \in Nat, NEW rows, LogOK(rows, n), NEW retire \in SUBSET rows, NEW row \in retire
  PROVE  /\ Moved(row, retire, n) \in LogRows
         /\ Moved(row, retire, n).id = Append(row.id, n)
         /\ Moved(row, retire, n).ruled = row.ruled /\ Moved(row, retire, n).born = row.born
         /\ Moved(row, retire, n).by = IF row.by = <<>> THEN row.id ELSE NewId(row.by, retire, n)
<1>1. row \in LogRows /\ row.id \in Ids /\ row.by \in Ids /\ row.id # <<>>
  BY DEF LogOK, RowOK, LogRows
<1>2. NewId(row.id, retire, n) = Append(row.id, n)
  BY DEF NewId
<1>3. NewId(row.id, retire, n) \in Ids
  BY <1>1, <1>2, Appended
<1>4. row.by # <<>> => NewId(row.by, retire, n) \in Ids
  BY <1>1, Appended DEF NewId
<1> DEFINE b == IF row.by = <<>> THEN row.id ELSE NewId(row.by, retire, n)
<1>5. b \in Ids
  BY <1>1, <1>4
<1>6. Moved(row, retire, n) = [row EXCEPT !.id = NewId(row.id, retire, n), !.by = b]
  BY DEF Moved
<1> HIDE DEF b
<1>7. /\ Moved(row, retire, n) \in LogRows
      /\ Moved(row, retire, n).id = NewId(row.id, retire, n)
      /\ Moved(row, retire, n).ruled = row.ruled /\ Moved(row, retire, n).born = row.born
      /\ Moved(row, retire, n).by = b
  BY <1>1, <1>3, <1>5, <1>6 DEF LogRows
<1> QED BY <1>2, <1>7 DEF b

\* The row that is retired keeps what is held of a row, one run later.
LEMMA MovedOK ==
  ASSUME NEW n \in Nat, NEW rows, LogOK(rows, n), NEW retire \in SUBSET rows, NEW row \in retire,
         ~row.ruled
  PROVE  RowOK(Moved(row, retire, n), n + 1)
<1> DEFINE m == Moved(row, retire, n)
<1>1. row.id \in Ids /\ row.by \in Ids /\ row.id # <<>> /\ RowOK(row, n)
  BY DEF LogOK, RowOK, LogRows
<1>2. /\ m.id = Append(row.id, n) /\ m.ruled = row.ruled
      /\ m.by = IF row.by = <<>> THEN row.id ELSE NewId(row.by, retire, n)
  BY MovedIs
<1> HIDE DEF m
<1>3. /\ m.id # <<>> /\ m.id[1] = row.id[1] /\ Len(row.id) \in Nat \ {0} /\ Len(m.id) = Len(row.id) + 1
      /\ \A i \in 1..Len(row.id) : m.id[i] = row.id[i]
      /\ m.id[Len(row.id) + 1] = n
  BY <1>1, <1>2, Appended
<1>4. \A i \in 2..Len(m.id) : m.id[i] \in Nat /\ m.id[i] < n + 1
  <2> SUFFICES ASSUME NEW i \in 2..Len(m.id) PROVE m.id[i] \in Nat /\ m.id[i] < n + 1
    OBVIOUS
  <2>1. CASE i = Len(row.id) + 1
    BY <1>3, <2>1
  <2>2. CASE i \in 2..Len(row.id)
    <3>1. m.id[i] = row.id[i]
      BY <1>3, <2>2
    <3>2. row.id[i] \in Nat /\ row.id[i] < n
      BY <1>1, <2>2 DEF RowOK
    <3> QED BY <3>1, <3>2
  <2> QED BY <1>3, <2>1, <2>2
<1>5. m.by # <<>> /\ m.by[1] = row.id[1]
  <2>1. CASE row.by = <<>>
    BY <1>1, <1>2, <2>1
  <2>2. CASE row.by # <<>>
    <3>1. Append(row.by, n) # <<>> /\ Append(row.by, n)[1] = row.by[1]
      BY <1>1, <2>2, Appended
    <3>2. m.by \in {Append(row.by, n), row.by}
      BY <1>2, <2>2 DEF NewId
    <3>3. row.by[1] = row.id[1]
      BY <1>1, <2>2 DEF RowOK
    <3> QED BY <2>2, <3>1, <3>2, <3>3
  <2> QED BY <2>1, <2>2
<1>6. RowOK(m, n + 1)
  <2>1. Len(m.id) # 1
    BY <1>3
  <2> QED BY <1>1, <1>2, <1>3, <1>4, <1>5, <2>1 DEF RowOK
<1> QED BY <1>6 DEF m

\* A row that was retired by run n stands under an id nobody had.
LEMMA FreshId ==
  ASSUME NEW n \in Nat, NEW rows, LogOK(rows, n), NEW a \in rows, NEW b \in rows
  PROVE  a.id # Append(b.id, n)
<1>1. /\ a.id \in Ids /\ b.id \in Ids /\ b.id # <<>>
      /\ \A i \in 2..Len(a.id) : a.id[i] < n
  BY DEF LogOK, RowOK, LogRows
<1>2. /\ Len(b.id) \in Nat \ {0} /\ Len(Append(b.id, n)) = Len(b.id) + 1
      /\ Append(b.id, n)[Len(b.id) + 1] = n
  BY <1>1, Appended
<1> SUFFICES ASSUME a.id = Append(b.id, n) PROVE FALSE
  OBVIOUS
<1>3. Len(a.id) = Len(b.id) + 1 /\ a.id[Len(a.id)] = n /\ Len(a.id) \in 2..Len(a.id)
  BY <1>2
<1> QED BY <1>1, <1>3

\* Retiring what does not stay live.
LEMMA RetiredOK ==
  ASSUME NEW n \in Nat, NEW rows, LogOK(rows, n), NEW at \in Nat, NEW all \in BOOLEAN
  PROVE  LogOK(Retired(rows, {row \in rows : ~StaysLive(row, at, all)}, n), n + 1)
<1> DEFINE retire == {row \in rows : ~StaysLive(row, at, all)}
           new == Retired(rows, retire, n)
<1>0. retire \in SUBSET rows /\ \A row \in rows : row \in retire <=> ~StaysLive(row, at, all)
  OBVIOUS
<1>1. rows \subseteq LogRows /\ Distinct(rows) /\ Leads(rows) /\ \A row \in rows : RowOK(row, n)
  BY DEF LogOK
<1>2. new = (rows \ retire) \cup {Moved(row, retire, n) : row \in retire}
  BY RetiredIs
<1>3. \A row \in retire : ~row.ruled
  BY <1>0 DEF StaysLive
<1>4. \A row \in retire : Moved(row, retire, n) \in LogRows /\ Moved(row, retire, n).id = Append(row.id, n)
  BY <1>0, MovedIs
<1> HIDE DEF new, retire
<1>5. new \subseteq LogRows
  BY <1>1, <1>2, <1>4
<1>6. ASSUME NEW row \in new PROVE RowOK(row, n + 1)
  <2>1. CASE row \in rows
    <3>1. RowOK(row, n)
      BY <1>1, <2>1
    <3> QED BY <3>1 DEF RowOK
  <2>2. CASE \E old \in retire : row = Moved(old, retire, n)
    BY <2>2, <1>0, <1>3, MovedOK
  <2> QED BY <1>2, <2>1, <2>2
<1>7. Distinct(new)
  <2> SUFFICES ASSUME NEW a \in new, NEW b \in new, a.id = b.id PROVE a = b
    BY DEF Distinct
  <2>1. CASE a \in rows /\ b \in rows
    BY <1>1, <2>1 DEF Distinct
  <2>2. ASSUME NEW c \in rows, NEW d \in retire PROVE c.id # Moved(d, retire, n).id
    BY <1>0, <1>4, <2>2, FreshId
  <2>3. ASSUME NEW c \in retire, NEW d \in retire, Moved(c, retire, n).id = Moved(d, retire, n).id
        PROVE  Moved(c, retire, n) = Moved(d, retire, n)
    <3>1. c.id \in Ids /\ d.id \in Ids /\ c.id # <<>>
      BY <1>0, <1>1, <2>3 DEF LogRows, RowOK
    <3>2. Append(c.id, n) = Append(d.id, n)
      BY <1>4, <2>3
    <3>3. \A other \in Ids : Append(c.id, n) = Append(other, n) => c.id = other
      BY <3>1, Appended
    <3>4. c.id = d.id
      BY <3>1, <3>2, <3>3
    <3> QED BY <1>0, <1>1, <2>3, <3>4 DEF Distinct
  <2> QED BY <1>0, <1>2, <2>1, <2>2, <2>3
<1>8. Leads(new)
  <2> SUFFICES ASSUME NEW row \in new, Len(row.by) > 1 PROVE \E other \in new : other.id = row.by
    BY DEF Leads
  <2>1. CASE row \in rows \ retire
    <3>1. PICK other \in rows : other.id = row.by
      BY <1>1, <2>1 DEF Leads
    <3>2. row.by # <<>>
      BY <1>1, <2>1, <3>1 DEF RowOK
    <3>3. ~row.ruled /\ row.by[1] = row.id[1]
      BY <1>1, <2>1, <3>2 DEF RowOK
    <3>4. StaysLive(row, at, all)
      BY <1>0, <2>1
    <3>5. StaysLive(other, at, all)
      BY <3>1, <3>3, <3>4 DEF StaysLive
    <3> QED BY <1>0, <1>2, <3>1, <3>5
  <2>2. ASSUME NEW old \in retire, row = Moved(old, retire, n)
        PROVE  \E other \in new : other.id = row.by
    <3>0. old \in rows /\ RowOK(old, n) /\ old.id \in Ids /\ old.by \in Ids
      BY <1>0, <1>1, <2>2 DEF LogRows
    <3>1. row.by = IF old.by = <<>> THEN old.id ELSE NewId(old.by, retire, n)
      BY <1>0, <2>2, MovedIs
    <3>2. old.by # <<>>
      <4> SUFFICES ASSUME old.by = <<>> PROVE FALSE
        OBVIOUS
      <4>1. row.by = old.id
        BY <3>1
      <4>2. Len(old.id) = 1
        BY <3>0 DEF RowOK
      <4>3. Len(old.id) > 1
        BY <4>1
      <4> QED BY <4>2, <4>3
    <3>3. row.by = NewId(old.by, retire, n)
      BY <3>1, <3>2
    <3>4. ASSUME NEW other \in retire, other.id = old.by PROVE \E o \in new : o.id = row.by
      <4>1. row.by = Append(other.id, n)
        BY <3>3, <3>4 DEF NewId
      <4> QED BY <1>2, <1>4, <3>4, <4>1
    <3>5. CASE \A other \in retire : other.id # old.by
      <4>1. row.by = old.by
        BY <3>3, <3>5 DEF NewId
      <4>2. PICK other \in rows : other.id = old.by
        BY <1>1, <3>0, <4>1 DEF Leads
      <4> QED BY <1>2, <3>5, <4>1, <4>2
    <3> QED BY <3>4, <3>5
  <2> QED BY <1>2, <2>1, <2>2
<1>9. LogOK(new, n + 1)
  BY <1>5, <1>6, <1>7, <1>8 DEF LogOK
<1> QED BY <1>9 DEF new, retire

\* What retiring does to the rows of a log: none goes, and rulings stay.
Keeps(from, log) ==
  \A row \in from :
    /\ \E kept \in log : kept.born = row.born /\ kept.id[1] = row.id[1]
    /\ row.ruled => \E kept \in log : kept.id = row.id /\ kept.by = row.by /\ kept.ruled

LEMMA RetiredKeeps ==
  ASSUME NEW n \in Nat, NEW rows, LogOK(rows, n), NEW at \in Nat, NEW all \in BOOLEAN
  PROVE  Keeps(rows, Retired(rows, {row \in rows : ~StaysLive(row, at, all)}, n))
<1> DEFINE retire == {row \in rows : ~StaysLive(row, at, all)}
           new == Retired(rows, retire, n)
<1>0. retire \in SUBSET rows /\ \A row \in rows : row \in retire <=> ~StaysLive(row, at, all)
  OBVIOUS
<1>1. new = (rows \ retire) \cup {Moved(row, retire, n) : row \in retire}
  BY RetiredIs
<1>2. ASSUME NEW row \in rows
      PROVE  /\ \E kept \in new : kept.born = row.born /\ kept.id[1] = row.id[1]
             /\ row.ruled => \E kept \in new : kept.id = row.id /\ kept.by = row.by /\ kept.ruled
  <2>1. CASE row \in retire
    <3>1. Moved(row, retire, n).id = Append(row.id, n) /\ Moved(row, retire, n).born = row.born
      BY <1>0, <2>1, MovedIs, SMTT(60)
    <3>2. row.id \in Ids /\ row.id # <<>>
      BY DEF LogOK, RowOK, LogRows
    <3>3. Append(row.id, n)[1] = row.id[1]
      BY <3>2, Appended
    <3>4. ~row.ruled
      BY <1>0, <2>1 DEF StaysLive
    <3> HIDE DEF new, retire
    <3> QED BY <1>1, <2>1, <3>1, <3>3, <3>4
  <2>2. CASE row \notin retire
    <3> HIDE DEF new, retire
    <3> QED BY <1>1, <2>2
  <2> QED BY <2>1, <2>2
<1> QED BY <1>2 DEF Keeps

\* Nothing but rulings is left under the ids of what is to run again.
LEMMA RetiredFrees ==
  ASSUME NEW n \in Nat, NEW rows, LogOK(rows, n), NEW at \in Nat, NEW all \in BOOLEAN,
         NEW row \in Retired(rows, {r \in rows : ~StaysLive(r, at, all)}, n), Len(row.id) = 1
  PROVE  row.ruled \/ PhaseOf[row.id[1]] < at
<1> DEFINE retire == {r \in rows : ~StaysLive(r, at, all)}
<1>0. retire \in SUBSET rows /\ \A r \in rows : r \in retire <=> ~StaysLive(r, at, all)
  OBVIOUS
<1>1. row \in (rows \ retire) \cup {Moved(r, retire, n) : r \in retire}
  BY RetiredIs
<1> HIDE DEF retire
<1>2. ASSUME NEW r \in retire PROVE row # Moved(r, retire, n)
  <2>1. Moved(r, retire, n).id = Append(r.id, n)
    BY <1>0, MovedIs
  <2>2. r.id \in Ids /\ r.id # <<>>
    BY <1>0 DEF LogOK, RowOK, LogRows
  <2>3. Len(Append(r.id, n)) = Len(r.id) + 1 /\ Len(r.id) \in Nat \ {0}
    BY <2>2, Appended
  <2> QED BY <2>1, <2>3
<1> QED BY <1>0, <1>1, <1>2 DEF StaysLive

\* A row of the run's own, where its id is free.
LEMMA ProducedOK ==
  ASSUME NEW n \in Nat, NEW log, LogOK(log, n), NEW x \in Decisions, \A row \in log : row.id # <<x>>
  PROVE  LogOK(log \cup {Row(x, n)}, n)
<1>1. /\ Row(x, n) \in LogRows /\ Row(x, n).id = <<x>> /\ Row(x, n).by = <<>> /\ Row(x, n).ruled = FALSE
  <2>1. <<x>> \in Ids /\ <<>> \in Ids
    BY DEF Ids
  <2> QED BY <2>1 DEF Row, LogRows
<1>2. RowOK(Row(x, n), n)
  BY <1>1 DEF RowOK
<1>3. Distinct(log \cup {Row(x, n)})
  BY <1>1 DEF Distinct, LogOK
<1>4. Leads(log \cup {Row(x, n)})
  <2>1. Len(Row(x, n).by) = 0
    BY <1>1
  <2> QED BY <2>1 DEF Leads, LogOK
<1> QED BY <1>1, <1>2, <1>3, <1>4 DEF LogOK

\* A live row that is ruled on.
LEMMA RuledOK ==
  ASSUME NEW n \in Nat, NEW log, LogOK(log, n), NEW row \in log, row.by = <<>>
  PROVE  LogOK((log \ {row}) \cup {[row EXCEPT !.ruled = TRUE]}, n)
<1> DEFINE m == [row EXCEPT !.ruled = TRUE]
<1>1. row \in LogRows /\ log \subseteq LogRows /\ Distinct(log)
  BY DEF LogOK
<1>2. m \in LogRows /\ m.id = row.id /\ m.by = row.by
  BY <1>1 DEF LogRows
<1> HIDE DEF m
<1> DEFINE new == (log \ {row}) \cup {m}
<1>3. new \subseteq LogRows /\ \A old \in log : \E r \in new : r.id = old.id
  BY <1>1, <1>2
<1>4. \A r \in new : \E old \in log :
        r.id = old.id /\ r.by = old.by /\ (r.ruled => old.ruled \/ old.by = <<>>)
  BY <1>2
<1>5. \A a, b \in new : a.id = b.id => a = b
  BY <1>1, <1>2 DEF Distinct
<1> HIDE DEF new
<1>6. LogOK(new, n)
  BY <1>3, <1>4, <1>5, SameLines
<1> QED BY <1>6 DEF new, m

-----------------------------------------------------------------------------
(* Forks and the runs they write.                                          *)

\* A request has the run it writes to itself, which is not whole, comes after
\* its source, and is pending where the fork runs again; the copy it holds is a log.
ForkOK(p) ==
  /\ fork[p].step \in {"idle", "folder"} => fork[p].run = 0
  /\ fork[p].step # "idle" =>
       /\ fork[p].src \in DOMAIN runs /\ fork[p].targets \subseteq {n \in Phases : n >= fork[p].at}
  /\ fork[p].step \in {"state", "copy", "rewrite"} =>
       fork[p].run \in DOMAIN runs /\ fork[p].src < fork[p].run /\ ~runs[fork[p].run].whole
  /\ fork[p].step \in {"copy", "rewrite"} => runs[fork[p].run].pending = fork[p].targets
  /\ fork[p].step = "rewrite" => LogOK(fork[p].body, fork[p].src)

\* No two forks write one run.
OwnRun == \A p, q \in Forkers : fork[p].run = fork[q].run => p = q \/ fork[p].run = 0

\* A run's log is one, and where its fork ended well it holds what was kept.
RunOK(r) ==
  /\ LogOK(runs[r].log, r)
  /\ runs[r].whole => Keeps(runs[r].from, runs[r].log) /\ RerunLands(r)

ForkTypes == fork \in [Forkers -> ForkRecords] /\ runs \in Seq(RunRecords)

ForkInv ==
  /\ ForkTypes /\ OwnRun
  /\ \A p \in Forkers : ForkOK(p)
  /\ \A r \in DOMAIN runs : RunOK(r)

\* A request that does nothing writes no run.
LEMMA NoForkTyped == NoFork \in ForkRecords /\ NoFork.step = "idle" /\ NoFork.run = 0
BY DEF NoFork, ForkRecords, ForkSteps, ForkEdits

\* The first run has an empty log.
LEMMA ForkInitInv == ForkInit => ForkInv
<1> SUFFICES ASSUME ForkInit PROVE ForkInv
  OBVIOUS
<1> DEFINE r0 == [pending |-> Phases, log |-> {}, ready |-> TRUE, whole |-> TRUE, from |-> {}]
<1>1. r0 \in RunRecords /\ r0.log = {} /\ r0.from = {}
  BY DEF RunRecords
<1>2. runs = <<r0>>
  BY DEF ForkInit
<1> HIDE DEF r0
<1>3. runs \in Seq(RunRecords) /\ DOMAIN runs = {1} /\ runs[1] = r0
  BY <1>1, <1>2
<1>4. RunOK(1)
  BY <1>1, <1>3 DEF RunOK, LogOK, Distinct, Leads, Keeps, RerunLands
<1>5. \A p \in Forkers : fork[p] = NoFork
  BY DEF ForkInit
<1>6. ForkTypes /\ OwnRun /\ \A p \in Forkers : ForkOK(p)
  BY <1>3, <1>5, NoForkTyped DEF ForkTypes, OwnRun, ForkOK, ForkInit
<1> QED BY <1>3, <1>4, <1>6 DEF ForkInv

\* A run record that is put in a run's place.
LEMMA PutRun ==
  ASSUME ForkTypes, NEW r \in DOMAIN runs, NEW rec \in RunRecords, runs' = [runs EXCEPT ![r] = rec]
  PROVE  /\ runs' \in Seq(RunRecords) /\ DOMAIN runs' = DOMAIN runs /\ Len(runs') = Len(runs)
         /\ runs'[r] = rec /\ \A s \in DOMAIN runs : s # r => runs'[s] = runs[s]
<1>1. runs \in Seq(RunRecords) /\ DOMAIN runs = 1..Len(runs)
  BY LenProperties DEF ForkTypes
<1>2. runs' \in Seq(RunRecords) /\ Len(runs') = Len(runs)
  BY <1>1, ExceptSeq
<1>3. DOMAIN runs' = 1..Len(runs')
  BY <1>2, LenProperties
<1> QED BY <1>1, <1>2, <1>3

\* A log that is put in a run's place.
LEMMA PutLog ==
  ASSUME ForkTypes, NEW r \in DOMAIN runs, NEW log, log \subseteq LogRows, WithLog(r, log)
  PROVE  /\ runs' \in Seq(RunRecords) /\ DOMAIN runs' = DOMAIN runs
         /\ runs'[r].log = log /\ runs'[r].pending = runs[r].pending
         /\ runs'[r].whole = runs[r].whole /\ runs'[r].from = runs[r].from
         /\ \A s \in DOMAIN runs : s # r => runs'[s] = runs[s]
<1>1. runs \in Seq(RunRecords) /\ DOMAIN runs = 1..Len(runs)
  BY LenProperties DEF ForkTypes
<1>2. runs[r] \in RunRecords
  BY <1>1, ElementOfSeq
<1> DEFINE rec == [runs[r] EXCEPT !.log = log]
<1>3. /\ rec \in RunRecords /\ rec.log = log /\ rec.pending = runs[r].pending
      /\ rec.whole = runs[r].whole /\ rec.from = runs[r].from
  BY <1>2 DEF RunRecords
<1>4. runs' = [runs EXCEPT ![r] = rec]
  BY DEF WithLog
<1> HIDE DEF rec
<1> QED BY <1>3, <1>4, PutRun

\* What one fork request moves to, the others where they were.
LEMMA PutFork ==
  ASSUME ForkTypes, NEW p \in Forkers, NEW f \in ForkRecords, ForkGoes(p, f)
  PROVE  /\ fork' \in [Forkers -> ForkRecords]
         /\ fork'[p] = f /\ \A q \in Forkers : q # p => fork'[q] = fork[q]
BY DEF ForkTypes, ForkGoes

\* A fork that does not move keeps what it holds while runs stay, and its own
\* is as it was.
LEMMA OtherFork ==
  ASSUME NEW q \in Forkers, ForkOK(q), fork'[q] = fork[q], DOMAIN runs \subseteq DOMAIN runs',
         fork[q].run \in DOMAIN runs =>
           /\ runs'[fork[q].run].whole = runs[fork[q].run].whole
           /\ runs'[fork[q].run].pending = runs[fork[q].run].pending
  PROVE  ForkOK(q)'
BY DEF ForkOK

\* A run that did not change.
LEMMA SameRun ==
  ASSUME NEW r, RunOK(r), runs'[r] = runs[r]
  PROVE  RunOK(r)'
BY DEF RunOK, RerunLands

\* A log that its run changes, itself: appended to, or ruled on.
LEMMA LogStep ==
  ASSUME ForkInv, NEW r \in DOMAIN runs, NEW log, LogOK(log, r), WithLog(r, log), UNCHANGED fork,
         runs[r].whole => /\ Keeps(runs[r].from, log)
                          /\ \A row \in log : Len(row.id) = 1 /\ PhaseOf[row.id[1]] \in runs[r].pending
                                                => row.born = r \/ row.ruled
  PROVE  ForkInv'
<1>1. ForkTypes /\ log \subseteq LogRows
  BY DEF ForkInv, LogOK
<1>2. /\ runs' \in Seq(RunRecords) /\ DOMAIN runs' = DOMAIN runs
      /\ runs'[r].log = log /\ runs'[r].pending = runs[r].pending
      /\ runs'[r].whole = runs[r].whole /\ runs'[r].from = runs[r].from
      /\ \A s \in DOMAIN runs : s # r => runs'[s] = runs[s]
  BY <1>1, PutLog
<1>3. ForkTypes' /\ OwnRun'
  BY <1>2 DEF ForkInv, ForkTypes, OwnRun
<1>4. ASSUME NEW q \in Forkers PROVE ForkOK(q)'
  <2>1. fork[q].run \in DOMAIN runs =>
           /\ runs'[fork[q].run].whole = runs[fork[q].run].whole
           /\ runs'[fork[q].run].pending = runs[fork[q].run].pending
    BY <1>2
  <2> QED BY <1>2, <2>1, OtherFork DEF ForkInv
<1>5. RunOK(r)'
  BY <1>2 DEF RunOK, RerunLands
<1>6. ASSUME NEW s \in DOMAIN runs' PROVE RunOK(s)'
  BY <1>2, <1>5, <1>6, SameRun DEF ForkInv
<1> QED BY <1>3, <1>4, <1>6 DEF ForkInv

\* A row of a run that is produced or ruled on.
LEMMA RunMoves ==
  ASSUME ForkInv, NEW r \in DOMAIN runs,
         (\E x \in Decisions : Produce(r, x)) \/ (\E row \in runs[r].log : Rule(r, row))
  PROVE  ForkInv'
<1>1. r \in Nat /\ RunOK(r) /\ LogOK(runs[r].log, r)
  <2>1. DOMAIN runs = 1..Len(runs) /\ Len(runs) \in Nat
    BY LenProperties DEF ForkInv, ForkTypes
  <2> QED BY <2>1 DEF ForkInv, RunOK
<1>2. ASSUME NEW x \in Decisions, Produce(r, x) PROVE ForkInv'
  <2> DEFINE log == runs[r].log \cup {Row(x, r)}
  <2>1. WithLog(r, log) /\ UNCHANGED fork /\ \A row \in runs[r].log : row.id # <<x>>
    BY <1>2 DEF Produce
  <2>2. LogOK(log, r)
    BY <1>1, <2>1, ProducedOK
  <2>3. Row(x, r).born = r
    BY DEF Row
  <2>4. runs[r].whole => /\ Keeps(runs[r].from, log)
                         /\ \A row \in log : Len(row.id) = 1 /\ PhaseOf[row.id[1]] \in runs[r].pending
                                               => row.born = r \/ row.ruled
    BY <1>1, <2>3 DEF RunOK, Keeps, RerunLands
  <2> HIDE DEF log
  <2> QED BY <2>1, <2>2, <2>4, LogStep
<1>3. ASSUME NEW row \in runs[r].log, Rule(r, row) PROVE ForkInv'
  <2> DEFINE m == [row EXCEPT !.ruled = TRUE]
             log == (runs[r].log \ {row}) \cup {m}
  <2>1. WithLog(r, log) /\ UNCHANGED fork /\ row.by = <<>> /\ row \in LogRows
    BY <1>1, <1>3 DEF Rule, LogOK
  <2>2. LogOK(log, r)
    BY <1>1, <2>1, RuledOK
  <2>3. m.id = row.id /\ m.by = row.by /\ m.born = row.born /\ m.ruled
    BY <2>1 DEF LogRows
  <2> HIDE DEF m
  <2>4. runs[r].whole => Keeps(runs[r].from, log)
    <3> SUFFICES ASSUME runs[r].whole, NEW old \in runs[r].from
                 PROVE  /\ \E kept \in log : kept.born = old.born /\ kept.id[1] = old.id[1]
                        /\ old.ruled =>
                             \E kept \in log : kept.id = old.id /\ kept.by = old.by /\ kept.ruled
      BY DEF Keeps
    <3>1. /\ \E kept \in runs[r].log : kept.born = old.born /\ kept.id[1] = old.id[1]
          /\ old.ruled => \E kept \in runs[r].log : kept.id = old.id /\ kept.by = old.by /\ kept.ruled
      BY <1>1 DEF RunOK, Keeps
    <3> QED BY <2>3, <3>1
  <2>5. runs[r].whole =>
          \A other \in log : Len(other.id) = 1 /\ PhaseOf[other.id[1]] \in runs[r].pending
                               => other.born = r \/ other.ruled
    BY <1>1, <2>3 DEF RunOK, RerunLands
  <2> HIDE DEF log
  <2> QED BY <2>1, <2>2, <2>4, <2>5, LogStep
<1> QED BY <1>2, <1>3

\* A request that begins, or ends, with no run changed.
LEMMA ForkAlone ==
  ASSUME ForkInv, NEW p \in Forkers, NEW f \in ForkRecords, ForkGoes(p, f), UNCHANGED runs,
         f.run = 0, f.step \in {"idle", "folder"},
         f.step # "idle" => f.src \in DOMAIN runs /\ f.targets \subseteq {n \in Phases : n >= f.at}
  PROVE  ForkInv'
<1>1. ForkTypes
  BY DEF ForkInv
<1>2. /\ fork' \in [Forkers -> ForkRecords]
      /\ fork'[p] = f /\ \A q \in Forkers : q # p => fork'[q] = fork[q]
  BY <1>1, PutFork
<1>3. ForkTypes' /\ OwnRun'
  BY <1>1, <1>2 DEF ForkInv, ForkTypes, OwnRun
<1>4. ForkOK(p)'
  BY <1>2 DEF ForkOK
<1>5. \A q \in Forkers : q # p => ForkOK(q)'
  BY <1>2, OtherFork DEF ForkInv
<1>6. \A r \in DOMAIN runs' : RunOK(r)'
  BY SameRun DEF ForkInv
<1> QED BY <1>3, <1>4, <1>5, <1>6 DEF ForkInv

\* A request begins about a run there is.
LEMMA StartInv == ASSUME ForkInv, NEW p \in Forkers, Start(p) PROVE ForkInv'
<1>0. PICK src \in DOMAIN runs, at \in Phases, all \in BOOLEAN, edit \in ForkEdits :
        \E targets \in {{n \in Phases : n >= at}, {at}} :
          ForkGoes(p, [NoFork EXCEPT !.step = "folder", !.src = src, !.at = at, !.all = all,
                                     !.targets = targets, !.edit = edit])
  BY DEF Start
<1>1. PICK targets \in {{n \in Phases : n >= at}, {at}} :
        ForkGoes(p, [NoFork EXCEPT !.step = "folder", !.src = src, !.at = at, !.all = all,
                                   !.targets = targets, !.edit = edit])
  BY <1>0
<1>2. src \in Nat /\ at \in Nat
  <2>1. DOMAIN runs = 1..Len(runs) /\ Len(runs) \in Nat
    BY LenProperties DEF ForkInv, ForkTypes
  <2> QED BY <2>1, RunForkAssumption, PhasesAreOrdinals
<1>3. targets \subseteq {n \in Phases : n >= at}
  BY <1>2
<1> DEFINE f == [NoFork EXCEPT !.step = "folder", !.src = src, !.at = at, !.all = all,
                               !.targets = targets, !.edit = edit]
<1>4. f \in ForkRecords /\ f.run = 0 /\ f.step = "folder" /\ f.src = src /\ f.targets = targets /\ f.at = at
  BY <1>2, <1>3, NoForkTyped DEF ForkRecords, ForkSteps
<1>5. UNCHANGED runs
  BY DEF Start
<1> HIDE DEF f
<1> QED BY <1>1, <1>3, <1>4, <1>5, ForkAlone DEF f

\* A fork that dies leaves its run as it is.
LEMMA DiesInv == ASSUME ForkInv, NEW p \in Forkers, Dies(p) PROVE ForkInv'
BY NoForkTyped, ForkAlone DEF Dies, ForkEnds

\* A new run comes after every other, and is nobody else's.
LEMMA CreateFolderInv == ASSUME ForkInv, NEW p \in Forkers, CreateFolder(p) PROVE ForkInv'
<1>0. PICK n : n = Len(runs) + 1
  OBVIOUS
<1> DEFINE rec == [pending |-> {}, log |-> {}, ready |-> FALSE, whole |-> FALSE, from |-> {}]
           f == [fork[p] EXCEPT !.step = "state", !.run = n]
<1>1. rec \in RunRecords /\ rec.log = {} /\ rec.whole = FALSE
  BY DEF RunRecords
<1>2. runs' = Append(runs, rec) /\ ForkGoes(p, f) /\ fork[p].step = "folder"
  BY <1>0 DEF CreateFolder, ForkAt
<1>3. ForkTypes /\ fork[p] \in ForkRecords /\ ForkOK(p)
  BY DEF ForkInv, ForkTypes
<1>4. runs \in Seq(RunRecords) /\ Len(runs) \in Nat /\ DOMAIN runs = 1..Len(runs)
  BY <1>3, LenProperties DEF ForkTypes
<1> HIDE DEF rec
<1>5. /\ runs' \in Seq(RunRecords) /\ Len(runs') = n /\ runs'[n] = rec
      /\ \A r \in DOMAIN runs : runs'[r] = runs[r]
  BY <1>0, <1>1, <1>2, <1>4, AppendProperties
<1>6. DOMAIN runs' = 1..n /\ DOMAIN runs' = DOMAIN runs \cup {n} /\ n \in Nat /\ n \notin DOMAIN runs
  BY <1>0, <1>4, <1>5, LenProperties
<1>7. /\ f \in ForkRecords /\ f.step = "state" /\ f.run = n /\ f.src = fork[p].src
      /\ f.targets = fork[p].targets /\ f.at = fork[p].at
  BY <1>3, <1>6 DEF ForkRecords, ForkSteps
<1> HIDE DEF f
<1>8. /\ fork' \in [Forkers -> ForkRecords]
      /\ fork'[p] = f /\ \A q \in Forkers : q # p => fork'[q] = fork[q]
  BY <1>2, <1>3, <1>7, PutFork
<1>9. \A q \in Forkers : fork[q].run # n
  <2> SUFFICES ASSUME NEW q \in Forkers PROVE fork[q].run # n
    OBVIOUS
  <2>1. fork[q] \in ForkRecords /\ ForkOK(q)
    BY <1>3 DEF ForkInv, ForkTypes
  <2>2. fork[q].run = 0 \/ fork[q].run \in DOMAIN runs
    BY <2>1 DEF ForkOK, ForkRecords, ForkSteps
  <2> QED BY <1>4, <1>6, <2>2
<1>10. ForkTypes' /\ OwnRun'
  BY <1>3, <1>5, <1>7, <1>8, <1>9 DEF ForkInv, ForkTypes, OwnRun
<1>11. ForkOK(p)'
  <2>1. f.src \in DOMAIN runs /\ f.targets \subseteq {m \in Phases : m >= f.at}
    BY <1>2, <1>3, <1>7 DEF ForkOK
  <2>2. f.src < n
    BY <1>0, <1>4, <2>1
  <2>3. fork'[p] = f /\ f.step = "state" /\ f.run = n /\ n \in DOMAIN runs' /\ ~runs'[n].whole
        /\ f.src \in DOMAIN runs'
    BY <1>1, <1>5, <1>6, <1>7, <1>8, <2>1
  <2> QED BY <2>1, <2>2, <2>3 DEF ForkOK
<1>12. \A q \in Forkers : q # p => ForkOK(q)'
  BY <1>5, <1>6, <1>8, OtherFork DEF ForkInv
<1>13. RunOK(n)'
  BY <1>1, <1>5 DEF RunOK, LogOK, Distinct, Leads
<1>14. \A r \in DOMAIN runs' : RunOK(r)'
  BY <1>5, <1>6, <1>13, SameRun DEF ForkInv
<1> QED BY <1>10, <1>11, <1>12, <1>14 DEF ForkInv

\* A request that moves on with the run it writes, and leaves it.
LEMMA ForkWrites ==
  ASSUME ForkInv, NEW p \in Forkers, fork[p].step \in {"state", "copy", "rewrite"},
         NEW f \in ForkRecords, ForkGoes(p, f), NEW rec \in RunRecords,
         NEW r, r = fork[p].run, runs' = [runs EXCEPT ![r] = rec], f.run \in {0, r},
         ForkOK(p)', RunOK(r)'
  PROVE  ForkInv'
<1>1. ForkTypes /\ ForkOK(p) /\ r \in DOMAIN runs
  BY DEF ForkInv, ForkOK
<1>2. /\ fork' \in [Forkers -> ForkRecords]
      /\ fork'[p] = f /\ \A q \in Forkers : q # p => fork'[q] = fork[q]
  BY <1>1, PutFork
<1>3. /\ runs' \in Seq(RunRecords) /\ DOMAIN runs' = DOMAIN runs
      /\ \A s \in DOMAIN runs : s # r => runs'[s] = runs[s]
  BY <1>1, PutRun
<1>4. r # 0
  <2>1. DOMAIN runs = 1..Len(runs)
    BY <1>1, LenProperties DEF ForkTypes
  <2> QED BY <1>1, <2>1
<1>5. ForkTypes' /\ OwnRun'
  BY <1>2, <1>3 DEF ForkInv, ForkTypes, OwnRun
<1>6. ASSUME NEW q \in Forkers, q # p PROVE ForkOK(q)'
  <2>1. fork[q].run # r
    BY <1>4, <1>6 DEF ForkInv, OwnRun
  <2>2. fork'[q] = fork[q] /\ ForkOK(q)
    BY <1>2, <1>6 DEF ForkInv
  <2> QED BY <1>3, <2>1, <2>2, OtherFork
<1>7. ASSUME NEW s \in DOMAIN runs' PROVE RunOK(s)'
  <2>1. CASE s = r
    BY <2>1
  <2>2. CASE s # r
    BY <1>3, <1>7, <2>2, SameRun DEF ForkInv
  <2> QED BY <2>1, <2>2
<1> QED BY <1>5, <1>6, <1>7 DEF ForkInv

\* The state of a fork says which phases run again.
LEMMA WriteStateInv == ASSUME ForkInv, NEW p \in Forkers, WriteState(p) PROVE ForkInv'
<1>0. PICK r : r = fork[p].run
  OBVIOUS
<1> DEFINE rec == [runs[r] EXCEPT !.ready = TRUE, !.pending = fork[p].targets]
           f == [fork[p] EXCEPT !.step = "copy"]
<1>1. ForkTypes /\ fork[p] \in ForkRecords /\ ForkOK(p) /\ fork[p].step = "state"
  BY <1>0 DEF ForkInv, ForkTypes, WriteState, ForkAt
<1>2. r \in DOMAIN runs /\ runs[r] \in RunRecords /\ ~runs[r].whole /\ RunOK(r)
  BY <1>0, <1>1 DEF ForkInv, ForkOK, ForkTypes
<1>3. /\ rec \in RunRecords /\ rec.log = runs[r].log /\ rec.whole = runs[r].whole
      /\ rec.pending = fork[p].targets
  BY <1>0, <1>1, <1>2 DEF RunRecords, ForkRecords
<1>4. /\ f \in ForkRecords /\ f.step = "copy" /\ f.run = r /\ f.src = fork[p].src
      /\ f.targets = fork[p].targets /\ f.at = fork[p].at
  BY <1>0, <1>1 DEF ForkRecords, ForkSteps
<1>5. ForkGoes(p, f) /\ runs' = [runs EXCEPT ![r] = rec]
  <2>1. runs' = [runs EXCEPT ![r].ready = TRUE, ![r].pending = fork[p].targets]
    BY <1>0 DEF WriteState
  <2>2. runs' = [runs EXCEPT ![r] = rec]
    BY <1>0, <1>1, <1>2, <2>1 DEF ForkTypes
  <2> QED BY <1>0, <2>2 DEF WriteState
<1> HIDE DEF rec, f
<1>6. /\ fork'[p] = f /\ DOMAIN runs' = DOMAIN runs /\ runs'[r] = rec
  BY <1>0, <1>1, <1>2, <1>3, <1>4, <1>5, PutFork, PutRun
<1>7. ForkOK(p)'
  BY <1>0, <1>1, <1>2, <1>3, <1>4, <1>6 DEF ForkOK
<1>8. RunOK(r)'
  BY <1>0, <1>2, <1>3, <1>6 DEF RunOK
<1> QED BY <1>1, <1>3, <1>4, <1>5, <1>7, <1>8, <1>0, ForkWrites

\* The copy of a log is one, and the retirements in it are older than the fork.
LEMMA CopyLogInv == ASSUME ForkInv, NEW p \in Forkers, CopyLog(p) PROVE ForkInv'
<1>0. PICK r : r = fork[p].run
  OBVIOUS
<1> DEFINE body == runs[fork[p].src].log
           rec == [runs[r] EXCEPT !.log = body]
           f == [fork[p] EXCEPT !.step = "rewrite", !.body = body]
<1>1. ForkTypes /\ fork[p] \in ForkRecords /\ ForkOK(p) /\ fork[p].step = "copy"
  BY <1>0 DEF ForkInv, ForkTypes, CopyLog, ForkAt
<1>2. /\ r \in DOMAIN runs /\ runs[r] \in RunRecords /\ ~runs[r].whole /\ RunOK(r)
      /\ fork[p].src \in DOMAIN runs /\ fork[p].src < r /\ fork[p].src \in Nat /\ r \in Nat
  BY <1>0, <1>1 DEF ForkInv, ForkOK, ForkTypes, ForkRecords
<1>3. LogOK(body, fork[p].src) /\ LogOK(body, r) /\ body \subseteq LogRows
  <2>1. LogOK(body, fork[p].src)
    BY <1>0, <1>2 DEF ForkInv, RunOK
  <2>2. fork[p].src <= r
    BY <1>2
  <2>3. LogOK(body, r)
    BY <1>2, <2>1, <2>2, LogLater
  <2> QED BY <1>0, <2>1, <2>3 DEF LogOK
<1> HIDE DEF body
<1>4. /\ rec \in RunRecords /\ rec.log = body /\ rec.whole = runs[r].whole
      /\ rec.pending = runs[r].pending
  BY <1>0, <1>2, <1>3 DEF RunRecords
<1>5. /\ f \in ForkRecords /\ f.step = "rewrite" /\ f.run = r /\ f.src = fork[p].src
      /\ f.targets = fork[p].targets /\ f.at = fork[p].at /\ f.body = body
  BY <1>0, <1>1, <1>3 DEF ForkRecords, ForkSteps
<1>6. ForkGoes(p, f) /\ runs' = [runs EXCEPT ![r] = rec]
  BY <1>0 DEF CopyLog, WithLog, body
<1> HIDE DEF rec, f
<1>7. /\ fork'[p] = f /\ DOMAIN runs' = DOMAIN runs /\ runs'[r] = rec
  BY <1>0, <1>1, <1>2, <1>4, <1>5, <1>6, PutFork, PutRun
<1>8. ForkOK(p)'
  BY <1>0, <1>1, <1>2, <1>3, <1>4, <1>5, <1>7 DEF ForkOK
<1>9. RunOK(r)'
  BY <1>0, <1>2, <1>3, <1>4, <1>7 DEF RunOK
<1> QED BY <1>1, <1>4, <1>5, <1>6, <1>8, <1>9, <1>0, ForkWrites

\* The rewritten log keeps what was copied and edited.
LEMMA RewriteLogInv == ASSUME ForkInv, NEW p \in Forkers, RewriteLog(p) PROVE ForkInv'
<1>0. PICK r : r = fork[p].run
  OBVIOUS
<1> DEFINE n == fork[p].src
           rows == Edited(fork[p].body, fork[p].edit)
           new == Retired(rows, {row \in rows : ~StaysLive(row, fork[p].at, fork[p].all)}, n)
           rec == [runs[r] EXCEPT !.log = new, !.whole = TRUE, !.from = rows]
<1>1. ForkTypes /\ fork[p] \in ForkRecords /\ ForkOK(p) /\ fork[p].step = "rewrite"
  BY <1>0 DEF ForkInv, ForkTypes, RewriteLog, ForkAt
<1>2. /\ r \in DOMAIN runs /\ runs[r] \in RunRecords
      /\ n < r /\ n \in Nat /\ r \in Nat
      /\ fork[p].at \in Nat /\ fork[p].all \in BOOLEAN /\ fork[p].edit \in ForkEdits
      /\ runs[r].pending \subseteq {m \in Phases : m >= fork[p].at}
  BY <1>0, <1>1 DEF ForkInv, ForkOK, ForkTypes, ForkRecords
<1>3. LogOK(rows, n)
  BY <1>0, <1>1, <1>2, EditedOK DEF ForkOK
<1>4. /\ LogOK(new, n + 1) /\ Keeps(rows, new)
      /\ \A row \in new : Len(row.id) = 1 => row.ruled \/ PhaseOf[row.id[1]] < fork[p].at
  <2> HIDE DEF rows, n
  <2> QED BY <1>2, <1>3, RetiredOK, RetiredKeeps, RetiredFrees
<1>5. runs' = [runs EXCEPT ![r].log = new, ![r].whole = TRUE, ![r].from = rows]
  BY <1>0 DEF RewriteLog, Rewritten
<1> HIDE DEF rows, new
<1>6. LogOK(new, r) /\ new \subseteq LogRows /\ rows \subseteq LogRows
  <2>1. n + 1 <= r
    BY <1>2
  <2>2. LogOK(new, r)
    BY <1>2, <1>4, <2>1, LogLater
  <2> QED BY <1>0, <1>3, <2>2 DEF LogOK
<1>7. /\ rec \in RunRecords /\ rec.log = new /\ rec.whole = TRUE /\ rec.from = rows
      /\ rec.pending = runs[r].pending
  BY <1>0, <1>2, <1>6 DEF RunRecords
<1>8. runs' = [runs EXCEPT ![r] = rec]
  BY <1>0, <1>1, <1>2, <1>5 DEF ForkTypes
<1> HIDE DEF rec
<1>9. ForkGoes(p, NoFork)
  BY <1>0 DEF RewriteLog, ForkEnds
<1>10. fork'[p] = NoFork /\ DOMAIN runs' = DOMAIN runs /\ runs'[r] = rec
  BY <1>1, <1>2, <1>7, <1>8, <1>9, NoForkTyped, PutFork, PutRun
<1>11. ForkOK(p)'
  BY <1>0, <1>10, NoForkTyped DEF ForkOK
<1>12. RunOK(r)'
  <2>1. ASSUME NEW row \in new, Len(row.id) = 1, PhaseOf[row.id[1]] \in runs[r].pending
        PROVE  row.ruled
    <3>1. PhaseOf[row.id[1]] >= fork[p].at /\ PhaseOf[row.id[1]] \in Nat
      BY <1>2, <2>1, RunForkAssumption, PhasesAreOrdinals
    <3>2. row.ruled \/ PhaseOf[row.id[1]] < fork[p].at
      BY <1>4, <2>1
    <3> QED BY <1>2, <3>1, <3>2
  <2> QED BY <1>0, <1>4, <1>6, <1>7, <1>10, <2>1 DEF RunOK, RerunLands
<1> QED BY <1>1, <1>7, <1>8, <1>9, <1>11, <1>12, NoForkTyped, <1>0, ForkWrites

\* Every step keeps what is held of requests and runs.
LEMMA ForkStepInv == ForkInv /\ [ForkNext]_forkVars => ForkInv'
<1> SUFFICES ASSUME ForkInv, [ForkNext]_forkVars PROVE ForkInv'
  OBVIOUS
<1>1. CASE UNCHANGED forkVars
  BY <1>1 DEF forkVars, ForkInv, ForkTypes, OwnRun, ForkOK, RunOK, RerunLands
<1>2. CASE ForkNext
  BY <1>2, RunMoves, StartInv, CreateFolderInv, WriteStateInv, CopyLogInv, RewriteLogInv, DiesInv DEF ForkNext
<1> QED BY <1>1, <1>2

\* However often runs are forked, edited, ruled on and run again, and whatever
\* else is being forked, the log of a run whose fork ended well keeps what the
\* fork found, frees the ids of what runs again, and leads from row to row.
THEOREM RecordsAreKept == ForkSpec => []ForksKeepTheRecord
<1>1. ForkInv => ForksKeepTheRecord
  <2> SUFFICES ASSUME ForkInv, NEW r \in DOMAIN runs, runs[r].whole
               PROVE  KeepsRows(r) /\ RerunLands(r) /\ LinesHold(r)
    BY DEF ForksKeepTheRecord
  <2>1. RunOK(r)
    BY DEF ForkInv
  <2>2. LinesHold(r)
    <3> SUFFICES ASSUME NEW row \in runs[r].log
                 PROVE  /\ \A other \in runs[r].log : other.id = row.id => other = row
                        /\ row.by = <<>> => Len(row.id) = 1
                        /\ row.by # <<>> => Len(row.by) = 1 \/ \E other \in runs[r].log : other.id = row.by
      BY DEF LinesHold
    <3>1. RowOK(row, r) /\ row \in LogRows /\ Distinct(runs[r].log) /\ Leads(runs[r].log)
      BY <2>1 DEF RunOK, LogOK
    <3>2. row.by # <<>> => Len(row.by) = 1 \/ Len(row.by) > 1
      <4>1. row.by \in Ids
        BY <3>1 DEF LogRows
      <4>2. row.by # <<>> => Len(row.by) \in Nat \ {0}
        BY <4>1, EmptySeq DEF Ids
      <4>3. \A k \in Nat \ {0} : k = 1 \/ k > 1
        OBVIOUS
      <4> QED BY <4>2, <4>3
    <3> QED BY <3>1, <3>2 DEF RowOK, Distinct, Leads
  <2> QED BY <2>1, <2>2 DEF RunOK, Keeps, KeepsRows
<1> QED BY <1>1, ForkInitInv, ForkStepInv, PTL DEF ForkSpec

-----------------------------------------------------------------------------
(* RunPhases: what folders and fork requests are.                          *)

\* What run folders and fork requests are.
Folders == [status : [Phases -> Statuses], steps : [Skills -> Statuses \cup {"absent"}],
            products : [Keys -> Nat], files : [Skills -> Nat],
            ready : BOOLEAN, whole : BOOLEAN, sound : BOOLEAN]
Forkings == [step : {"idle", "state", "list", "copy"}, src : Nat, at : Nat, skill : Nat,
             targets : SUBSET Phases, run : Nat, todo : SUBSET Phases]

\* A run_state.yaml: a phase is done when its steps are; in a sound one, what
\* was written by what is done is there, and what is attributed is by what is.
Coherent(run) ==
  /\ \A s \in Skills : run.status[SkillPhase[s]] = "done" => run.steps[s] = "done"
  /\ \A k \in Keys : /\ run.sound /\ WriterDone(run, k) => run.products[k] # 0
                     /\ k \in Mapped /\ run.products[k] # 0 => WriterDone(run, k)

\* What is done has its artifact.
Stocked(run) ==
  run.whole /\ run.sound => \A s \in Skills : run.steps[s] = "done" => run.files[s] # 0

-----------------------------------------------------------------------------
(* What a run does to its own folder.                                      *)

\* A state in which what was done still is.
LEMMA GoesOn ==
  ASSUME NEW run \in Folders, Coherent(run), Stocked(run), NEW new \in Folders,
         new.sound = run.sound, new.whole = run.whole,
         \A s \in Skills : /\ run.steps[s] = "done" => new.steps[s] = "done"
                           /\ new.steps[s] = "done" => run.steps[s] = "done" \/ new.files[s] # 0
                           /\ run.files[s] # 0 => new.files[s] # 0
                           /\ new.status[SkillPhase[s]] = "done" => new.steps[s] = "done",
         \A h \in Phases : run.status[h] = "done" => new.status[h] = "done",
         \A k \in Keys : \/ WriterDone(new, k) /\ new.products[k] # 0
                         \/ new.products[k] = run.products[k] /\ (WriterDone(new, k) => WriterDone(run, k))
  PROVE  Coherent(new) /\ Stocked(new)
<1>1. Stocked(new)
  BY DEF Stocked
<1>2. ASSUME NEW k \in Keys, WriterDone(run, k) PROVE WriterDone(new, k)
  <2>1. KeyPhase[k] \in Phases /\ (WriterOf[k] = Agent \/ WriterOf[k] \in Skills)
    BY RunPhasesAssumption
  <2> QED BY <1>2, <2>1 DEF WriterDone
<1> QED BY <1>1, <1>2 DEF Coherent

\* The folder after an artifact, a step, an end of a phase, a break.
LEMMA MadeOK ==
  ASSUME NEW run \in Folders, Coherent(run), Stocked(run), NEW s \in Skills, NEW r \in Nat \ {0},
         NEW new, new = [run EXCEPT !.files[s] = r]
  PROVE  /\ new \in Folders /\ Coherent(new) /\ Stocked(new) /\ new.whole = run.whole
         /\ \A t \in Skills : run.files[t] # 0 => new.files[t] # 0
<1>1. new = [run EXCEPT !.files = [run.files EXCEPT ![s] = r]]
  BY DEF Folders
<1>2. /\ new \in Folders /\ new.status = run.status /\ new.steps = run.steps
      /\ new.products = run.products /\ new.whole = run.whole /\ new.sound = run.sound
      /\ new.files = [run.files EXCEPT ![s] = r]
  BY <1>1 DEF Folders
<1>3. run.files \in [Skills -> Nat]
  BY DEF Folders
<1>4. \A t \in Skills : run.files[t] # 0 => new.files[t] # 0
  BY <1>2, <1>3
<1>5. \A k \in Keys : WriterDone(new, k) <=> WriterDone(run, k)
  BY <1>2 DEF WriterDone
<1> QED BY <1>2, <1>4, <1>5 DEF Coherent, Stocked

\* The folder once a step is recorded, and once its phase's agent has written back.
Recorded(run, s, r) ==
  [run EXCEPT !.steps[s] = "done", !.products = Writes(@, s, SkillPhase[s], r)]
Closed(run, h, halts, r) ==
  [run EXCEPT !.status = [g \in Phases |-> IF g = h THEN "done"
                                           ELSE IF halts /\ @[g] = "pending" THEN "skipped"
                                           ELSE @[g]],
              !.products = Writes(@, Agent, h, r)]

\* A step that is recorded has its artifact, and writes its products.
LEMMA RecordedOK ==
  ASSUME NEW run \in Folders, Coherent(run), Stocked(run), NEW s \in Skills, NEW r \in Nat \ {0},
         run.files[s] = r,
         NEW new, new = Recorded(run, s, r)
  PROVE  /\ new \in Folders /\ Coherent(new) /\ Stocked(new) /\ new.whole = run.whole
         /\ new.files = run.files
<1> DEFINE products == Writes(run.products, s, SkillPhase[s], r)
<1>1. products \in [Keys -> Nat]
  BY DEF Writes, Folders
<1>2. new = [run EXCEPT !.steps = [run.steps EXCEPT ![s] = "done"], !.products = products]
  BY DEF Folders, Recorded
<1>3. \A k \in Keys : IF WriterOf[k] = s THEN products[k] = r ELSE products[k] = run.products[k]
  BY RunPhasesAssumption DEF Writes
<1> HIDE DEF products
<1>4. /\ new \in Folders /\ new.status = run.status /\ new.products = products
      /\ new.steps = [run.steps EXCEPT ![s] = "done"]
      /\ new.whole = run.whole /\ new.sound = run.sound /\ new.files = run.files
  BY <1>1, <1>2 DEF Folders, Statuses
<1>5. run.steps \in [Skills -> Statuses \cup {"absent"}]
  BY DEF Folders
<1>6. \A t \in Skills : new.steps[t] = IF t = s THEN "done" ELSE run.steps[t]
  BY <1>4, <1>5
<1>7. ASSUME NEW k \in Keys
      PROVE  \/ WriterDone(new, k) /\ new.products[k] # 0
             \/ new.products[k] = run.products[k] /\ (WriterDone(new, k) => WriterDone(run, k))
  <2>1. Agent # s /\ (WriterOf[k] = Agent \/ WriterOf[k] \in Skills)
    BY RunPhasesAssumption
  <2> QED BY <1>3, <1>4, <1>6, <2>1 DEF WriterDone
<1>8. Coherent(new) /\ Stocked(new)
  <2>1. \A t \in Skills : /\ run.steps[t] = "done" => new.steps[t] = "done"
                          /\ new.steps[t] = "done" => run.steps[t] = "done" \/ new.files[t] # 0
                          /\ run.files[t] # 0 => new.files[t] # 0
                          /\ new.status[SkillPhase[t]] = "done" => new.steps[t] = "done"
    BY <1>4, <1>6 DEF Coherent
  <2> QED BY <1>4, <1>7, <2>1, GoesOn
<1> QED BY <1>4, <1>8

\* A phase that is closed has done its steps; one that is skipped claims nothing.
LEMMA ClosedOK ==
  ASSUME NEW run \in Folders, Coherent(run), Stocked(run), NEW h \in Phases, NEW r \in Nat \ {0},
         NEW halts \in BOOLEAN, \A s \in Skills : SkillPhase[s] = h => run.steps[s] = "done",
         NEW new, new = Closed(run, h, halts, r)
  PROVE  /\ new \in Folders /\ Coherent(new) /\ Stocked(new) /\ new.whole = run.whole
         /\ new.files = run.files
<1> DEFINE products == Writes(run.products, Agent, h, r)
           status == [g \in Phases |-> IF g = h THEN "done"
                                       ELSE IF halts /\ run.status[g] = "pending" THEN "skipped"
                                       ELSE run.status[g]]
<1>1. products \in [Keys -> Nat] /\ status \in [Phases -> Statuses]
  BY DEF Writes, Folders, Statuses
<1>2. new = [run EXCEPT !.status = status, !.products = products]
  BY DEF Closed
<1>3. \A k \in Keys : IF WriterOf[k] = Agent /\ KeyPhase[k] = h THEN products[k] = r
                                                                ELSE products[k] = run.products[k]
  BY DEF Writes
<1>4. \A g \in Phases : status[g] = "done" <=> g = h \/ run.status[g] = "done"
  OBVIOUS
<1> HIDE DEF products, status
<1>5. /\ new \in Folders /\ new.status = status /\ new.products = products /\ new.steps = run.steps
      /\ new.whole = run.whole /\ new.sound = run.sound /\ new.files = run.files
  BY <1>1, <1>2 DEF Folders
<1>6. ASSUME NEW k \in Keys
      PROVE  \/ WriterDone(new, k) /\ new.products[k] # 0
             \/ new.products[k] = run.products[k] /\ (WriterDone(new, k) => WriterDone(run, k))
  <2>1. KeyPhase[k] \in Phases
    BY RunPhasesAssumption
  <2> QED BY <1>3, <1>4, <1>5, <2>1 DEF WriterDone
<1>7. \A t \in Skills : new.status[SkillPhase[t]] = "done" => new.steps[t] = "done"
  BY <1>4, <1>5, RunPhasesAssumption DEF Coherent
<1> QED BY <1>4, <1>5, <1>6, <1>7, GoesOn

\* A phase in error claims nothing.
LEMMA BrokenOK ==
  ASSUME NEW run \in Folders, Coherent(run), Stocked(run), NEW h \in Phases, run.status[h] # "done",
         NEW new, new = [run EXCEPT !.status[h] = "error"]
  PROVE  /\ new \in Folders /\ Coherent(new) /\ Stocked(new) /\ new.whole = run.whole
         /\ new.files = run.files
<1> DEFINE status == [run.status EXCEPT ![h] = "error"]
<1>1. run.status \in [Phases -> Statuses] /\ status \in [Phases -> Statuses]
  BY DEF Folders, Statuses
<1>2. new = [run EXCEPT !.status = status]
  BY DEF Folders
<1>3. \A g \in Phases : status[g] = "done" <=> run.status[g] = "done"
  BY <1>1
<1> HIDE DEF status
<1>4. /\ new \in Folders /\ new.status = status /\ new.products = run.products /\ new.steps = run.steps
      /\ new.whole = run.whole /\ new.sound = run.sound /\ new.files = run.files
  BY <1>1, <1>2 DEF Folders
<1>5. \A k \in Keys : WriterDone(new, k) <=> WriterDone(run, k)
  BY <1>3, <1>4, RunPhasesAssumption DEF WriterDone
<1>6. \A s \in Skills : new.status[SkillPhase[s]] = "done" => new.steps[s] = "done"
  BY <1>3, <1>4, RunPhasesAssumption DEF Coherent
<1> QED BY <1>4, <1>5, <1>6 DEF Coherent, Stocked

-----------------------------------------------------------------------------
(* What a fork writes.                                                     *)

\* The phases and skills a fork keeps.
Kept(f, s) == SkillPhase[s] < f.at \/ (SkillFork(f, SkillPhase[s]) /\ Below(f, s))

\* A folder that has just been created claims nothing.
LEMMA NoRunOK == NoRun \in Folders /\ Coherent(NoRun) /\ ~NoRun.sound /\ ~NoRun.whole
<1>1. NoRun \in Folders /\ ~NoRun.sound /\ ~NoRun.whole
  BY DEF NoRun, Folders, Statuses
<1>2. \A k \in Keys : NoRun.products[k] = 0
  BY DEF NoRun
<1>3. \A s \in Skills : NoRun.status[SkillPhase[s]] = "pending"
  BY RunPhasesAssumption DEF NoRun
<1> QED BY <1>1, <1>2, <1>3 DEF Coherent

\* A phase or a step reads as done in a fork if it is kept, and was.
LEMMA StepDone ==
  ASSUME NEW f \in Forkings, NEW src \in Folders, NEW s \in Skills
  PROVE  StepStatus(f, src, s) = "done" <=>
           \/ SkillPhase[s] < f.at
           \/ Kept(f, s) /\ src.steps[s] = "done"
<1>1. SkillPhase[s] \in Nat /\ f.at \in Nat
  BY RunPhasesAssumption, PhasesAreOrdinals DEF Forkings
<1> QED BY <1>1 DEF StepStatus, Kept, SkillFork, Reset, Carried, Below

\* The phases before the fork point are done, and no others.
LEMMA PhaseDone ==
  ASSUME NEW f \in Forkings, NEW src \in Folders, NEW h \in Phases
  PROVE  PhaseStatus(f, src, h) = "done" <=> h < f.at
<1>1. h \in Nat /\ f.at \in Nat
  BY PhasesAreOrdinals DEF Forkings
<1> QED BY <1>1 DEF PhaseStatus, SkillFork, Reset

\* What a fork writes has its type, and does the phases before the fork point.
LEMMA StateIs ==
  ASSUME NEW f \in Forkings, NEW src \in Folders
  PROVE  /\ StateOf(f, src) \in Folders /\ ~StateOf(f, src).whole
         /\ \A h \in Phases : StateOf(f, src).status[h] = "done" <=> h < f.at
         /\ \A s \in Skills : StateOf(f, src).steps[s] = "done" <=>
              SkillPhase[s] < f.at \/ (Kept(f, s) /\ src.steps[s] = "done")
         /\ \A k \in Keys : StateOf(f, src).products[k] =
              IF KeepsProduct(f, src, k) THEN src.products[k] ELSE 0
         /\ StateOf(f, src).sound <=>
              src.whole /\ src.sound /\ \A h \in Phases : h < f.at => src.status[h] = "done"
<1> DEFINE status == [h \in Phases |-> PhaseStatus(f, src, h)]
           steps == [s \in Skills |-> StepStatus(f, src, s)]
           products == [k \in Keys |-> IF KeepsProduct(f, src, k) THEN src.products[k] ELSE 0]
           sound == src.whole /\ src.sound /\ \A h \in Phases : h < f.at => src.status[h] = "done"
<1>1. StateOf(f, src) = [NoRun EXCEPT !.status = status, !.steps = steps, !.products = products,
                                      !.ready = TRUE, !.sound = sound]
  BY DEF StateOf
<1>2. status \in [Phases -> Statuses]
  BY DEF PhaseStatus, Reset, Statuses
<1>3. steps \in [Skills -> Statuses \cup {"absent"}]
  <2>1. \A s \in Skills : src.steps[s] \in Statuses \cup {"absent"}
    BY DEF Folders
  <2>2. \A s \in Skills : StepStatus(f, src, s) \in Statuses \cup {"absent"}
    BY <2>1 DEF StepStatus, Reset, Statuses
  <2> QED BY <2>2
<1>4. products \in [Keys -> Nat]
  BY DEF Folders
<1>5. sound \in BOOLEAN
  BY DEF Folders
<1>6. /\ \A h \in Phases : status[h] = "done" <=> h < f.at
      /\ \A s \in Skills : steps[s] = "done" <=>
           SkillPhase[s] < f.at \/ (Kept(f, s) /\ src.steps[s] = "done")
      /\ \A k \in Keys : products[k] = IF KeepsProduct(f, src, k) THEN src.products[k] ELSE 0
  <2>1. \A h \in Phases : status[h] = "done" <=> h < f.at
    BY PhaseDone
  <2>2. ASSUME NEW s \in Skills
        PROVE  steps[s] = "done" <=> SkillPhase[s] < f.at \/ (Kept(f, s) /\ src.steps[s] = "done")
    <3>1. steps[s] = StepStatus(f, src, s)
      OBVIOUS
    <3> HIDE DEF steps
    <3> QED BY <3>1, StepDone
  <2>3. \A k \in Keys : products[k] = IF KeepsProduct(f, src, k) THEN src.products[k] ELSE 0
    OBVIOUS
  <2> HIDE DEF status, steps, products
  <2> QED BY <2>1, <2>2, <2>3
<1> HIDE DEF status, steps, products
<1>7. /\ StateOf(f, src) \in Folders /\ ~StateOf(f, src).whole
      /\ StateOf(f, src).status = status /\ StateOf(f, src).steps = steps
      /\ StateOf(f, src).products = products /\ StateOf(f, src).sound = sound
  <2> HIDE DEF sound
  <2>1. NoRun \in Folders /\ NoRun.whole = FALSE
    BY NoRunOK DEF NoRun
  <2>2. TRUE \in BOOLEAN
    OBVIOUS
  <2> QED BY <1>1, <1>2, <1>3, <1>4, <1>5, <2>1 DEF Folders
<1> QED BY <1>6, <1>7

\* A fork of a coherent state is one; a sound one claims what its source has.
LEMMA StateCoherent ==
  ASSUME NEW f \in Forkings, NEW src \in Folders, Coherent(src)
  PROVE  /\ Coherent(StateOf(f, src))
         /\ StateOf(f, src).sound =>
              /\ src.whole /\ src.sound
              /\ \A s \in Skills : StateOf(f, src).steps[s] = "done" => Kept(f, s) /\ src.steps[s] = "done"
<1> DEFINE new == StateOf(f, src)
<1>1. /\ \A h \in Phases : new.status[h] = "done" <=> h < f.at
      /\ \A s \in Skills : new.steps[s] = "done" <=>
              SkillPhase[s] < f.at \/ (Kept(f, s) /\ src.steps[s] = "done")
      /\ \A k \in Keys : new.products[k] =
              IF KeepsProduct(f, src, k) THEN src.products[k] ELSE 0
      /\ new.sound <=> src.whole /\ src.sound /\ \A h \in Phases : h < f.at => src.status[h] = "done"
  BY StateIs
<1> HIDE DEF new
<1>2. /\ f.at \in Nat
      /\ \A s \in Skills : SkillPhase[s] \in Phases /\ SkillPhase[s] \in Nat
      /\ \A k \in Keys : KeyPhase[k] \in Phases /\ KeyPhase[k] \in Nat
      /\ \A k \in Keys : WriterOf[k] # Agent => WriterOf[k] \in Skills /\ SkillPhase[WriterOf[k]] = KeyPhase[k]
  <2>1. f.at \in Nat
    BY DEF Forkings
  <2>2. \A s \in Skills : SkillPhase[s] \in Phases
    BY RunPhasesAssumption
  <2>3. \A k \in Keys : KeyPhase[k] \in Phases
    BY RunPhasesAssumption
  <2>4. \A k \in Keys : WriterOf[k] # Agent => WriterOf[k] \in Skills /\ SkillPhase[WriterOf[k]] = KeyPhase[k]
    BY RunPhasesAssumption
  <2> QED BY <2>1, <2>2, <2>3, <2>4, PhasesAreOrdinals
<1>3. \A s \in Skills : new.status[SkillPhase[s]] = "done" => new.steps[s] = "done"
  BY <1>1, <1>2
<1>4. new.sound => /\ src.whole /\ src.sound
                   /\ \A s \in Skills : new.steps[s] = "done" => Kept(f, s) /\ src.steps[s] = "done"
  BY <1>1, <1>2 DEF Kept, Coherent
<1>5. ASSUME NEW k \in Keys, new.sound, WriterDone(new, k) PROVE new.products[k] # 0
  <2>1. WriterDone(src, k) /\ KeepsProduct(f, src, k)
    <3>1. CASE WriterOf[k] = Agent
      <4>1. KeyPhase[k] < f.at
        BY <1>1, <1>2, <1>5, <3>1 DEF WriterDone
      <4> QED BY <1>1, <1>2, <1>5, <3>1, <4>1 DEF WriterDone, KeepsProduct
    <3>2. CASE WriterOf[k] # Agent
      <4> DEFINE s == WriterOf[k]
      <4>1. s \in Skills /\ SkillPhase[s] = KeyPhase[k] /\ new.steps[s] = "done"
        BY <1>2, <1>5, <3>2 DEF WriterDone
      <4>2. Kept(f, s) /\ src.steps[s] = "done"
        BY <1>4, <1>5, <4>1
      <4>3. CASE KeyPhase[k] < f.at
        BY <3>2, <4>2, <4>3 DEF WriterDone, KeepsProduct
      <4>4. CASE ~(KeyPhase[k] < f.at)
        <5>1. SkillFork(f, KeyPhase[k]) /\ Below(f, s) /\ KeyPhase[k] = f.at
          BY <4>1, <4>2, <4>4 DEF Kept, SkillFork
        <5>2. s \in Carried(f, src)
          BY <4>1, <4>2, <5>1 DEF Carried
        <5> QED BY <3>2, <4>2, <5>1, <5>2 DEF WriterDone, KeepsProduct, KeepsByAttribution
      <4> QED BY <4>3, <4>4
    <3> QED BY <3>1, <3>2
  <2>2. src.sound
    BY <1>4, <1>5
  <2> QED BY <1>1, <2>1, <2>2 DEF Coherent
<1>6. ASSUME NEW k \in Keys, k \in Mapped, new.products[k] # 0 PROVE WriterDone(new, k)
  <2>1. KeepsProduct(f, src, k) /\ src.products[k] # 0
    BY <1>1, <1>6
  <2>2. WriterDone(src, k)
    BY <1>6, <2>1 DEF Coherent
  <2>3. CASE KeyPhase[k] < f.at
    BY <1>1, <1>2, <2>3 DEF WriterDone
  <2>4. CASE ~(KeyPhase[k] < f.at)
    <3>1. SkillFork(f, KeyPhase[k]) /\ KeyPhase[k] = f.at
      BY <2>1, <2>4 DEF KeepsProduct, SkillFork
    <3>2. WriterOf[k] # Agent /\ Below(f, WriterOf[k])
      BY <1>6, <2>1, <2>4, <3>1 DEF KeepsProduct, KeepsByAttribution
    <3>3. WriterOf[k] \in Skills /\ SkillPhase[WriterOf[k]] = KeyPhase[k]
      BY <1>2, <3>2
    <3>4. src.steps[WriterOf[k]] = "done"
      BY <2>2, <3>2 DEF WriterDone
    <3> QED BY <1>1, <3>1, <3>2, <3>3, <3>4 DEF WriterDone, Kept
  <2> QED BY <2>3, <2>4
<1>7. Coherent(new)
  BY <1>3, <1>5, <1>6 DEF Coherent
<1> QED BY <1>4, <1>7 DEF new

-----------------------------------------------------------------------------
(* The folders, while they are forked.                                     *)

\* Folders and requests have their types.
PhasesTyped == folders \in Seq(Folders) /\ forking \in [Forkers -> Forkings]

\* A folder's state is coherent, and what it claims is there.
FolderOK(r) == Coherent(folders[r]) /\ Stocked(folders[r])

\* What a sound fork claims, its whole source has, and it is copied or is going
\* to be.
Claims(p) ==
  LET f == forking[p] IN
    folders[f.run].sound =>
      /\ folders[f.src].whole
      /\ \A s \in Skills : folders[f.run].steps[s] = "done" =>
           /\ Kept(f, s) /\ folders[f.src].files[s] # 0
           /\ f.step = "copy" => SkillPhase[s] \in f.todo \/ folders[f.run].files[s] # 0

\* A request fills a folder of its own, not its source's, nor a whole one.
ForkingOK(p) ==
  /\ forking[p].step = "idle" => forking[p].run = 0
  /\ forking[p].step # "idle" =>
       /\ forking[p].src \in DOMAIN folders /\ forking[p].run \in DOMAIN folders
       /\ forking[p].src # forking[p].run /\ ~folders[forking[p].run].whole
  /\ forking[p].step \in {"list", "copy"} => Claims(p)

\* No two requests fill one folder.
OwnFolder == \A p, q \in Forkers : forking[p].run = forking[q].run => p = q \/ forking[p].run = 0

\* What the steps of runs and of forks keep.
PhasesInv ==
  /\ PhasesTyped /\ OwnFolder
  /\ \A r \in DOMAIN folders : FolderOK(r)
  /\ \A p \in Forkers : ForkingOK(p)

\* Run folders have numbers.
LEMMA FolderNumbers ==
  ASSUME PhasesTyped
  PROVE  /\ Len(folders) \in Nat /\ DOMAIN folders = 1..Len(folders)
         /\ \A r \in DOMAIN folders : r \in Nat \ {0} /\ folders[r] \in Folders
<1>1. Len(folders) \in Nat /\ DOMAIN folders = 1..Len(folders)
  BY LenProperties DEF PhasesTyped
<1>2. \A r \in DOMAIN folders : folders[r] \in Folders
  BY <1>1, ElementOfSeq DEF PhasesTyped
<1> QED BY <1>1, <1>2

\* A folder that is changed, the others as they were.
LEMMA PutFolder ==
  ASSUME PhasesTyped, NEW r \in DOMAIN folders, NEW new \in Folders, Put(r, new)
  PROVE  /\ folders' \in Seq(Folders) /\ DOMAIN folders' = DOMAIN folders
         /\ folders'[r] = new /\ \A q \in DOMAIN folders : q # r => folders'[q] = folders[q]
<1>1. DOMAIN folders = 1..Len(folders)
  BY FolderNumbers
<1>2. folders' \in Seq(Folders) /\ Len(folders') = Len(folders)
  BY <1>1, ExceptSeq DEF Put, PhasesTyped
<1>3. DOMAIN folders' = 1..Len(folders')
  BY <1>2, LenProperties
<1> QED BY <1>1, <1>2, <1>3 DEF Put, PhasesTyped

\* A request that does not move keeps what it holds, when its folder stays and
\* its source loses nothing.
LEMMA StandsBy ==
  ASSUME NEW q \in Forkers, ForkingOK(q), forking'[q] = forking[q], DOMAIN folders \subseteq DOMAIN folders',
         forking[q].step # "idle" =>
           /\ folders'[forking[q].run] = folders[forking[q].run]
           /\ folders[forking[q].src].whole => folders'[forking[q].src].whole
           /\ folders[forking[q].src].whole =>
                \A s \in Skills :
                  folders[forking[q].src].files[s] # 0 => folders'[forking[q].src].files[s] # 0
  PROVE  ForkingOK(q)'
<1>1. CASE forking[q].step = "idle"
  BY <1>1 DEF ForkingOK
<1>2. CASE forking[q].step # "idle"
  <2>1. Claims(q) => Claims(q)'
    BY <1>2 DEF Claims, Kept, SkillFork, Below
  <2> QED BY <1>2, <2>1 DEF ForkingOK
<1> QED BY <1>1, <1>2

\* A run that changes its own folder.
LEMMA RunPuts ==
  ASSUME PhasesInv, NEW r \in DOMAIN folders, ~BeingFilled(r), NEW new \in Folders, Put(r, new),
         UNCHANGED forking, Coherent(new), Stocked(new), new.whole = folders[r].whole,
         \A s \in Skills : folders[r].files[s] # 0 => new.files[s] # 0
  PROVE  PhasesInv'
<1>1. /\ folders' \in Seq(Folders) /\ DOMAIN folders' = DOMAIN folders
      /\ folders'[r] = new /\ \A q \in DOMAIN folders : q # r => folders'[q] = folders[q]
  BY PutFolder DEF PhasesInv
<1>2. PhasesTyped' /\ OwnFolder'
  BY <1>1 DEF PhasesInv, PhasesTyped, OwnFolder
<1>3. \A q \in DOMAIN folders' : FolderOK(q)'
  BY <1>1 DEF PhasesInv, FolderOK
<1>4. ASSUME NEW q \in Forkers PROVE ForkingOK(q)'
  <2>1. ForkingOK(q) /\ forking'[q] = forking[q] /\ forking[q].run # r
    BY DEF PhasesInv, BeingFilled
  <2>2. forking[q].step # "idle" =>
           /\ folders'[forking[q].run] = folders[forking[q].run]
           /\ folders[forking[q].src].whole => folders'[forking[q].src].whole
           /\ folders[forking[q].src].whole =>
                \A s \in Skills :
                  folders[forking[q].src].files[s] # 0 => folders'[forking[q].src].files[s] # 0
    BY <1>1, <2>1 DEF ForkingOK
  <2> QED BY <1>1, <2>1, <2>2, StandsBy
<1> QED BY <1>2, <1>3, <1>4 DEF PhasesInv

\* A step of a run's own.
LEMMA RunStepInv ==
  ASSUME PhasesInv, NEW r \in DOMAIN folders, RunStep(r)
  PROVE  PhasesInv'
<1>0. PICK run : run = folders[r]
  OBVIOUS
<1>1. r \in Nat \ {0} /\ run \in Folders /\ Coherent(run) /\ Stocked(run)
  BY <1>0, FolderNumbers DEF PhasesInv, FolderOK
<1>2. ASSUME NEW s \in Skills, MakeArtifact(r, s) PROVE PhasesInv'
  <2>1. PICK new : new = [run EXCEPT !.files[s] = r]
    OBVIOUS
  <2>2. /\ new \in Folders /\ Coherent(new) /\ Stocked(new) /\ new.whole = run.whole
        /\ \A t \in Skills : run.files[t] # 0 => new.files[t] # 0
    BY <1>1, <2>1, MadeOK
  <2>3. Put(r, new) /\ UNCHANGED forking /\ ~BeingFilled(r)
    BY <1>0, <1>2, <2>1 DEF MakeArtifact, Working
  <2> QED BY <1>0, <2>2, <2>3, RunPuts
<1>3. ASSUME NEW s \in Skills, RecordStep(r, s) PROVE PhasesInv'
  <2>1. PICK new : new = Recorded(run, s, r)
    OBVIOUS
  <2>2. run.files[s] = r
    BY <1>0, <1>3 DEF RecordStep
  <2>3. /\ new \in Folders /\ Coherent(new) /\ Stocked(new) /\ new.whole = run.whole
        /\ new.files = run.files
    BY <1>1, <2>1, <2>2, RecordedOK
  <2>4. Put(r, new) /\ UNCHANGED forking /\ ~BeingFilled(r)
    BY <1>0, <1>3, <2>1 DEF RecordStep, Working, Recorded
  <2> QED BY <1>0, <2>3, <2>4, RunPuts
<1>4. ASSUME NEW h \in Phases, NEW halts \in BOOLEAN, Close(r, h, halts) PROVE PhasesInv'
  <2>1. PICK new : new = Closed(run, h, halts, r)
    OBVIOUS
  <2>2. \A s \in Skills : SkillPhase[s] = h => run.steps[s] = "done"
    BY <1>0, <1>4 DEF Close
  <2>3. /\ new \in Folders /\ Coherent(new) /\ Stocked(new) /\ new.whole = run.whole
        /\ new.files = run.files
    BY <1>1, <2>1, <2>2, ClosedOK
  <2>4. Put(r, new) /\ UNCHANGED forking /\ ~BeingFilled(r)
    BY <1>0, <1>4, <2>1 DEF Close, Working, Closed
  <2> QED BY <1>0, <2>3, <2>4, RunPuts
<1>5. ASSUME NEW h \in Phases, Break(r, h) PROVE PhasesInv'
  <2>1. PICK new : new = [run EXCEPT !.status[h] = "error"]
    OBVIOUS
  <2>2. run.status[h] # "done"
    BY <1>0, <1>5 DEF Break, Open
  <2>3. /\ new \in Folders /\ Coherent(new) /\ Stocked(new) /\ new.whole = run.whole
        /\ new.files = run.files
    BY <1>1, <2>1, <2>2, BrokenOK
  <2>4. Put(r, new) /\ UNCHANGED forking /\ ~BeingFilled(r)
    BY <1>0, <1>5, <2>1 DEF Break, Working
  <2> QED BY <1>0, <2>3, <2>4, RunPuts
<1> QED BY <1>2, <1>3, <1>4, <1>5 DEF RunStep

\* A step of a request that is under way, in the folder it fills.
LEMMA ForkPuts ==
  ASSUME PhasesInv, NEW p \in Forkers, forking[p].step # "idle", NEW r, r = forking[p].run,
         NEW new \in Folders, Put(r, new) \/ (UNCHANGED folders /\ new = folders[r]),
         NEW f \in Forkings, forking' = [forking EXCEPT ![p] = f], f.run \in {0, r},
         Coherent(new), Stocked(new), ForkingOK(p)'
  PROVE  PhasesInv'
<1>1. PhasesTyped /\ r \in DOMAIN folders /\ ForkingOK(p) /\ r # 0
  BY FolderNumbers DEF PhasesInv, ForkingOK
<1>2. /\ folders' \in Seq(Folders) /\ DOMAIN folders' = DOMAIN folders
      /\ folders'[r] = new /\ \A q \in DOMAIN folders : q # r => folders'[q] = folders[q]
  BY <1>1, PutFolder DEF PhasesTyped
<1>3. forking'[p] = f /\ \A q \in Forkers : q # p => forking'[q] = forking[q]
  BY <1>1 DEF PhasesTyped
<1>4. PhasesTyped' /\ OwnFolder'
  BY <1>1, <1>2, <1>3 DEF PhasesInv, PhasesTyped, OwnFolder
<1>5. \A q \in DOMAIN folders' : FolderOK(q)'
  BY <1>2 DEF PhasesInv, FolderOK
<1>6. ASSUME NEW q \in Forkers, q # p PROVE ForkingOK(q)'
  <2>1. ForkingOK(q) /\ forking'[q] = forking[q] /\ forking[q].run # r
    BY <1>1, <1>3, <1>6 DEF PhasesInv, OwnFolder
  <2>2. ~folders[r].whole
    BY <1>1 DEF ForkingOK
  <2>3. forking[q].step # "idle" =>
           /\ folders'[forking[q].run] = folders[forking[q].run]
           /\ folders[forking[q].src].whole => folders'[forking[q].src].whole
           /\ folders[forking[q].src].whole =>
                \A s \in Skills :
                  folders[forking[q].src].files[s] # 0 => folders'[forking[q].src].files[s] # 0
    BY <1>2, <2>1, <2>2 DEF ForkingOK
  <2> QED BY <1>2, <2>1, <2>3, StandsBy
<1> QED BY <1>4, <1>5, <1>6 DEF PhasesInv

\* A request that does nothing fills no folder.
LEMMA NoForkingTyped == NoForking \in Forkings /\ NoForking.step = "idle" /\ NoForking.run = 0
BY DEF NoForking, Forkings

\* A request begins with a folder of its own, that claims nothing.
LEMMA BeginInv ==
  ASSUME PhasesInv, NEW p \in Forkers, NEW src \in DOMAIN folders, NEW at \in Phases,
         NEW skill \in Nat, NEW targets \in SUBSET Phases, Begin(p, src, at, skill, targets)
  PROVE  PhasesInv'
<1>0. PICK n : n = Len(folders) + 1
  OBVIOUS
<1>1. /\ PhasesTyped /\ Len(folders) \in Nat /\ DOMAIN folders = 1..Len(folders) /\ n \in Nat
      /\ folders' = Append(folders, NoRun) /\ NoRun \in Folders
  BY <1>0, FolderNumbers, NoRunOK DEF PhasesInv, Begin
<1>2. /\ folders' \in Seq(Folders) /\ Len(folders') = n /\ folders'[n] = NoRun
      /\ \A r \in DOMAIN folders : folders'[r] = folders[r]
  BY <1>0, <1>1, AppendProperties DEF PhasesTyped
<1>3. DOMAIN folders' = DOMAIN folders \cup {n} /\ n \notin DOMAIN folders
  BY <1>0, <1>1, <1>2, LenProperties
<1>4. PICK f : f = [NoForking EXCEPT !.step = "state", !.src = src, !.at = at, !.skill = skill,
                                     !.targets = targets, !.run = n]
  OBVIOUS
<1>5. f \in Forkings /\ f.step = "state" /\ f.src = src /\ f.run = n
  <2>1. src \in Nat /\ at \in Nat
    BY <1>1, FolderNumbers, PhasesAreOrdinals
  <2> QED BY <1>1, <1>4, <2>1 DEF NoForking, Forkings
<1>6. forking' = [forking EXCEPT ![p] = f]
  BY <1>0, <1>4 DEF Begin
<1>7. \A q \in Forkers : forking[q].run # n
  <2> SUFFICES ASSUME NEW q \in Forkers PROVE forking[q].run # n
    OBVIOUS
  <2>1. forking[q].run = 0 \/ forking[q].run \in DOMAIN folders
    BY DEF PhasesInv, ForkingOK
  <2> QED BY <1>0, <1>1, <1>3, <2>1
<1>8. PhasesTyped' /\ OwnFolder'
  BY <1>1, <1>2, <1>5, <1>6, <1>7 DEF PhasesInv, PhasesTyped, OwnFolder
<1>9. \A r \in DOMAIN folders' : FolderOK(r)'
  BY <1>2, <1>3, NoRunOK DEF PhasesInv, FolderOK, Stocked
<1>10. ForkingOK(p)'
  BY <1>1, <1>2, <1>3, <1>5, <1>6, NoRunOK DEF ForkingOK, PhasesTyped
<1>11. ASSUME NEW q \in Forkers, q # p PROVE ForkingOK(q)'
  <2>1. forking'[q] = forking[q] /\ ForkingOK(q)
    BY <1>1, <1>6, <1>11 DEF PhasesInv, PhasesTyped
  <2>2. forking[q].step # "idle" =>
          folders'[forking[q].run] = folders[forking[q].run] /\ folders'[forking[q].src] = folders[forking[q].src]
    BY <1>2, <2>1 DEF ForkingOK
  <2> QED BY <1>3, <2>1, <2>2, StandsBy
<1> QED BY <1>8, <1>9, <1>10, <1>11 DEF PhasesInv

\* The state a request writes claims what its source has.
LEMMA WriteRunStateInv == ASSUME PhasesInv, NEW p \in Forkers, WriteRunState(p) PROVE PhasesInv'
<1>0. PICK r, f : r = forking[p].run /\ f = [forking[p] EXCEPT !.step = "list"]
  OBVIOUS
<1>1. PhasesTyped /\ forking[p] \in Forkings /\ ForkingOK(p) /\ forking[p].step = "state"
  BY DEF PhasesInv, PhasesTyped, WriteRunState, AtStep
<1>2. /\ r \in DOMAIN folders /\ forking[p].src \in DOMAIN folders /\ forking[p].src # r
      /\ folders[forking[p].src] \in Folders /\ FolderOK(forking[p].src)
  BY <1>0, <1>1, FolderNumbers DEF ForkingOK, PhasesInv
<1>3. /\ f \in Forkings /\ f.step = "list" /\ f.run = r /\ f.src = forking[p].src
      /\ f.at = forking[p].at /\ f.skill = forking[p].skill
  BY <1>0, <1>1 DEF Forkings
<1>4. forking' = [forking EXCEPT ![p] = f]
  BY <1>0, <1>1 DEF WriteRunState, PhasesTyped
<1>5. PICK src \in {folders[forking[p].src], NoRun} : Put(r, StateOf(forking[p], src))
  BY <1>0 DEF WriteRunState
<1>6. src \in Folders /\ Coherent(src)
  BY <1>2, <1>5, NoRunOK DEF FolderOK
<1>7. PICK new : new = StateOf(forking[p], src)
  OBVIOUS
<1>8. /\ new \in Folders /\ ~new.whole /\ Coherent(new) /\ Stocked(new)
      /\ new.sound => /\ src.whole /\ src.sound
                      /\ \A s \in Skills : new.steps[s] = "done" =>
                           Kept(forking[p], s) /\ src.steps[s] = "done"
  BY <1>1, <1>6, <1>7, StateIs, StateCoherent DEF Stocked
<1>9. folders'[r] = new /\ DOMAIN folders' = DOMAIN folders
      /\ folders'[forking[p].src] = folders[forking[p].src]
  BY <1>1, <1>2, <1>5, <1>7, <1>8, PutFolder
<1>10. forking'[p] = f
  BY <1>1, <1>4 DEF PhasesTyped
<1>11. Claims(p)'
  <2> SUFFICES ASSUME new.sound
               PROVE  /\ folders[f.src].whole
                      /\ \A s \in Skills : new.steps[s] = "done" => Kept(f, s) /\ folders[f.src].files[s] # 0
    BY <1>3, <1>9, <1>10 DEF Claims
  <2>1. src = folders[forking[p].src]
    BY <1>5, <1>8, NoRunOK
  <2>2. \A s \in Skills : src.steps[s] = "done" => src.files[s] # 0
    BY <1>2, <1>8, <2>1 DEF FolderOK, Stocked
  <2> QED BY <1>3, <1>8, <2>1, <2>2 DEF Kept, SkillFork, Below
<1>12. ForkingOK(p)'
  BY <1>2, <1>3, <1>8, <1>9, <1>10, <1>11 DEF ForkingOK
<1> QED BY <1>0, <1>1, <1>3, <1>4, <1>5, <1>7, <1>8, <1>12, ForkPuts

\* What a state claims of its source is on the list.
LEMMA ListSourceInv == ASSUME PhasesInv, NEW p \in Forkers, ListSource(p) PROVE PhasesInv'
<1>1. PhasesTyped /\ forking[p] \in Forkings /\ ForkingOK(p) /\ forking[p].step = "list"
  BY DEF PhasesInv, PhasesTyped, ListSource, AtStep
<1>2. PICK todo : todo = {h \in Phases :
        /\ (IF h < forking[p].at THEN "keep"
            ELSE IF SkillFork(forking[p], h) THEN "partial" ELSE "skip") # "skip"
        /\ \E s \in Skills : SkillPhase[s] = h /\ folders[forking[p].src].files[s] # 0}
  OBVIOUS
<1>3. PICK r, f : r = forking[p].run /\ f = [forking[p] EXCEPT !.step = "copy", !.todo = todo]
  OBVIOUS
<1>4. forking' = [forking EXCEPT ![p] = f] /\ UNCHANGED folders
  BY <1>1, <1>2, <1>3 DEF ListSource, PhasesTyped
<1>5. /\ f \in Forkings /\ f.step = "copy" /\ f.run = r /\ f.src = forking[p].src
      /\ f.at = forking[p].at /\ f.skill = forking[p].skill /\ f.todo = todo
  BY <1>1, <1>2, <1>3 DEF Forkings
<1>6. r \in DOMAIN folders /\ folders[r] \in Folders /\ FolderOK(r) /\ Claims(p)
  BY <1>1, <1>3, FolderNumbers DEF ForkingOK, PhasesInv
<1>7. forking'[p] = f
  BY <1>1, <1>4 DEF PhasesTyped
<1>8. \A s \in Skills : Kept(forking[p], s) /\ folders[forking[p].src].files[s] # 0 => SkillPhase[s] \in todo
  BY <1>2, RunPhasesAssumption DEF Kept
<1>9. \A s \in Skills : Kept(forking[p], s) => Kept(f, s)
  BY <1>5 DEF Kept, SkillFork, Below
<1>10. Claims(p)'
  <2> SUFFICES ASSUME folders[r].sound
               PROVE  /\ folders[f.src].whole
                      /\ \A s \in Skills : folders[r].steps[s] = "done" =>
                           Kept(f, s) /\ folders[f.src].files[s] # 0 /\ SkillPhase[s] \in f.todo
    BY <1>4, <1>5, <1>7 DEF Claims
  <2> QED BY <1>3, <1>5, <1>6, <1>8, <1>9 DEF Claims
<1>11. ForkingOK(p)'
  BY <1>1, <1>3, <1>4, <1>5, <1>7, <1>10 DEF ForkingOK
<1> QED BY <1>1, <1>3, <1>4, <1>5, <1>6, <1>11, ForkPuts DEF FolderOK

\* What is taken off the list has been copied.
LEMMA CopyPhaseInv ==
  ASSUME PhasesInv, NEW p \in Forkers, NEW h \in Phases, CopyPhase(p, h) PROVE PhasesInv'
<1>1. PhasesTyped /\ forking[p] \in Forkings /\ ForkingOK(p) /\ forking[p].step = "copy"
  BY DEF PhasesInv, PhasesTyped, CopyPhase, AtStep
<1>2. PICK r, f, src : r = forking[p].run /\ f = [forking[p] EXCEPT !.todo = @ \ {h}] /\ src = forking[p].src
  OBVIOUS
<1>3. /\ r \in DOMAIN folders /\ folders[r] \in Folders /\ FolderOK(r) /\ Claims(p) /\ ~folders[r].whole
      /\ src \in DOMAIN folders /\ folders[src] \in Folders /\ src # r
  BY <1>1, <1>2, FolderNumbers DEF ForkingOK, PhasesInv
<1>4. PICK copied : copied = [s \in Skills |-> IF SkillPhase[s] = h /\ KeepsArtifact(forking[p], s)
                                             THEN folders[src].files[s] ELSE folders[r].files[s]]
  OBVIOUS
<1>5. PICK new : new = [folders[r] EXCEPT !.files = copied]
  OBVIOUS
<1>6. Put(r, new) /\ forking' = [forking EXCEPT ![p] = f]
  BY <1>1, <1>2, <1>4, <1>5 DEF CopyPhase, PhasesTyped
<1>7. copied \in [Skills -> Nat]
  BY <1>3, <1>4 DEF Folders
<1>8. /\ new \in Folders /\ new.files = copied /\ new.status = folders[r].status
      /\ new.steps = folders[r].steps /\ new.products = folders[r].products
      /\ new.whole = folders[r].whole /\ new.sound = folders[r].sound
  BY <1>3, <1>5, <1>7 DEF Folders
<1>9. Coherent(new) /\ Stocked(new)
  BY <1>3, <1>8 DEF FolderOK, Coherent, WriterDone, Stocked
<1>10. /\ f \in Forkings /\ f.step = "copy" /\ f.run = r /\ f.src = src
       /\ f.at = forking[p].at /\ f.skill = forking[p].skill /\ f.todo = forking[p].todo \ {h}
  BY <1>1, <1>2 DEF Forkings
<1>11. folders'[r] = new /\ DOMAIN folders' = DOMAIN folders /\ folders'[src] = folders[src]
  BY <1>1, <1>3, <1>6, <1>8, PutFolder
<1>12. forking'[p] = f
  BY <1>1, <1>6 DEF PhasesTyped
<1>13. Claims(p)'
  <2> SUFFICES ASSUME new.sound
               PROVE  /\ folders[src].whole
                      /\ \A s \in Skills : new.steps[s] = "done" =>
                           /\ Kept(f, s) /\ folders[src].files[s] # 0
                           /\ SkillPhase[s] \in f.todo \/ new.files[s] # 0
    BY <1>10, <1>11, <1>12 DEF Claims
  <2>1. /\ folders[src].whole
        /\ \A s \in Skills : new.steps[s] = "done" =>
             /\ Kept(forking[p], s) /\ folders[src].files[s] # 0
             /\ SkillPhase[s] \in forking[p].todo \/ folders[r].files[s] # 0
    BY <1>1, <1>2, <1>3, <1>8 DEF Claims
  <2>2. ASSUME NEW s \in Skills, new.steps[s] = "done"
        PROVE  /\ Kept(f, s) /\ folders[src].files[s] # 0
               /\ SkillPhase[s] \in f.todo \/ new.files[s] # 0
    <3>1. Kept(f, s)
      BY <1>10, <2>1, <2>2 DEF Kept, SkillFork, Below
    <3>2. KeepsArtifact(forking[p], s)
      <4>1. SkillPhase[s] \in Nat /\ forking[p].at \in Nat
        BY <1>1, RunPhasesAssumption, PhasesAreOrdinals DEF Forkings
      <4> QED BY <2>1, <2>2, <4>1 DEF KeepsArtifact, Kept, SkillFork
    <3> QED BY <1>4, <1>8, <1>10, <2>1, <2>2, <3>1, <3>2
  <2> QED BY <2>1, <2>2
<1>14. ForkingOK(p)'
  BY <1>3, <1>8, <1>10, <1>11, <1>12, <1>13 DEF ForkingOK
<1> QED BY <1>1, <1>2, <1>6, <1>8, <1>9, <1>10, <1>14, ForkPuts

\* With nothing left on the list, what is claimed is there.
LEMMA FinishInv == ASSUME PhasesInv, NEW p \in Forkers, Finish(p) PROVE PhasesInv'
<1>1. PhasesTyped /\ ForkingOK(p) /\ forking[p].step = "copy" /\ forking[p].todo = {}
  BY DEF PhasesInv, Finish, AtStep
<1>2. PICK r, new : r = forking[p].run /\ new = [folders[r] EXCEPT !.whole = TRUE]
  OBVIOUS
<1>3. r \in DOMAIN folders /\ folders[r] \in Folders /\ FolderOK(r) /\ Claims(p)
  BY <1>1, <1>2, FolderNumbers DEF ForkingOK, PhasesInv
<1>4. /\ new \in Folders /\ new.files = folders[r].files /\ new.status = folders[r].status
      /\ new.steps = folders[r].steps /\ new.products = folders[r].products
      /\ new.sound = folders[r].sound
  BY <1>2, <1>3 DEF Folders
<1>5. Coherent(new) /\ Stocked(new)
  BY <1>1, <1>2, <1>3, <1>4 DEF FolderOK, Coherent, WriterDone, Stocked, Claims
<1>6. Put(r, new) /\ forking' = [forking EXCEPT ![p] = NoForking]
  BY <1>2 DEF Finish
<1>7. ForkingOK(p)'
  BY <1>1, <1>6, NoForkingTyped DEF ForkingOK, PhasesTyped
<1> QED BY <1>1, <1>2, <1>4, <1>5, <1>6, <1>7, NoForkingTyped, ForkPuts

\* A fork that fails leaves a folder that is not whole.
LEMMA FailInv == ASSUME PhasesInv, NEW p \in Forkers, Fail(p) PROVE PhasesInv'
<1>1. PhasesTyped /\ ForkingOK(p) /\ forking[p].step # "idle"
  BY DEF PhasesInv, Fail, AtStep
<1>2. PICK r : r = forking[p].run
  OBVIOUS
<1>3. r \in DOMAIN folders /\ folders[r] \in Folders /\ FolderOK(r)
  BY <1>1, <1>2, FolderNumbers DEF ForkingOK, PhasesInv
<1>4. UNCHANGED folders /\ forking' = [forking EXCEPT ![p] = NoForking]
  BY DEF Fail
<1>5. ForkingOK(p)'
  BY <1>1, <1>4, NoForkingTyped DEF ForkingOK, PhasesTyped
<1> QED BY <1>1, <1>2, <1>3, <1>4, <1>5, NoForkingTyped, ForkPuts DEF FolderOK

\* Every step of a request.
LEMMA ForkStepsInv == ASSUME PhasesInv, NEW p \in Forkers, ForkStep(p) PROVE PhasesInv'
<1>1. ASSUME NEW src \in DOMAIN folders, NEW h \in Phases, BeginAtPhase(p, src, h) PROVE PhasesInv'
  BY <1>1, BeginInv DEF BeginAtPhase
<1>2. ASSUME NEW src \in DOMAIN folders, NEW s \in Skills, BeginAtSkill(p, src, s) PROVE PhasesInv'
  <2>1. SkillPhase[s] \in Phases /\ s \in Nat
    BY RunPhasesAssumption
  <2> QED BY <1>2, <2>1, BeginInv DEF BeginAtSkill
<1>3. ASSUME NEW src \in DOMAIN folders, NEW only \in SUBSET Phases, BeginSeeded(p, src, only)
      PROVE  PhasesInv'
  BY <1>3, BeginInv DEF BeginSeeded
<1> QED BY <1>1, <1>2, <1>3, WriteRunStateInv, ListSourceInv, CopyPhaseInv, FinishInv, FailInv DEF ForkStep

\* The first run has done nothing.
LEMMA PhasesInitInv == PhasesInit => PhasesInv
<1> SUFFICES ASSUME PhasesInit PROVE PhasesInv
  OBVIOUS
<1>1. PICK run : run = [NoRun EXCEPT !.ready = TRUE, !.whole = TRUE, !.sound = TRUE]
  OBVIOUS
<1>2. /\ run \in Folders /\ run.status = NoRun.status /\ run.steps = NoRun.steps
      /\ run.products = NoRun.products
  BY <1>1, NoRunOK DEF Folders
<1>3. /\ \A h \in Phases : run.status[h] = "pending"
      /\ \A s \in Skills : run.steps[s] = "absent"
      /\ \A k \in Keys : run.products[k] = 0
  BY <1>2 DEF NoRun
<1>4. Coherent(run) /\ Stocked(run)
  BY <1>3, RunPhasesAssumption, ZenonT(60) DEF Coherent, Stocked, WriterDone
<1>5. folders = <<run>>
  BY <1>1 DEF PhasesInit
<1>6. folders \in Seq(Folders) /\ DOMAIN folders = {1} /\ folders[1] = run
  BY <1>2, <1>5
<1>7. PhasesTyped /\ \A p \in Forkers : forking[p] = NoForking
  BY <1>6, NoForkingTyped DEF PhasesInit, PhasesTyped
<1> QED BY <1>4, <1>6, <1>7, NoForkingTyped DEF PhasesInv, FolderOK, ForkingOK, OwnFolder

\* Every step.
LEMMA PhasesStepInv == PhasesInv /\ [PhasesNext]_phaseVars => PhasesInv'
<1> SUFFICES ASSUME PhasesInv, [PhasesNext]_phaseVars PROVE PhasesInv'
  OBVIOUS
<1>1. CASE UNCHANGED phaseVars
  BY <1>1 DEF phaseVars, PhasesInv, PhasesTyped, OwnFolder, FolderOK, ForkingOK, Claims
<1>2. CASE PhasesNext
  BY <1>2, ForkStepsInv, RunStepInv DEF PhasesNext
<1> QED BY <1>1, <1>2

\* Whatever runs and forks do, in whatever order, and wherever forks fail: a
\* fork that ended well has the artifacts of what it says is done, and every
\* run is handed just the products of what is done.
THEOREM ForksClaimRight == PhasesSpec => []ForksClaimWhatIsThere
<1>1. PhasesInv => ForksClaimWhatIsThere
  BY DEF PhasesInv, FolderOK, Stocked, Coherent, ForksClaimWhatIsThere, DoneHasItsFiles, HandoffMatchesSteps
<1> QED BY <1>1, PhasesInitInv, PhasesStepInv, PTL DEF PhasesSpec

-----------------------------------------------------------------------------
(* RunClone: what copies, rows, threads and requests are.                   *)

\* What copies, rows, threads and requests are.
CopyTasks   == {"new", "todo", "flight", "look", "answered", "held", "failed"}
CloneIds     == [Files -> Nat]
Copies  == [of : Files, dir : Nat \ {0}]
CloneRows    == [status : {"copying", "error", "done"}, ids : CloneIds, silent : BOOLEAN]
Threads == [step : {"folder", "state", "rest", "links"} \cup Over, resume : BOOLEAN, dir : Nat,
            prior : CloneIds, ids : CloneIds, got : CloneIds, task : [Files -> CopyTasks], since : Nat]
Posts   == [from : Nat, dir : Nat, open : BOOLEAN]

\* The type invariant of RunClone.
CloneTyped ==
  /\ dirs \in Nat /\ copies \in Seq(Copies) /\ clone \in Seq(CloneRows) /\ work \in Seq(Threads)
  /\ post \in [Requests -> Posts] /\ crossed \in BOOLEAN /\ Len(work) = Len(clone)

\* Copy c has the name of f; there is no copy of f in d.
Alike(cs, c, f)  == c \in DOMAIN cs /\ NameOf[cs[c].of] = NameOf[f]
Absent(cs, f, d) == \A c \in DOMAIN cs : cs[c] # [of |-> f, dir |-> d]

\* An id map leads to copies of the same name; what a thread has, in its folder,
\* is of one file each.
IdsKnown(cs, ids) == \A f \in Files : ids[f] # 0 => Alike(cs, ids[f], f)
Has(cs, w) ==
  \A f \in Files : w.got[f] # 0 =>
    /\ Alike(cs, w.got[f], f) /\ cs[w.got[f]].dir = w.dir
    /\ \A g \in Files : w.got[g] = w.got[f] => g = f

\* A thread has what it was answered, and records what it holds.
Tasked(w) ==
  \A f \in Files :
    /\ w.task[f] \in {"answered", "held"} <=> w.got[f] # 0
    /\ w.ids[f] = IF w.task[f] = "held" THEN w.got[f] ELSE 0

\* run_state.yaml first, then the rest.
Staged(w) ==
  /\ w.step = "folder" => /\ \A f \in Files : w.task[f] = "new"
                          /\ w.dir # 0 => w.resume
  /\ w.step = "state"  => \A f \in Files \ {State} : w.task[f] = "new"
  /\ w.step = "rest"   => w.task[State] = "held"
  /\ w.step = "links"  => \A f \in Files : w.task[f] = "held"
  /\ w.step \notin Over \cup {"folder"} => w.dir # 0

\* A thread among n folders.
ThreadOK(cs, n, w) == w.dir <= n /\ IdsKnown(cs, w.prior) /\ Has(cs, w) /\ Tasked(w) /\ Staged(w)

\* What a thread is about to copy is not there; nor is anything in a new folder.
Unmade(cs, w) ==
  w.step \notin Over \cup {"folder"} =>
    \A f \in Files :
      /\ UniqueName(f)
      /\ w.task[f] \in {"todo", "flight"} \/ (w.task[f] = "new" /\ ~w.resume)
      => Absent(cs, f, w.dir)

\* A row says done once its thread holds every file.
CloneRowOK(cs, r, w) ==
  /\ IdsKnown(cs, r.ids)
  /\ r.status = "done" => w.step = "ended" /\ r.ids = w.ids /\ \A f \in Files : w.task[f] = "held"

\* A request that found a folder found the attempt that made it, too.
PostOK(p) ==
  /\ post[p].from <= Len(clone) /\ post[p].dir <= dirs
  /\ post[p].dir # 0 => post[p].from # 0

\* No file that is the only one of its name has two copies in a folder.
Single(cs) ==
  \A c, e \in DOMAIN cs : cs[c] = cs[e] /\ UniqueName(cs[c].of) => c = e

\* With one attempt at a time, a file that is the only one of its name is copied
\* once to a folder.
OneAtATime ==
  /\ Single(copies)
  /\ \A k \in DOMAIN work : work[k].step \notin Over => k = Len(work) /\ Unmade(copies, work[k])

\* What every step of a clone keeps.
CloneInv ==
  /\ CloneTyped
  /\ \A c \in DOMAIN copies : copies[c].dir <= dirs
  /\ \A p \in Requests : PostOK(p)
  /\ \A k \in DOMAIN work : ThreadOK(copies, dirs, work[k]) /\ CloneRowOK(copies, clone[k], work[k])
  /\ ~crossed => OneAtATime

-----------------------------------------------------------------------------
\* Attempts have numbers.
LEMMA AttemptNumbers ==
  ASSUME CloneTyped
  PROVE  /\ Attempts = DOMAIN work /\ DOMAIN work = 1..Len(work) /\ DOMAIN clone = 1..Len(work)
         /\ DOMAIN copies = 1..Len(copies) /\ Len(copies) \in Nat /\ Len(work) \in Nat /\ dirs \in Nat
         /\ \A k \in DOMAIN work : work[k] \in Threads /\ clone[k] \in CloneRows
         /\ \A c \in DOMAIN copies : copies[c] \in Copies
BY DEF CloneTyped, Attempts

\* What is known of copies stays so when another is made.
LEMMA MoreCopies ==
  ASSUME NEW cs \in Seq(Copies), NEW c \in Copies
  PROVE  /\ Append(cs, c) \in Seq(Copies)
         /\ DOMAIN Append(cs, c) = DOMAIN cs \cup {Len(cs) + 1}
         /\ Len(cs) + 1 \notin DOMAIN cs
         /\ Append(cs, c)[Len(cs) + 1] = c
         /\ \A e \in DOMAIN cs : Append(cs, c)[e] = cs[e]
         /\ \A ids \in CloneIds : IdsKnown(cs, ids) => IdsKnown(Append(cs, c), ids)
         /\ \A w \in Threads : Has(cs, w) => Has(Append(cs, c), w)
<1>1. /\ Append(cs, c) \in Seq(Copies)
      /\ DOMAIN Append(cs, c) = DOMAIN cs \cup {Len(cs) + 1}
      /\ Len(cs) + 1 \notin DOMAIN cs
      /\ Append(cs, c)[Len(cs) + 1] = c
      /\ \A e \in DOMAIN cs : Append(cs, c)[e] = cs[e]
  OBVIOUS
<1> DEFINE new == Append(cs, c)
<1> HIDE DEF new
<1>2. DOMAIN cs \subseteq DOMAIN new /\ \A e \in DOMAIN cs : new[e] = cs[e]
  BY <1>1 DEF new
<1>3. \A ids \in CloneIds : IdsKnown(cs, ids) => IdsKnown(new, ids)
  BY <1>2 DEF IdsKnown, Alike
<1>4. \A w \in Threads : Has(cs, w) => Has(new, w)
  BY <1>2 DEF Has, Alike
<1> QED BY <1>1, <1>3, <1>4 DEF new

\* A thread that goes on: its own record, a copy perhaps, its own row perhaps.
LEMMA ThreadGoes ==
  ASSUME CloneInv, NEW k \in DOMAIN work, work[k].step \notin Over,
         NEW w \in Threads, work' = [work EXCEPT ![k] = w],
         dirs' \in Nat, dirs <= dirs', post' = post, crossed' = crossed,
         \/ copies' = copies
         \/ \E f \in Files : /\ copies' = Append(copies, [of |-> f, dir |-> w.dir]) /\ w.dir # 0
                             /\ ~crossed /\ UniqueName(f) => Absent(copies, f, w.dir),
         ThreadOK(copies', dirs', w), ~crossed => Unmade(copies', w),
         \/ clone' = clone
         \/ \E r \in CloneRows : clone' = [clone EXCEPT ![k] = r] /\ CloneRowOK(copies', r, w)
  PROVE  CloneInv'
<1>1. CloneTyped /\ ThreadOK(copies, dirs, work[k]) /\ CloneRowOK(copies, clone[k], work[k])
  BY DEF CloneInv
<1>2. k \in DOMAIN clone /\ w.dir <= dirs' /\ w.dir \in Nat /\ clone[k].status # "done"
  BY <1>1, AttemptNumbers DEF ThreadOK, CloneRowOK, Threads, Over
<1>3. /\ work' \in Seq(Threads) /\ Len(work') = Len(work) /\ DOMAIN work' = DOMAIN work
      /\ work'[k] = w /\ \A j \in DOMAIN work : j # k => work'[j] = work[j]
  BY <1>1, AttemptNumbers DEF CloneTyped
<1>4. /\ clone' \in Seq(CloneRows) /\ Len(clone') = Len(clone) /\ DOMAIN clone' = DOMAIN clone
      /\ \A j \in DOMAIN work : j # k => clone'[j] = clone[j]
  <2>1. clone \in Seq(CloneRows) /\ DOMAIN work = DOMAIN clone
    BY <1>1, AttemptNumbers DEF CloneTyped
  <2>2. CASE clone' = clone
    BY <2>1, <2>2
  <2>3. ASSUME NEW r \in CloneRows, clone' = [clone EXCEPT ![k] = r]
        PROVE  /\ clone' \in Seq(CloneRows) /\ Len(clone') = Len(clone) /\ DOMAIN clone' = DOMAIN clone
               /\ \A j \in DOMAIN work : j # k => clone'[j] = clone[j]
    BY <1>2, <2>1, <2>3
  <2> QED BY <2>2, <2>3
<1>5. /\ copies' \in Seq(Copies) /\ \A c \in DOMAIN copies' : copies'[c].dir <= dirs'
      /\ \A ids \in CloneIds : IdsKnown(copies, ids) => IdsKnown(copies', ids)
      /\ \A v \in Threads : Has(copies, v) => Has(copies', v)
      /\ ~crossed => Single(copies')
  <2> /\ dirs \in Nat /\ \A c \in DOMAIN copies : copies[c].dir \in Nat /\ copies[c].dir <= dirs'
    BY <1>1, AttemptNumbers DEF CloneInv, Copies
  <2>1. CASE copies' = copies
    BY <1>1, <2>1 DEF CloneInv, CloneTyped, OneAtATime
  <2>2. ASSUME NEW f \in Files, copies' = Append(copies, [of |-> f, dir |-> w.dir]), w.dir # 0,
               ~crossed /\ UniqueName(f) => Absent(copies, f, w.dir)
        PROVE  /\ copies' \in Seq(Copies) /\ \A c \in DOMAIN copies' : copies'[c].dir <= dirs'
               /\ \A ids \in CloneIds : IdsKnown(copies, ids) => IdsKnown(copies', ids)
               /\ \A v \in Threads : Has(copies, v) => Has(copies', v)
               /\ ~crossed => Single(copies')
    <3>1. [of |-> f, dir |-> w.dir] \in Copies /\ copies \in Seq(Copies)
      BY <1>1, <1>2, <2>2 DEF Copies, CloneTyped
    <3>2. /\ copies' \in Seq(Copies) /\ DOMAIN copies' = DOMAIN copies \cup {Len(copies) + 1}
          /\ copies'[Len(copies) + 1] = [of |-> f, dir |-> w.dir] /\ Len(copies) + 1 \notin DOMAIN copies
          /\ \A e \in DOMAIN copies : copies'[e] = copies[e]
          /\ \A ids \in CloneIds : IdsKnown(copies, ids) => IdsKnown(copies', ids)
          /\ \A v \in Threads : Has(copies, v) => Has(copies', v)
      BY <2>2, <3>1, MoreCopies
    <3>3. \A c \in DOMAIN copies' : copies'[c].dir <= dirs'
      BY <1>2, <3>2 DEF CloneInv
    <3>4. ~crossed => Single(copies')
      <4> SUFFICES ASSUME ~crossed, NEW c \in DOMAIN copies', NEW e \in DOMAIN copies',
                          copies'[c] = copies'[e], UniqueName(copies'[c].of)
                   PROVE  c = e
        BY DEF Single
      <4>1. CASE c \in DOMAIN copies /\ e \in DOMAIN copies
        <5>1. copies[c] = copies[e] /\ UniqueName(copies[c].of) /\ Single(copies)
          BY <3>2, <4>1 DEF CloneInv, OneAtATime
        <5> QED BY <4>1, <5>1 DEF Single
      <4>2. copies'[c].of = f /\ copies'[e] = copies'[c] => UniqueName(f)
        OBVIOUS
      <4>3. CASE c \notin DOMAIN copies \/ e \notin DOMAIN copies
        <5>1. copies'[c] = [of |-> f, dir |-> w.dir] /\ copies'[c].of = f
          BY <3>2, <4>3
        <5>2. \A d \in DOMAIN copies : copies[d] # [of |-> f, dir |-> w.dir]
          BY <2>2, <4>2, <5>1 DEF Absent
        <5> QED BY <3>2, <5>1, <5>2
      <4> QED BY <4>1, <4>3
    <3> QED BY <3>2, <3>3, <3>4
  <2> QED BY <2>1, <2>2
<1>6. CloneRowOK(copies', clone'[k], w)
  <2>1. CASE clone' = clone
    BY <1>1, <1>2, <1>5, <2>1, AttemptNumbers DEF CloneRowOK, CloneRows
  <2>2. ASSUME NEW r \in CloneRows, clone' = [clone EXCEPT ![k] = r], CloneRowOK(copies', r, w)
        PROVE  CloneRowOK(copies', clone'[k], w)
    BY <1>2, <2>2
  <2> QED BY <2>1, <2>2
<1>7. \A j \in DOMAIN work' : ThreadOK(copies', dirs', work'[j]) /\ CloneRowOK(copies', clone'[j], work'[j])
  <2> SUFFICES ASSUME NEW j \in DOMAIN work, j # k
               PROVE  ThreadOK(copies', dirs', work[j]) /\ CloneRowOK(copies', clone[j], work[j])
    BY <1>3, <1>4, <1>6
  <2>1. work[j] \in Threads /\ clone[j] \in CloneRows /\ ThreadOK(copies, dirs, work[j]) /\ CloneRowOK(copies, clone[j], work[j])
    BY <1>1, AttemptNumbers DEF CloneInv
  <2>2. work[j].prior \in CloneIds /\ clone[j].ids \in CloneIds /\ work[j].dir \in Nat /\ dirs \in Nat
    BY <1>1, <2>1 DEF Threads, CloneRows, CloneTyped
  <2> QED BY <1>5, <2>1, <2>2 DEF ThreadOK, CloneRowOK
<1>8. (~crossed => OneAtATime)'
  <2>1. ASSUME ~crossed, NEW j \in DOMAIN work', work'[j].step \notin Over
        PROVE  j = Len(work') /\ Unmade(copies', work'[j])
    <3>1. k = Len(work)
      BY <2>1 DEF CloneInv, OneAtATime
    <3>2. j = k
      BY <1>3, <2>1, <3>1 DEF CloneInv, OneAtATime
    <3> QED BY <1>3, <2>1, <3>1, <3>2
  <2> QED BY <1>5, <2>1 DEF OneAtATime
<1>9. \A p \in Requests : PostOK(p)'
  <2>1. dirs \in Nat /\ \A p \in Requests : post[p].dir \in Nat
    BY <1>1 DEF CloneTyped, Posts
  <2> QED BY <1>4, <2>1 DEF CloneInv, PostOK
<1>10. CloneTyped'
  BY <1>1, <1>3, <1>4, <1>5 DEF CloneTyped
<1> QED BY <1>5, <1>7, <1>8, <1>9, <1>10 DEF CloneInv

-----------------------------------------------------------------------------
(* What an attempt does.                                                   *)

\* Of a file whose name is its own, what no look finds is not there.
LEMMA NothingThere ==
  ASSUME CloneInv, NEW k \in DOMAIN work, NEW f \in Files, UniqueName(f),
         work[k].got[f] = 0, ByName(k, f) = {}
  PROVE  Absent(copies, f, work[k].dir)
<1> SUFFICES ASSUME NEW c \in DOMAIN copies, copies[c] = [of |-> f, dir |-> work[k].dir]
             PROVE  FALSE
  BY DEF Absent
<1>1. Has(copies, work[k])
  BY DEF CloneInv, ThreadOK
<1>2. c \in Claimed(k)
  BY DEF ByName, Unclaimed
<1>3. PICK g \in Files : work[k].got[g] = c /\ c # 0
  BY <1>2 DEF Claimed
<1>4. NameOf[f] = NameOf[g]
  BY <1>1, <1>3 DEF Has, Alike
<1> QED BY <1>3, <1>4 DEF UniqueName

\* A thread that moves one file on, which is neither held nor one of a later stage.
LEMMA TaskGoes ==
  ASSUME CloneInv, NEW k \in DOMAIN work, work[k].step \notin Over, NEW f \in Files,
         work[k].task[f] \notin {"held"},
         work[k].task[f] = "new" => f \in Stage(k),
         NEW w \in Threads, NEW t \in CopyTasks \ {"new"},
         w.step = work[k].step, w.resume = work[k].resume, w.dir = work[k].dir,
         w.prior = work[k].prior, w.task = [work[k].task EXCEPT ![f] = t],
         \A g \in Files : g # f => w.got[g] = work[k].got[g] /\ w.ids[g] = work[k].ids[g],
         w.ids[f] = IF t = "held" THEN w.got[f] ELSE 0,
         t \in {"answered", "held"} <=> w.got[f] # 0
  PROVE  /\ Tasked(w) /\ Staged(w) /\ w.step \in {"state", "rest"} /\ w.dir # 0
<1>1. work[k] \in Threads /\ Tasked(work[k]) /\ Staged(work[k])
  BY AttemptNumbers DEF CloneInv, ThreadOK
<1>2. \A g \in Files : w.task[g] = IF g = f THEN t ELSE work[k].task[g]
  BY <1>1 DEF Threads
<1>3. Tasked(w)
  BY <1>1, <1>2 DEF Tasked
<1>4. k \in Attempts
  BY AttemptNumbers DEF CloneInv
<1>5. work[k].step \in {"state", "rest"}
  <2>1. work[k].step \in {"folder", "state", "rest", "links"}
    BY <1>1 DEF Threads
  <2>2. work[k].step # "links"
    BY <1>1 DEF Staged
  <2>3. work[k].step = "folder" => work[k].task[f] = "new" /\ Stage(k) = {}
    BY <1>1 DEF Staged, Stage, ThreadAt
  <2> QED BY <2>1, <2>2, <2>3
<1>6. work[k].step = "state" => f = State
  BY <1>1, <1>4 DEF Staged, Stage, ThreadAt
<1>7. work[k].step = "rest" => f # State
  BY <1>1, RunCloneAssumption DEF Staged
<1>8. Staged(w)
  BY <1>1, <1>2, <1>5, <1>6, <1>7, RunCloneAssumption DEF Staged, Over
<1> QED BY <1>1, <1>3, <1>5, <1>8 DEF Staged, Over

\* A file is held: what a look finds has its name, and stands for no other.
LEMMA Holding ==
  ASSUME CloneInv, NEW k \in DOMAIN work, NEW f \in Files, NEW c \in Unclaimed(k),
         NameOf[copies[c].of] = NameOf[f], work[k].got[f] = 0,
         NEW w \in Threads, w.dir = work[k].dir, w.got = [work[k].got EXCEPT ![f] = c]
  PROVE  Has(copies, w) /\ c # 0
<1>1. work[k] \in Threads /\ Has(copies, work[k]) /\ CloneTyped
  BY AttemptNumbers DEF CloneInv, ThreadOK
<1>2. c \in DOMAIN copies /\ copies[c].dir = work[k].dir /\ c \notin Claimed(k) /\ c # 0
  BY <1>1, AttemptNumbers DEF Unclaimed
<1>3. \A g \in Files : work[k].got[g] # c
  BY <1>2 DEF Claimed
<1>4. \A g \in Files : w.got[g] = IF g = f THEN c ELSE work[k].got[g]
  BY <1>1 DEF Threads, CloneIds
<1> QED BY <1>1, <1>2, <1>3, <1>4 DEF Has, Alike

\* What is matched is in the folder, under the file's name, and not yet claimed.
LEMMA MatchesAre ==
  ASSUME CloneInv, NEW k \in DOMAIN work, NEW f \in Files, NEW c \in Matches(k, f)
  PROVE  c \in Unclaimed(k) /\ NameOf[copies[c].of] = NameOf[f]
<1>1. IdsKnown(copies, work[k].prior) /\ CloneTyped
  BY DEF CloneInv, ThreadOK
<1>2. \A e \in Unclaimed(k) : e \in DOMAIN copies /\ e # 0
  BY <1>1, AttemptNumbers DEF Unclaimed
<1>3. c \in Unclaimed(k) /\ (c = work[k].prior[f] \/ c \in ByName(k, f))
  BY DEF Matches, ByName
<1> QED BY <1>1, <1>2, <1>3 DEF IdsKnown, Alike, ByName

\* A copy of f that lands in w's folder, or none.
MayLand(w, f) ==
  \/ copies' = copies
  \/ /\ copies' = Append(copies, [of |-> f, dir |-> w.dir]) /\ w.dir # 0
     /\ ~crossed /\ UniqueName(f) => Absent(copies, f, w.dir)

\* What a landing leaves as it was.
LEMMA Lands ==
  ASSUME CloneInv, NEW k \in DOMAIN work, NEW f \in Files, MayLand(work[k], f)
  PROVE  /\ IdsKnown(copies', work[k].prior) /\ Has(copies', work[k])
         /\ \A g \in Files : g # f /\ Absent(copies, g, work[k].dir) => Absent(copies', g, work[k].dir)
         /\ DOMAIN copies \subseteq DOMAIN copies' /\ \A c \in DOMAIN copies : copies'[c] = copies[c]
<1>1. /\ work[k] \in Threads /\ work[k].prior \in CloneIds /\ work[k].dir \in Nat
      /\ copies \in Seq(Copies) /\ IdsKnown(copies, work[k].prior) /\ Has(copies, work[k])
  BY AttemptNumbers DEF CloneInv, CloneTyped, ThreadOK, Threads
<1>2. CASE copies' = copies
  BY <1>1, <1>2
<1>3. CASE copies' # copies
  <2>1. copies' = Append(copies, [of |-> f, dir |-> work[k].dir]) /\ work[k].dir # 0
    BY <1>3 DEF MayLand
  <2>2. [of |-> f, dir |-> work[k].dir] \in Copies
    BY <1>1, <2>1 DEF Copies
  <2> QED BY <1>1, <2>1, <2>2, MoreCopies DEF Absent
<1> QED BY <1>2, <1>3

\* A task that moves on to something that is not an answer.
LEMMA TaskOnly ==
  ASSUME CloneInv, NEW k \in DOMAIN work, work[k].step \notin Over, NEW f \in Files,
         work[k].task[f] \notin {"answered", "held"}, work[k].task[f] = "new" => f \in Stage(k),
         NEW t \in {"todo", "flight", "look", "failed"},
         Does(k, [work[k] EXCEPT !.task[f] = t]), UNCHANGED <<dirs, clone, post, crossed>>,
         MayLand(work[k], f),
         t \in {"todo", "flight"} /\ ~crossed /\ UniqueName(f) => Absent(copies', f, work[k].dir)
  PROVE  CloneInv'
<1>0. dirs \in Nat /\ dirs <= dirs
  BY AttemptNumbers DEF CloneInv
<1>1. work[k] \in Threads /\ ThreadOK(copies, dirs, work[k])
  BY AttemptNumbers DEF CloneInv
<1>2. PICK w : w = [work[k] EXCEPT !.task = [work[k].task EXCEPT ![f] = t]]
  OBVIOUS
<1>3. work' = [work EXCEPT ![k] = w]
  BY <1>2 DEF Does
<1>4. /\ w \in Threads /\ w.task = [work[k].task EXCEPT ![f] = t] /\ w.got = work[k].got
      /\ w.ids = work[k].ids /\ w.step = work[k].step /\ w.resume = work[k].resume
      /\ w.dir = work[k].dir /\ w.prior = work[k].prior
  BY <1>1, <1>2 DEF Threads, CopyTasks
<1>5. work[k].got[f] = 0 /\ work[k].ids[f] = 0
  BY <1>1 DEF ThreadOK, Tasked
<1>6. Tasked(w) /\ Staged(w)
  BY <1>1, <1>4, <1>5, TaskGoes DEF CopyTasks
<1>7. ThreadOK(copies', dirs, w)
  BY <1>1, <1>4, <1>6, Lands DEF ThreadOK, Has
<1>8. ASSUME ~crossed PROVE Unmade(copies', w)
  <2>1. \A g \in Files : w.task[g] = IF g = f THEN t ELSE work[k].task[g]
    BY <1>1, <1>4 DEF Threads
  <2>2. Unmade(copies, work[k])
    BY <1>1, <1>8 DEF CloneInv, OneAtATime
  <2> QED BY <1>1, <1>4, <1>8, <2>1, <2>2, Lands DEF Unmade
<1>9. \/ copies' = copies
      \/ \E g \in Files : /\ copies' = Append(copies, [of |-> g, dir |-> w.dir]) /\ w.dir # 0
                          /\ ~crossed /\ UniqueName(g) => Absent(copies, g, w.dir)
  BY <1>4 DEF MayLand
<1> QED BY <1>0, <1>3, <1>4, <1>7, <1>8, <1>9, ThreadGoes

\* What is matched is held; what is not is to be copied.
LEMMA PlanInv ==
  ASSUME CloneInv, NEW k \in Attempts, NEW f \in Files, Plan(k, f) PROVE CloneInv'
<1>0. dirs \in Nat /\ dirs <= dirs
  BY AttemptNumbers DEF CloneInv
<1>1. /\ k \in DOMAIN work /\ work[k] \in Threads /\ ThreadOK(copies, dirs, work[k])
      /\ work[k].task[f] = "new" /\ f \in Stage(k) /\ work[k].step \notin Over
  BY AttemptNumbers DEF CloneInv, Plan, Task, Stage, ThreadAt, Over
<1>2. work[k].got[f] = 0 /\ work[k].ids[f] = 0
  BY <1>1 DEF ThreadOK, Tasked
<1>3. ~crossed => Unmade(copies, work[k])
  BY <1>1 DEF CloneInv, OneAtATime
<1>4. UNCHANGED <<dirs, copies, clone, post, crossed>>
  BY DEF Plan
<1>5. CASE Matches(k, f) = {} /\ Does(k, [work[k] EXCEPT !.task[f] = "todo"])
  <2>1. UniqueName(f) /\ work[k].resume => Absent(copies, f, work[k].dir)
    BY <1>1, <1>2, <1>5, NothingThere DEF Matches
  <2>2. ~crossed /\ UniqueName(f) => Absent(copies, f, work[k].dir)
    BY <1>1, <1>3, <2>1 DEF Unmade, Stage, ThreadAt
  <2> QED BY <1>1, <1>4, <1>5, <2>2, TaskOnly DEF MayLand
<1>6. ASSUME NEW c \in Matches(k, f), NEW w, Does(k, w),
             w = [work[k] EXCEPT !.task[f] = "held", !.got[f] = c, !.ids[f] = c, !.since = @ + 1]
      PROVE  CloneInv'
  <2>1. c \in Unclaimed(k) /\ NameOf[copies[c].of] = NameOf[f] /\ c \in Nat
    BY <1>1, <1>6, MatchesAre, AttemptNumbers DEF Unclaimed, CloneInv
  <2>2. /\ work[k].task \in [Files -> CopyTasks] /\ work[k].got \in [Files -> Nat]
        /\ work[k].ids \in [Files -> Nat]
    BY <1>1 DEF Threads, CloneIds
  <2>3. w = [work[k] EXCEPT !.task = [work[k].task EXCEPT ![f] = "held"],
                            !.got = [work[k].got EXCEPT ![f] = c],
                            !.ids = [work[k].ids EXCEPT ![f] = c], !.since = @ + 1]
    BY <1>6
  <2>4. /\ w \in Threads /\ w.task = [work[k].task EXCEPT ![f] = "held"]
        /\ w.got = [work[k].got EXCEPT ![f] = c] /\ w.ids = [work[k].ids EXCEPT ![f] = c]
        /\ w.step = work[k].step /\ w.resume = work[k].resume
        /\ w.dir = work[k].dir /\ w.prior = work[k].prior
    <3>1. /\ [work[k].task EXCEPT ![f] = "held"] \in [Files -> CopyTasks]
          /\ [work[k].got EXCEPT ![f] = c] \in CloneIds /\ [work[k].ids EXCEPT ![f] = c] \in CloneIds
          /\ work[k].since + 1 \in Nat
      BY <1>1, <2>1, <2>2 DEF CopyTasks, CloneIds, Threads
    <3> QED BY <1>1, <2>3, <3>1 DEF Threads
  <2>5. Has(copies, w) /\ c # 0
    BY <1>1, <1>2, <2>1, <2>4, Holding
  <2>6. Tasked(w) /\ Staged(w)
    BY <1>1, <2>2, <2>4, <2>5, TaskGoes DEF CopyTasks
  <2>7. ThreadOK(copies, dirs, w)
    BY <1>1, <2>4, <2>5, <2>6 DEF ThreadOK
  <2>8. ~crossed => Unmade(copies, w)
    BY <1>1, <1>3, <2>2, <2>4 DEF Unmade
  <2> QED BY <1>0, <1>1, <1>4, <1>6, <2>4, <2>7, <2>8, ThreadGoes DEF Does
<1> QED BY <1>5, <1>6 DEF Plan

\* A copy is asked for.
LEMMA SubmitInv ==
  ASSUME CloneInv, NEW k \in Attempts, NEW f \in Files, Submit(k, f) PROVE CloneInv'
<1>1. /\ k \in DOMAIN work /\ work[k] \in Threads /\ ThreadOK(copies, dirs, work[k])
      /\ work[k].task[f] = "todo" /\ work[k].step \notin Over
  BY AttemptNumbers DEF CloneInv, Submit, Task, Stage, ThreadAt, Over
<1>2. Does(k, [work[k] EXCEPT !.task[f] = "flight"]) /\ UNCHANGED <<dirs, copies, clone, post, crossed>>
  BY DEF Submit
<1>3. ~crossed /\ UniqueName(f) => Absent(copies, f, work[k].dir)
  BY <1>1 DEF CloneInv, OneAtATime, Unmade, Submit, Stage, ThreadAt
<1> QED BY <1>1, <1>2, <1>3, TaskOnly DEF MayLand

\* A file is copied: what lands is in the folder of the attempt.
LEMMA CopyFileInv ==
  ASSUME CloneInv, NEW k \in Attempts, NEW f \in Files, CopyFile(k, f) PROVE CloneInv'
<1>0. dirs \in Nat /\ dirs <= dirs
  BY AttemptNumbers DEF CloneInv
<1>1. /\ k \in DOMAIN work /\ work[k] \in Threads /\ ThreadOK(copies, dirs, work[k])
      /\ work[k].task[f] = "flight" /\ work[k].step \notin Over /\ work[k].dir \in Nat \ {0}
      /\ work[k].step # "folder"
  BY AttemptNumbers DEF CloneInv, CopyFile, Task, ThreadOK, Staged, Threads
<1>2. work[k].got[f] = 0 /\ UNCHANGED <<dirs, clone, post, crossed>>
  BY <1>1 DEF ThreadOK, Tasked, CopyFile
<1>3. ~crossed /\ UniqueName(f) => Absent(copies, f, work[k].dir)
  BY <1>1 DEF CloneInv, OneAtATime, Unmade
<1>4. Landed(k, f) => MayLand(work[k], f)
  BY <1>1, <1>3 DEF Landed, MayLand
<1>5. ASSUME copies' = copies \/ Landed(k, f), NEW t \in {"look", "failed"},
             Does(k, [work[k] EXCEPT !.task[f] = t])
      PROVE  CloneInv'
  <2>1. MayLand(work[k], f)
    BY <1>4, <1>5 DEF MayLand
  <2> QED BY <1>1, <1>2, <1>5, <2>1, TaskOnly
<1>6. ASSUME Landed(k, f), NEW w, Does(k, w),
             w = [work[k] EXCEPT !.task[f] = "answered", !.got[f] = Len(copies) + 1]
      PROVE  CloneInv'
  <2>1. /\ w = [work[k] EXCEPT !.task = [work[k].task EXCEPT ![f] = "answered"],
                              !.got = [work[k].got EXCEPT ![f] = Len(copies) + 1]]
        /\ Len(copies) + 1 \in Nat \ {0} /\ copies \in Seq(Copies)
    BY <1>6, AttemptNumbers DEF CloneInv, CloneTyped
  <2>2. /\ [work[k].task EXCEPT ![f] = "answered"] \in [Files -> CopyTasks]
        /\ [work[k].got EXCEPT ![f] = Len(copies) + 1] \in CloneIds
        /\ work[k].task \in [Files -> CopyTasks] /\ work[k].got \in [Files -> Nat]
    BY <1>1, <2>1 DEF CopyTasks, CloneIds, Threads
  <2>3. /\ w \in Threads /\ w.task = [work[k].task EXCEPT ![f] = "answered"]
        /\ w.got = [work[k].got EXCEPT ![f] = Len(copies) + 1] /\ w.ids = work[k].ids
        /\ w.step = work[k].step /\ w.resume = work[k].resume
        /\ w.dir = work[k].dir /\ w.prior = work[k].prior
    BY <1>1, <2>1, <2>2 DEF Threads
  <2>4. Tasked(w) /\ Staged(w)
    <3>1. w.got[f] # 0 /\ w.ids[f] = 0
      BY <1>1, <2>1, <2>2, <2>3 DEF ThreadOK, Tasked
    <3>2. /\ \A g \in Files : g # f => w.got[g] = work[k].got[g] /\ w.ids[g] = work[k].ids[g]
          /\ "answered" \in CopyTasks \ {"new"}
      BY <2>2, <2>3 DEF CopyTasks
    <3>3. /\ work[k].task[f] \notin {"held"} /\ (work[k].task[f] = "new" => f \in Stage(k))
          /\ w.ids[f] = IF "answered" = "held" THEN w.got[f] ELSE 0
          /\ "answered" \in {"answered", "held"} <=> w.got[f] # 0
      BY <1>1, <3>1
    <3>4. w \in Threads /\ w.task = [work[k].task EXCEPT ![f] = "answered"]
      BY <2>3
    <3>5. /\ w.step = work[k].step /\ w.resume = work[k].resume /\ w.dir = work[k].dir
          /\ w.prior = work[k].prior
      BY <2>3
    <3> QED BY <1>1, <3>2, <3>3, <3>4, <3>5, TaskGoes, ZenonT(60)
  <2>5. /\ DOMAIN copies' = DOMAIN copies \cup {Len(copies) + 1} /\ Len(copies) + 1 \notin DOMAIN copies
        /\ copies'[Len(copies) + 1] = [of |-> f, dir |-> work[k].dir]
        /\ Has(copies', work[k]) /\ IdsKnown(copies', work[k].prior)
    <3>1. [of |-> f, dir |-> work[k].dir] \in Copies
      BY <1>1 DEF Copies
    <3> QED BY <1>4, <1>6, <1>1, <2>1, <3>1, MoreCopies, Lands DEF Landed
  <2>6. Has(copies', w)
    <3>1. \A g \in Files : w.got[g] = IF g = f THEN Len(copies) + 1 ELSE work[k].got[g]
      BY <2>2, <2>3
    <3>2. \A g \in Files : work[k].got[g] # Len(copies) + 1
      BY <1>1, <2>1, <2>5 DEF ThreadOK, Has, Alike
    <3> QED BY <2>3, <2>5, <3>1, <3>2 DEF Has, Alike
  <2>7. ThreadOK(copies', dirs, w)
    BY <1>1, <2>3, <2>4, <2>5, <2>6 DEF ThreadOK
  <2>8. ASSUME ~crossed PROVE Unmade(copies', w)
    <3>1. \A g \in Files : w.task[g] = IF g = f THEN "answered" ELSE work[k].task[g]
      BY <2>2, <2>3
    <3>2. Unmade(copies, work[k])
      BY <1>1, <2>8 DEF CloneInv, OneAtATime
    <3> QED BY <1>1, <1>4, <1>6, <2>3, <3>1, <3>2, Lands DEF Unmade
  <2>9. copies' = Append(copies, [of |-> f, dir |-> w.dir]) /\ w.dir # 0
    BY <1>1, <1>6, <2>3 DEF Landed
  <2> QED BY <1>0, <1>1, <1>2, <1>3, <1>6, <2>3, <2>7, <2>8, <2>9, ThreadGoes, ZenonT(60) DEF Does
<1>7. Unsure(k, f) => \E t \in {"look", "failed"} : Does(k, [work[k] EXCEPT !.task[f] = t])
  BY DEF Unsure
<1> QED BY <1>5, <1>6, <1>7 DEF CopyFile

\* What a look finds is the answer that was lost.
LEMMA LookBackInv ==
  ASSUME CloneInv, NEW k \in Attempts, NEW f \in Files, LookBack(k, f) PROVE CloneInv'
<1>0. dirs \in Nat /\ dirs <= dirs
  BY AttemptNumbers DEF CloneInv
<1>1. /\ k \in DOMAIN work /\ work[k] \in Threads /\ ThreadOK(copies, dirs, work[k])
      /\ work[k].task[f] = "look" /\ work[k].step \notin Over
  BY AttemptNumbers DEF CloneInv, LookBack, Task
<1>2. work[k].got[f] = 0 /\ UNCHANGED <<dirs, copies, clone, post, crossed>>
  BY <1>1 DEF ThreadOK, Tasked, LookBack
<1>3. ASSUME ByName(k, f) = {}, NEW t \in {"flight", "failed"},
             Does(k, [work[k] EXCEPT !.task[f] = t])
      PROVE  CloneInv'
  <2>1. UniqueName(f) => Absent(copies, f, work[k].dir)
    BY <1>1, <1>2, <1>3, NothingThere
  <2> QED BY <1>1, <1>2, <1>3, <2>1, TaskOnly DEF MayLand
<1>4. ASSUME NEW c \in ByName(k, f), NEW w, Does(k, w),
             w = [work[k] EXCEPT !.task[f] = "answered", !.got[f] = c]
      PROVE  CloneInv'
  <2>1. c \in Unclaimed(k) /\ NameOf[copies[c].of] = NameOf[f] /\ c \in Nat
    BY <1>1, <1>4, AttemptNumbers DEF ByName, Unclaimed, CloneInv
  <2>2. /\ w = [work[k] EXCEPT !.task = [work[k].task EXCEPT ![f] = "answered"],
                              !.got = [work[k].got EXCEPT ![f] = c]]
        /\ [work[k].task EXCEPT ![f] = "answered"] \in [Files -> CopyTasks]
        /\ [work[k].got EXCEPT ![f] = c] \in CloneIds
        /\ work[k].task \in [Files -> CopyTasks] /\ work[k].got \in [Files -> Nat]
    BY <1>1, <1>4, <2>1 DEF CopyTasks, CloneIds, Threads
  <2>3. /\ w \in Threads /\ w.task = [work[k].task EXCEPT ![f] = "answered"]
        /\ w.got = [work[k].got EXCEPT ![f] = c] /\ w.ids = work[k].ids
        /\ w.step = work[k].step /\ w.resume = work[k].resume
        /\ w.dir = work[k].dir /\ w.prior = work[k].prior
    BY <1>1, <2>2 DEF Threads
  <2>4. Has(copies, w) /\ c # 0
    BY <1>1, <1>2, <2>1, <2>3, Holding
  <2>5. Tasked(w) /\ Staged(w)
    <3>1. w.got[f] # 0 /\ w.ids[f] = 0
      BY <1>1, <2>2, <2>3, <2>4 DEF ThreadOK, Tasked
    <3>2. /\ \A g \in Files : g # f => w.got[g] = work[k].got[g] /\ w.ids[g] = work[k].ids[g]
          /\ "answered" \in CopyTasks \ {"new"}
      BY <2>2, <2>3 DEF CopyTasks
    <3>3. /\ work[k].task[f] \notin {"held"} /\ (work[k].task[f] = "new" => f \in Stage(k))
          /\ w.ids[f] = IF "answered" = "held" THEN w.got[f] ELSE 0
          /\ "answered" \in {"answered", "held"} <=> w.got[f] # 0
      BY <1>1, <3>1
    <3>4. w \in Threads /\ w.task = [work[k].task EXCEPT ![f] = "answered"]
      BY <2>3
    <3>5. /\ w.step = work[k].step /\ w.resume = work[k].resume /\ w.dir = work[k].dir
          /\ w.prior = work[k].prior
      BY <2>3
    <3> QED BY <1>1, <3>2, <3>3, <3>4, <3>5, TaskGoes, ZenonT(60)
  <2>6. ThreadOK(copies, dirs, w)
    BY <1>1, <2>3, <2>4, <2>5 DEF ThreadOK
  <2>7. ASSUME ~crossed PROVE Unmade(copies, w)
    <3>1. \A g \in Files : w.task[g] = IF g = f THEN "answered" ELSE work[k].task[g]
      BY <2>2, <2>3
    <3>2. Unmade(copies, work[k])
      BY <1>1, <2>7 DEF CloneInv, OneAtATime
    <3> QED BY <2>3, <3>1, <3>2 DEF Unmade
  <2> QED BY <1>0, <1>1, <1>2, <1>4, <2>3, <2>6, <2>7, ThreadGoes DEF Does
<1> QED BY <1>3, <1>4 DEF LookBack

\* The ids a thread records lead to copies of their names.
LEMMA IdsRecorded ==
  ASSUME NEW cs, NEW w \in Threads, Has(cs, w), Tasked(w)
  PROVE  IdsKnown(cs, w.ids) /\ w.ids \in CloneIds
<1>1. w.ids \in CloneIds
  BY DEF Threads
<1>2. \A f \in Files : w.ids[f] # 0 => w.ids[f] = w.got[f]
  BY DEF Tasked
<1> QED BY <1>1, <1>2 DEF IdsKnown, Has

\* An answer is taken, and saved now and then.
LEMMA TakeAnswerInv ==
  ASSUME CloneInv, NEW k \in Attempts, NEW f \in Files, TakeAnswer(k, f) PROVE CloneInv'
<1>0. dirs \in Nat /\ dirs <= dirs
  BY AttemptNumbers DEF CloneInv
<1>1. /\ k \in DOMAIN work /\ work[k] \in Threads /\ clone[k] \in CloneRows
      /\ ThreadOK(copies, dirs, work[k]) /\ CloneRowOK(copies, clone[k], work[k])
      /\ work[k].task[f] = "answered" /\ work[k].step \notin Over
  BY AttemptNumbers DEF CloneInv, TakeAnswer, Task
<1>2. UNCHANGED <<dirs, copies, post, crossed>>
  BY DEF TakeAnswer
<1>3. PICK ids : ids = [work[k].ids EXCEPT ![f] = work[k].got[f]]
  OBVIOUS
<1>4a. PICK since \in Nat : /\ Does(k, [work[k] EXCEPT !.task[f] = "held", !.ids = ids, !.since = since])
                           /\ \/ clone' = clone
                              \/ PutRow(k, [clone[k] EXCEPT !.ids = ids, !.silent = FALSE])
  <2>1. PICK since : since = work[k].since
    OBVIOUS
  <2>2. since \in Nat /\ since + 1 \in Nat /\ 0 \in Nat
    BY <1>1, <2>1 DEF Threads
  <2>3. CASE work[k].since + 1 >= Every
    BY <1>3, <2>2, <2>3 DEF TakeAnswer
  <2>4. CASE ~(work[k].since + 1 >= Every)
    BY <1>3, <2>1, <2>2, <2>4 DEF TakeAnswer
  <2> QED BY <2>3, <2>4
<1>4b. PICK w : w = [work[k] EXCEPT !.task[f] = "held", !.ids = ids, !.since = since]
  OBVIOUS
<1>4. /\ w = [work[k] EXCEPT !.task[f] = "held", !.ids = ids, !.since = since] /\ Does(k, w)
      /\ clone' = clone \/ PutRow(k, [clone[k] EXCEPT !.ids = ids, !.silent = FALSE])
  BY <1>4a, <1>4b
<1>5. /\ w = [work[k] EXCEPT !.task = [work[k].task EXCEPT ![f] = "held"], !.ids = ids, !.since = since]
      /\ [work[k].task EXCEPT ![f] = "held"] \in [Files -> CopyTasks] /\ ids \in CloneIds
      /\ work[k].task \in [Files -> CopyTasks] /\ work[k].ids \in [Files -> Nat]
  BY <1>1, <1>3, <1>4 DEF CopyTasks, CloneIds, Threads
<1>6. /\ w \in Threads /\ w.task = [work[k].task EXCEPT ![f] = "held"]
      /\ w.got = work[k].got /\ w.ids = ids
      /\ w.step = work[k].step /\ w.resume = work[k].resume
      /\ w.dir = work[k].dir /\ w.prior = work[k].prior
  BY <1>1, <1>5 DEF Threads
<1>7. Tasked(w) /\ Staged(w)
  <2>1. w.got[f] # 0 /\ w.ids[f] = w.got[f]
    BY <1>1, <1>3, <1>5, <1>6 DEF ThreadOK, Tasked
  <2>2. /\ \A g \in Files : g # f => w.got[g] = work[k].got[g] /\ w.ids[g] = work[k].ids[g]
        /\ "held" \in CopyTasks \ {"new"}
    BY <1>3, <1>5, <1>6 DEF CopyTasks
  <2> QED BY <1>1, <1>6, <2>1, <2>2, TaskGoes
<1>8. Has(copies, w)
  BY <1>1, <1>6 DEF ThreadOK, Has
<1>9. ThreadOK(copies, dirs, w)
  BY <1>1, <1>6, <1>7, <1>8 DEF ThreadOK
<1>10. ASSUME ~crossed PROVE Unmade(copies, w)
  <2>1. \A g \in Files : w.task[g] = IF g = f THEN "held" ELSE work[k].task[g]
    BY <1>5, <1>6
  <2>2. Unmade(copies, work[k])
    BY <1>1, <1>10 DEF CloneInv, OneAtATime
  <2> QED BY <1>6, <2>1, <2>2 DEF Unmade
<1>11. ASSUME NEW r, r = [clone[k] EXCEPT !.ids = ids, !.silent = FALSE]
       PROVE  r \in CloneRows /\ CloneRowOK(copies, r, w)
  <2>1. r \in CloneRows /\ r.ids = w.ids /\ r.status # "done"
    BY <1>1, <1>5, <1>6, <1>11 DEF CloneRows, CloneRowOK, Over
  <2> QED BY <1>6, <1>7, <1>8, <2>1, IdsRecorded DEF CloneRowOK
<1> QED BY <1>0, <1>1, <1>2, <1>4, <1>6, <1>9, <1>10, <1>11, ThreadGoes DEF Does, PutRow

\* A thread that only goes on to another step.
LEMMA StepOnly ==
  ASSUME CloneInv, NEW k \in DOMAIN work, work[k].step \notin Over,
         NEW s \in {"rest", "links"} \cup Over, Does(k, [work[k] EXCEPT !.step = s]),
         UNCHANGED <<dirs, copies, post, crossed>>,
         s \notin Over => /\ work[k].step # "folder"
                         /\ work[k].task[State] = "held"
                         /\ (s = "links" => \A f \in Files : work[k].task[f] = "held"),
         \/ clone' = clone
         \/ \E status \in {"error", "done"} :
              /\ PutRow(k, [clone[k] EXCEPT !.status = status, !.ids = work[k].ids, !.silent = FALSE])
              /\ status = "done" => s = "ended" /\ \A f \in Files : work[k].task[f] = "held"
  PROVE  CloneInv'
<1>0. dirs \in Nat /\ dirs <= dirs
  BY AttemptNumbers DEF CloneInv
<1>1. /\ work[k] \in Threads /\ clone[k] \in CloneRows /\ ThreadOK(copies, dirs, work[k])
  BY AttemptNumbers DEF CloneInv
<1>2. PICK w : w = [work[k] EXCEPT !.step = s]
  OBVIOUS
<1>3. /\ w \in Threads /\ w.step = s /\ w.got = work[k].got /\ w.ids = work[k].ids
      /\ w.task = work[k].task /\ w.resume = work[k].resume
      /\ w.dir = work[k].dir /\ w.prior = work[k].prior
  BY <1>1, <1>2 DEF Threads, Over
<1>4. Tasked(w) /\ Has(copies, w)
  BY <1>1, <1>3 DEF ThreadOK, Tasked, Has
<1>5. Staged(w)
  <2>1. CASE s \in Over
    BY <1>3, <2>1 DEF Staged, Over
  <2>2. CASE s \notin Over
    <3>1. s \in {"rest", "links"} /\ work[k].dir # 0
      BY <1>1, <2>2 DEF ThreadOK, Staged
    <3> QED BY <1>3, <2>2, <3>1 DEF Staged
  <2> QED BY <2>1, <2>2
<1>6. ThreadOK(copies, dirs, w)
  BY <1>1, <1>3, <1>4, <1>5 DEF ThreadOK
<1>7. ~crossed => Unmade(copies, w)
  <2>1. ~crossed => Unmade(copies, work[k])
    BY DEF CloneInv, OneAtATime
  <2>2. CASE s \in Over
    BY <1>3, <2>2 DEF Unmade
  <2>3. CASE s \notin Over
    BY <1>3, <2>1, <2>3 DEF Unmade
  <2> QED BY <2>2, <2>3
<1>8. ASSUME NEW status \in {"error", "done"}, NEW r,
             r = [clone[k] EXCEPT !.status = status, !.ids = work[k].ids, !.silent = FALSE],
             status = "done" => s = "ended" /\ \A f \in Files : work[k].task[f] = "held"
      PROVE  r \in CloneRows /\ CloneRowOK(copies, r, w)
  <2>1. IdsKnown(copies, w.ids) /\ w.ids \in CloneIds
    BY <1>3, <1>4, IdsRecorded
  <2>2. r \in CloneRows /\ r.ids = w.ids /\ r.status = status
    BY <1>1, <1>3, <1>8, <2>1 DEF CloneRows
  <2> QED BY <1>3, <1>8, <2>1, <2>2 DEF CloneRowOK
<1> QED BY <1>0, <1>1, <1>2, <1>3, <1>6, <1>7, <1>8, ThreadGoes DEF Does, PutRow

\* From run_state.yaml to the rest, from the rest to the links.
LEMMA AdvanceInv == ASSUME CloneInv, NEW k \in Attempts, Advance(k) PROVE CloneInv'
<1>0. k \in Attempts
  BY DEF Attempts
<1>1. /\ k \in DOMAIN work /\ work[k] \in Threads /\ Staged(work[k])
      /\ work[k].step \in {"state", "rest"} /\ \A f \in Stage(k) : work[k].task[f] = "held"
  BY AttemptNumbers DEF CloneInv, Advance, Stage, ThreadAt, ThreadOK, Task
<1>2. PICK s : s = IF ThreadAt(k, "state") THEN "rest" ELSE "links"
  OBVIOUS
<1>3. Does(k, [work[k] EXCEPT !.step = s]) /\ UNCHANGED <<dirs, copies, clone, post, crossed>>
  BY <1>2 DEF Advance
<1>4. work[k].task[State] = "held" /\ (s = "links" => \A f \in Files : work[k].task[f] = "held")
  <2>1. CASE work[k].step = "state"
    <3>1. k \in Attempts /\ s = "rest" /\ Stage(k) = {State}
      BY <1>2, <1>0, <2>1 DEF Stage, ThreadAt
    <3> QED BY <1>1, <3>1
  <2>2. CASE work[k].step = "rest"
    <3>1. Stage(k) = Files \ {State}
      BY <1>0, <2>2 DEF Stage, ThreadAt
    <3>2. work[k].task[State] = "held"
      BY <1>1, <2>2 DEF Staged
    <3> QED BY <1>1, <3>1, <3>2
  <2> QED BY <1>1, <2>1, <2>2
<1> QED BY <1>1, <1>2, <1>3, <1>4, StepOnly DEF Over

\* An attempt that fails keeps its ids.
LEMMA RaiseInv == ASSUME CloneInv, NEW k \in Attempts, Raise(k) PROVE CloneInv'
<1>1. k \in DOMAIN work /\ Stage(k) # {} /\ Finishes(k, "error")
  BY AttemptNumbers DEF CloneInv, Raise
<1>2. work[k].step \in {"state", "rest"}
  BY <1>1 DEF Stage, ThreadAt
<1>3. work[k].step \notin Over
  BY <1>2 DEF Over
<1> QED BY <1>1, <1>3, StepOnly DEF Finishes, Over

\* An attempt that ends well held every file.
LEMMA LinksInv == ASSUME CloneInv, NEW k \in Attempts, Links(k) PROVE CloneInv'
<1>1. /\ k \in DOMAIN work /\ work[k].step = "links" /\ \A f \in Files : work[k].task[f] = "held"
  BY AttemptNumbers DEF CloneInv, Links, ThreadAt, ThreadOK, Staged
<1>2. PICK status \in {"error", "done"} : Finishes(k, status)
  BY DEF Links
<1> QED BY <1>1, <1>2, StepOnly DEF Finishes, Over

\* A thread dies with what it had in flight.
LEMMA ThreadDiesInv == ASSUME CloneInv, NEW k \in Attempts, ThreadDies(k) PROVE CloneInv'
<1>1. k \in DOMAIN work /\ work[k].step \notin Over
  BY AttemptNumbers DEF CloneInv, ThreadDies
<1> QED BY <1>1, StepOnly DEF ThreadDies, Over

\* The run's folder in the target workspace: a new one is empty.
LEMMA FolderInv == ASSUME CloneInv, NEW k \in Attempts, Folder(k) PROVE CloneInv'
<1>1. /\ k \in DOMAIN work /\ work[k] \in Threads /\ ThreadOK(copies, dirs, work[k])
      /\ work[k].step = "folder" /\ dirs \in Nat
  BY AttemptNumbers DEF CloneInv, Folder, ThreadAt
<1>2. PICK new \in BOOLEAN : new <=> work[k].dir = 0
  OBVIOUS
<1>3. PICK w : w = [work[k] EXCEPT !.step = "state", !.dir = IF new THEN dirs + 1 ELSE work[k].dir,
                                 !.resume = work[k].resume /\ ~new]
  OBVIOUS
<1>4. /\ Does(k, w) /\ dirs' = (IF new THEN dirs + 1 ELSE dirs)
      /\ UNCHANGED <<copies, clone, post, crossed>>
  BY <1>2, <1>3 DEF Folder
<1>5. /\ w \in Threads /\ w.step = "state" /\ w.got = work[k].got /\ w.ids = work[k].ids
      /\ w.task = work[k].task /\ w.prior = work[k].prior
      /\ w.dir = IF new THEN dirs + 1 ELSE work[k].dir
      /\ w.resume <=> (work[k].resume /\ ~new)
  <2>1. PICK resume \in BOOLEAN : resume = (work[k].resume /\ ~new)
    BY <1>1, <1>2
  <2>2. PICK dir \in Nat : dir = IF new THEN dirs + 1 ELSE work[k].dir
    BY <1>1 DEF Threads
  <2>3. w = [work[k] EXCEPT !.step = "state", !.dir = dir, !.resume = resume]
    BY <1>3, <2>1, <2>2
  <2> QED BY <1>1, <2>1, <2>2, <2>3 DEF Threads
<1>6. \A f \in Files : w.task[f] = "new" /\ w.got[f] = 0
  BY <1>1, <1>5 DEF ThreadOK, Staged, Tasked
<1>7. Tasked(w) /\ Has(copies, w)
  BY <1>1, <1>5, <1>6 DEF ThreadOK, Tasked, Has
<1>8. Staged(w)
  BY <1>1, <1>2, <1>5, <1>6 DEF Staged
<1>9. ThreadOK(copies, dirs', w)
  BY <1>1, <1>4, <1>5, <1>7, <1>8 DEF ThreadOK, Threads
<1>10. Unmade(copies, w)
  <2>1. \A f \in Files : new => Absent(copies, f, dirs + 1)
    <3>1. \A c \in DOMAIN copies : copies[c].dir \in Nat /\ copies[c].dir <= dirs
      BY AttemptNumbers DEF CloneInv, Copies
    <3> QED BY <1>1, <3>1 DEF Absent
  <2>2. ~new => w.resume
    BY <1>1, <1>2, <1>5 DEF ThreadOK, Staged
  <2> QED BY <1>5, <1>6, <2>1, <2>2 DEF Unmade
<1>11. dirs' \in Nat /\ dirs <= dirs'
  BY <1>1, <1>4
<1> QED BY <1>1, <1>4, <1>5, <1>9, <1>10, <1>11, ThreadGoes DEF Does, Over

\* A row falls silent.
LEMMA SilenceInv == ASSUME CloneInv, NEW k \in Attempts, Silence(k) PROVE CloneInv'
<1>1. /\ k \in DOMAIN work /\ CloneTyped /\ clone[k] \in CloneRows
      /\ CloneRowOK(copies, clone[k], work[k]) /\ DOMAIN work = DOMAIN clone
  BY AttemptNumbers DEF CloneInv
<1>2. PICK r : r = [clone[k] EXCEPT !.silent = TRUE]
  OBVIOUS
<1>3. /\ clone' = [clone EXCEPT ![k] = r] /\ clone[k].status = "copying"
      /\ UNCHANGED <<dirs, copies, work, post, crossed>>
  BY <1>2 DEF Silence, PutRow
<1>4. r \in CloneRows /\ r.ids = clone[k].ids /\ r.status = "copying"
  BY <1>1, <1>2, <1>3 DEF CloneRows
<1>5. /\ clone' \in Seq(CloneRows) /\ Len(clone') = Len(clone)
      /\ \A j \in DOMAIN work : clone'[j] = IF j = k THEN r ELSE clone[j]
  BY <1>1, <1>3, <1>4 DEF CloneTyped
<1>6. \A j \in DOMAIN work : CloneRowOK(copies, clone'[j], work[j])
  BY <1>1, <1>4, <1>5 DEF CloneInv, CloneRowOK
<1>7. CloneTyped'
  BY <1>1, <1>3, <1>5 DEF CloneTyped
<1>8. \A p \in Requests : PostOK(p)'
  BY <1>3, <1>5 DEF CloneInv, PostOK
<1> QED BY <1>3, <1>6, <1>7, <1>8 DEF CloneInv, OneAtATime

\* A request finds the last attempt, and a folder there is.
LEMMA PostInv == ASSUME CloneInv, NEW p \in Requests, Post(p) PROVE CloneInv'
<1>1. CloneTyped /\ dirs \in Nat /\ Len(clone) \in Nat
  BY AttemptNumbers DEF CloneInv, CloneTyped
<1>2. PICK d \in IF dirs = 0 THEN {0} ELSE 1..dirs :
        /\ d # 0 => Resumable
        /\ post' = [post EXCEPT ![p] = [from |-> IF Resumable THEN Last ELSE 0, dir |-> d, open |-> TRUE]]
  BY DEF Post
<1>3. d \in Nat /\ d <= dirs
  BY <1>1
<1>4. PICK found : found = [from |-> IF Resumable THEN Last ELSE 0, dir |-> d, open |-> TRUE]
  OBVIOUS
<1>5. /\ found \in Posts /\ found.from <= Len(clone) /\ found.dir = d
      /\ d # 0 => found.from # 0
  BY <1>1, <1>2, <1>3, <1>4 DEF Posts, Last, Resumable
<1>6. /\ post' \in [Requests -> Posts]
      /\ \A q \in Requests : post'[q] = IF q = p THEN found ELSE post[q]
  BY <1>1, <1>2, <1>4, <1>5 DEF CloneTyped
<1>7. UNCHANGED <<dirs, copies, clone, work, crossed>>
  BY DEF Post
<1>8. \A q \in Requests : PostOK(q)'
  BY <1>3, <1>5, <1>6, <1>7 DEF CloneInv, PostOK
<1>9. CloneTyped'
  BY <1>1, <1>6, <1>7 DEF CloneTyped
<1> QED BY <1>7, <1>8, <1>9 DEF CloneInv, OneAtATime

\* An attempt that was abandoned keeps its ids, and did not end well.
LEMMA AbandonedIs ==
  ASSUME CloneInv, NEW from \in Nat, from <= Len(clone)
  PROVE  /\ Abandoned(from) \in Seq(CloneRows) /\ Len(Abandoned(from)) = Len(clone)
         /\ \A j \in DOMAIN work : CloneRowOK(copies, Abandoned(from)[j], work[j])
<1>1. CloneTyped /\ DOMAIN work = DOMAIN clone /\ clone \in Seq(CloneRows)
  BY AttemptNumbers DEF CloneInv, CloneTyped
<1>2. CASE Abandoned(from) = clone
  BY <1>1, <1>2 DEF CloneInv
<1>3. CASE Abandoned(from) # clone
  <2>1. from # 0 /\ Abandoned(from) = [clone EXCEPT ![from].status = "error"]
    BY <1>3 DEF Abandoned
  <2>2. from \in DOMAIN clone /\ clone[from] \in CloneRows
    BY <1>1, <2>1
  <2>3. PICK r : r = [clone[from] EXCEPT !.status = "error"]
    OBVIOUS
  <2>4. r \in CloneRows /\ r.ids = clone[from].ids /\ r.status = "error"
    BY <2>2, <2>3 DEF CloneRows
  <2>5. Abandoned(from) = [clone EXCEPT ![from] = r]
    BY <2>1, <2>2, <2>3
  <2>6. /\ Abandoned(from) \in Seq(CloneRows) /\ Len(Abandoned(from)) = Len(clone)
        /\ \A j \in DOMAIN work : Abandoned(from)[j] = IF j = from THEN r ELSE clone[j]
    BY <1>1, <2>2, <2>4, <2>5
  <2> QED BY <1>1, <2>2, <2>4, <2>6 DEF CloneInv, CloneRowOK
<1> QED BY <1>2, <1>3

\* A new attempt knows what the one it resumes recorded.
LEMMA CreateInv == ASSUME CloneInv, NEW p \in Requests, Create(p) PROVE CloneInv'
<1>1. /\ CloneTyped /\ DOMAIN work = DOMAIN clone /\ DOMAIN clone = 1..Len(work) /\ Len(work) \in Nat
      /\ dirs \in Nat /\ Attempts = DOMAIN work
  BY AttemptNumbers DEF CloneInv
<1>2. PICK from, dir : from = post[p].from /\ dir = post[p].dir
  OBVIOUS
<1>3. /\ from \in Nat /\ from <= Len(clone) /\ dir \in Nat /\ dir <= dirs /\ (dir # 0 => from # 0)
  BY <1>1, <1>2 DEF CloneInv, PostOK, CloneTyped, Posts
<1>4. PICK prior : prior = IF from = 0 THEN NoIds ELSE clone[from].ids
  OBVIOUS
<1>5. prior \in CloneIds /\ IdsKnown(copies, prior)
  <2>1. CASE from = 0
    BY <1>4, <2>1 DEF NoIds, CloneIds, IdsKnown
  <2>2. CASE from # 0
    <3>1. from \in DOMAIN work /\ clone[from] \in CloneRows /\ CloneRowOK(copies, clone[from], work[from])
      BY <1>1, <1>3, <2>2, AttemptNumbers DEF CloneInv, CloneTyped
    <3> QED BY <1>4, <2>2, <3>1 DEF CloneRows, CloneRowOK
  <2> QED BY <2>1, <2>2
<1>6. PICK r, w : /\ r = [status |-> "copying", ids |-> prior, silent |-> FALSE]
                 /\ w = [step |-> "folder", resume |-> from # 0, dir |-> dir, prior |-> prior,
                         ids |-> NoIds, got |-> NoIds, task |-> [f \in Files |-> "new"], since |-> 0]
  OBVIOUS
<1>7. /\ clone' = Append(Abandoned(from), r) /\ work' = Append(work, w)
      /\ post' = [post EXCEPT ![p] = NoPost]
      /\ crossed' = (crossed \/ \E k \in Attempts : work[k].step \notin Over)
      /\ UNCHANGED <<dirs, copies>>
  BY <1>2, <1>4, <1>6 DEF Create
<1>8. r \in CloneRows /\ r.ids = prior /\ r.status = "copying"
  BY <1>5, <1>6 DEF CloneRows
<1>9. /\ w \in Threads /\ w.step = "folder" /\ w.dir = dir /\ w.prior = prior
      /\ (dir # 0 => w.resume) /\ \A f \in Files : w.task[f] = "new" /\ w.got[f] = 0 /\ w.ids[f] = 0
  <2>1. NoIds \in CloneIds /\ [f \in Files |-> "new"] \in [Files -> CopyTasks]
    BY DEF NoIds, CloneIds, CopyTasks
  <2>2. PICK resume \in BOOLEAN : resume = (from # 0)
    OBVIOUS
  <2>3. w = [step |-> "folder", resume |-> resume, dir |-> dir, prior |-> prior,
             ids |-> NoIds, got |-> NoIds, task |-> [f \in Files |-> "new"], since |-> 0]
    BY <1>6, <2>2
  <2> QED BY <1>3, <1>5, <2>1, <2>2, <2>3 DEF Threads, NoIds
<1>10. /\ Abandoned(from) \in Seq(CloneRows) /\ Len(Abandoned(from)) = Len(clone)
       /\ \A j \in DOMAIN work : CloneRowOK(copies, Abandoned(from)[j], work[j])
  BY <1>3, AbandonedIs
<1>11. /\ clone' \in Seq(CloneRows) /\ work' \in Seq(Threads)
       /\ Len(clone') = Len(clone) + 1 /\ Len(work') = Len(work) + 1 /\ Len(clone) = Len(work)
       /\ DOMAIN work' = DOMAIN work \cup {Len(work) + 1} /\ Len(work) + 1 \notin DOMAIN work
       /\ work'[Len(work) + 1] = w /\ clone'[Len(work) + 1] = r
       /\ \A j \in DOMAIN work : work'[j] = work[j] /\ clone'[j] = Abandoned(from)[j]
  BY <1>1, <1>7, <1>8, <1>9, <1>10 DEF CloneTyped
<1>12. ThreadOK(copies, dirs, w) /\ CloneRowOK(copies, r, w)
  BY <1>3, <1>5, <1>8, <1>9 DEF ThreadOK, CloneRowOK, Has, Tasked, Staged, Over
<1>13. \A j \in DOMAIN work' : ThreadOK(copies, dirs, work'[j]) /\ CloneRowOK(copies, clone'[j], work'[j])
  BY <1>10, <1>11, <1>12 DEF CloneInv
<1>14. /\ post' \in [Requests -> Posts]
       /\ \A q \in Requests : post'[q] = IF q = p THEN NoPost ELSE post[q]
  BY <1>1, <1>7 DEF CloneTyped, NoPost, Posts
<1>15. \A q \in Requests : PostOK(q)'
  <2>1. \A q \in Requests : post[q].from \in Nat /\ Len(clone) \in Nat
    BY <1>1 DEF CloneTyped, Posts
  <2> QED BY <1>1, <1>7, <1>11, <1>14, <2>1 DEF CloneInv, PostOK, NoPost
<1>16. CloneTyped'
  <2>1. crossed' \in BOOLEAN
    BY <1>7
  <2> QED BY <1>1, <1>7, <1>11, <1>14, <2>1 DEF CloneTyped
<1>17. (~crossed => OneAtATime)'
  <2>1. ASSUME ~crossed' PROVE Single(copies) /\ \A j \in DOMAIN work : work[j].step \in Over
    BY <1>1, <1>7, <2>1 DEF CloneInv, OneAtATime
  <2>2. Unmade(copies, w)
    BY <1>9 DEF Unmade
  <2> QED BY <1>7, <1>11, <2>1, <2>2 DEF OneAtATime
<1> QED BY <1>7, <1>13, <1>15, <1>16, <1>17 DEF CloneInv

\* There is nothing at first.
LEMMA CloneInitInv == CloneInit => CloneInv
<1> SUFFICES ASSUME CloneInit PROVE CloneInv
  OBVIOUS
<1>1. NoPost \in Posts /\ NoPost.from = 0 /\ NoPost.dir = 0
  BY DEF NoPost, Posts
<1>2. /\ CloneTyped /\ DOMAIN work = {} /\ DOMAIN copies = {}
  <2>1. post \in [Requests -> Posts] /\ dirs \in Nat /\ crossed \in BOOLEAN
    BY <1>1 DEF CloneInit
  <2>2. /\ copies = <<>> /\ clone = <<>> /\ work = <<>>
        /\ copies \in Seq(Copies) /\ clone \in Seq(CloneRows) /\ work \in Seq(Threads)
    BY DEF CloneInit
  <2>3. DOMAIN work = {} /\ DOMAIN copies = {} /\ Len(work) = Len(clone)
    BY <2>2
  <2> QED BY <2>1, <2>2, <2>3 DEF CloneTyped
<1>3. \A p \in Requests : PostOK(p)
  BY <1>1 DEF CloneInit, PostOK
<1> QED BY <1>2, <1>3 DEF CloneInv, OneAtATime, Single

\* Every step.
LEMMA CloneStepInv == CloneInv /\ [CloneNext]_cloneVars => CloneInv'
<1> SUFFICES ASSUME CloneInv, [CloneNext]_cloneVars PROVE CloneInv'
  OBVIOUS
<1>1. CASE UNCHANGED cloneVars
  BY <1>1 DEF cloneVars, CloneInv, CloneTyped, PostOK, OneAtATime
<1>2. ASSUME NEW p \in Requests, Post(p) \/ Create(p) PROVE CloneInv'
  BY <1>2, PostInv, CreateInv
<1>3. ASSUME NEW k \in Attempts,
             Folder(k) \/ Advance(k) \/ Raise(k) \/ Links(k) \/ ThreadDies(k) \/ Silence(k)
      PROVE  CloneInv'
  BY <1>3, FolderInv, AdvanceInv, RaiseInv, LinksInv, ThreadDiesInv, SilenceInv
<1>4. ASSUME NEW k \in Attempts, NEW f \in Files,
             Plan(k, f) \/ Submit(k, f) \/ CopyFile(k, f) \/ LookBack(k, f) \/ TakeAnswer(k, f)
      PROVE  CloneInv'
  BY <1>4, PlanInv, SubmitInv, CopyFileInv, LookBackInv, TakeAnswerInv
<1> QED BY <1>1, <1>2, <1>3, <1>4 DEF CloneNext

\* However answers get lost, copies fail and threads die, and whatever is
\* resumed, as long as no two attempts are under way at once: a clone that says
\* done has every file, told apart, and once each that has its name to itself.
THEOREM ClonesAreWhole == CloneSpec => []DoneIsWhole
<1>1. CloneInv => DoneIsWhole
  <2> SUFFICES ASSUME CloneInv, NEW k \in Attempts, clone[k].status = "done", ~crossed, NEW f \in Files,
                      NEW c, c = clone[k].ids[f]
               PROVE  /\ c \in DOMAIN copies /\ copies[c].dir = work[k].dir
                      /\ NameOf[copies[c].of] = NameOf[f]
                      /\ \A g \in Files : clone[k].ids[g] = c => g = f
                      /\ UniqueName(f) => CopiesOf(f, work[k].dir) = {c}
    BY DEF DoneIsWhole
  <2>1. /\ k \in DOMAIN work /\ ThreadOK(copies, dirs, work[k]) /\ CloneRowOK(copies, clone[k], work[k])
        /\ Single(copies) /\ \A e \in DOMAIN copies : copies[e] \in Copies
    BY AttemptNumbers DEF CloneInv, OneAtATime
  <2>2. \A g \in Files : clone[k].ids[g] = work[k].got[g] /\ work[k].got[g] # 0
    BY <2>1 DEF ThreadOK, CloneRowOK, Tasked
  <2>3. /\ c \in DOMAIN copies /\ copies[c].dir = work[k].dir /\ NameOf[copies[c].of] = NameOf[f]
        /\ \A g \in Files : clone[k].ids[g] = c => g = f
    BY <2>1, <2>2 DEF ThreadOK, Has, Alike
  <2>4. ASSUME UniqueName(f) PROVE CopiesOf(f, work[k].dir) = {c}
    <3>1. copies[c] = [of |-> f, dir |-> work[k].dir]
      BY <2>1, <2>3, <2>4 DEF UniqueName, Copies
    <3>2. \A e \in DOMAIN copies : copies[e] = [of |-> f, dir |-> work[k].dir] => e = c
      BY <2>1, <2>3, <2>4, <3>1 DEF Single
    <3> QED BY <2>3, <3>1, <3>2 DEF CopiesOf
  <2> QED BY <2>3, <2>4
<1> QED BY <1>1, CloneInitInv, CloneStepInv, PTL DEF CloneSpec

=============================================================================
