------------------------------ MODULE RunClone ------------------------------
(***************************************************************************)
(* Cloning one run into another workspace (opps/run_cloner.py,             *)
(* opps/clone_api.py): a POST validates and leaves a RunClone row, a       *)
(* thread copies the files, and a POST over a failed or abandoned clone    *)
(* resumes it: what already landed is adopted, not copied again.           *)
(*                                                                         *)
(* Attempt k is RunClone row k with its thread.  The tree below the run's  *)
(* folder is flat here; a copy's id is its number.                         *)
(***************************************************************************)
EXTENDS Naturals, Sequences, FiniteSets

CONSTANTS
  Requests,     \* POSTs in flight
  Files,        \* the run's files
  State,        \* the one that is run_state.yaml
  NameOf,       \* the name of each
  Pool,         \* _COPY_WORKERS
  Every,        \* _PROGRESS_EVERY
  MaxAttempts,  \* bound on attempts
  MaxCloneFaults  \* bound on failing calls and dying threads

ASSUME RunCloneAssumption ==
  /\ State \in Files /\ Pool \in Nat \ {0} /\ Every \in Nat \ {0}
  /\ MaxAttempts \in Nat /\ MaxCloneFaults \in Nat

VARIABLES
  dirs,      \* number of folders of the run in the target workspace
  copies,    \* the copies, by id: [of, dir]
  clone,     \* the RunClone rows: [status, ids, silent]
  work,      \* work[k]: the thread of attempt k
  post,      \* post[p]: what request p found
  crossed,   \* history: two attempts were under way at once
  cloneFaults

cloneVars == <<dirs, copies, clone, work, post, crossed, cloneFaults>>

NoIds   == [f \in Files |-> 0]
NoPost  == [from |-> 0, dir |-> 0, open |-> FALSE]
Over    == {"ended", "dead"}
Attempts == DOMAIN clone

ThreadAt(k, s) == k \in Attempts /\ work[k].step = s
Does(k, w)     == work' = [work EXCEPT ![k] = w]
PutRow(k, r)   == clone' = [clone EXCEPT ![k] = r]
CloneFault     == cloneFaults < MaxCloneFaults /\ cloneFaults' = cloneFaults + 1

-----------------------------------------------------------------------------
(* start_clone *)

Last == Len(clone)

\* Resumed are a clone that failed, and one that is silent for _STALE_AFTER.
Resumable ==
  /\ Last # 0
  /\ \/ clone[Last].status = "error"
     \/ clone[Last].status = "copying" /\ clone[Last].silent

Post(p) ==
  /\ ~post[p].open /\ Len(clone) < MaxAttempts
  /\ \E d \in IF dirs = 0 THEN {0} ELSE 1..dirs :
       /\ d # 0 => Resumable
       /\ post' = [post EXCEPT ![p] = [from |-> IF Resumable THEN Last ELSE 0,
                                       dir |-> d, open |-> TRUE]]
  /\ UNCHANGED <<dirs, copies, clone, work, crossed, cloneFaults>>

Abandoned(from) ==
  IF from # 0 /\ clone[from].status = "copying"
    THEN [clone EXCEPT ![from].status = "error"] ELSE clone

Create(p) ==
  /\ post[p].open /\ Len(clone) < MaxAttempts
  /\ LET from  == post[p].from
         prior == IF from = 0 THEN NoIds ELSE clone[from].ids
     IN /\ clone' = Append(Abandoned(from),
                           [status |-> "copying", ids |-> prior, silent |-> FALSE])
        /\ work' = Append(work, [step |-> "folder", resume |-> from # 0, dir |-> post[p].dir,
                                 prior |-> prior, ids |-> NoIds, got |-> NoIds,
                                 task |-> [f \in Files |-> "new"], since |-> 0])
  /\ post' = [post EXCEPT ![p] = NoPost]
  /\ crossed' = (crossed \/ \E k \in Attempts : work[k].step \notin Over)
  /\ UNCHANGED <<dirs, copies, cloneFaults>>

-----------------------------------------------------------------------------
(* _copy: the folder, run_state.yaml alone, the rest on a pool *)

Folder(k) ==
  /\ ThreadAt(k, "folder")
  /\ LET new == work[k].dir = 0
     IN /\ dirs' = IF new THEN dirs + 1 ELSE dirs
        /\ Does(k, [work[k] EXCEPT !.step = "state", !.dir = IF new THEN dirs + 1 ELSE @,
                                   !.resume = @ /\ ~new])
  /\ UNCHANGED <<copies, clone, post, crossed, cloneFaults>>

Stage(k) == CASE ThreadAt(k, "state") -> {State} [] ThreadAt(k, "rest") -> Files \ {State} [] OTHER -> {}
Task(k, f) == work[k].task[f]
Planned(k) == \A f \in Stage(k) : Task(k, f) # "new"

\* Ids that stand for some file already, among those this attempt knows.
Claimed(k) == {work[k].got[f] : f \in Files} \ {0}

\* _match: by the id map of the earlier attempt, else by name.
Unclaimed(k)  == {c \in DOMAIN copies : copies[c].dir = work[k].dir} \ Claimed(k)
ByName(k, f)  == {c \in Unclaimed(k) : NameOf[copies[c].of] = NameOf[f]}
MatchesById(k, f) ==  \* a slip: only what the id map knows of is adopted
  IF work[k].resume THEN {work[k].prior[f]} \cap Unclaimed(k) ELSE {}

Matches(k, f) ==
  IF ~work[k].resume THEN {}
  ELSE IF work[k].prior[f] \in Unclaimed(k) THEN {work[k].prior[f]} ELSE ByName(k, f)

Plan(k, f) ==
  /\ f \in Stage(k) /\ Task(k, f) = "new"
  /\ \/ /\ Matches(k, f) = {}
        /\ Does(k, [work[k] EXCEPT !.task[f] = "todo"])
     \/ \E c \in Matches(k, f) :
          Does(k, [work[k] EXCEPT !.task[f] = "held", !.got[f] = c, !.ids[f] = c, !.since = @ + 1])
  /\ UNCHANGED <<dirs, copies, clone, post, crossed, cloneFaults>>

\* Nothing new starts after a failure; what is in flight goes on.
Busy(k)   == {f \in Files : Task(k, f) \in {"flight", "look", "answered"}}
Failed(k) == \E f \in Files : Task(k, f) = "failed"

Submit(k, f) ==
  /\ f \in Stage(k) /\ Planned(k) /\ Task(k, f) = "todo"
  /\ ~Failed(k) /\ Cardinality(Busy(k)) < Pool
  /\ Does(k, [work[k] EXCEPT !.task[f] = "flight"])
  /\ UNCHANGED <<dirs, copies, clone, post, crossed, cloneFaults>>

\* The only file of its name: a look at the folder can tell whether it landed.
UniqueName(f) == \A g \in Files : NameOf[g] = NameOf[f] => g = f

\* A failure that does not say whether the copy was made.
Unsure(k, f) == Does(k, [work[k] EXCEPT !.task[f] = IF UniqueName(f) THEN "look" ELSE "failed"])

Landed(k, f) == copies' = Append(copies, [of |-> f, dir |-> work[k].dir])

CopyFile(k, f) ==
  /\ k \in Attempts /\ Task(k, f) = "flight" /\ work[k].step \notin Over
  /\ \/ /\ Landed(k, f)
        /\ Does(k, [work[k] EXCEPT !.task[f] = "answered", !.got[f] = Len(copies) + 1])
        /\ UNCHANGED cloneFaults
     \/ Landed(k, f) /\ Unsure(k, f) /\ CloneFault
     \/ Unsure(k, f) /\ CloneFault /\ UNCHANGED copies
     \/ Does(k, [work[k] EXCEPT !.task[f] = "failed"]) /\ CloneFault /\ UNCHANGED copies
  /\ UNCHANGED <<dirs, clone, post, crossed>>

\* _landed: adopt what is there, else try again, or give up.
LookBack(k, f) ==
  /\ k \in Attempts /\ Task(k, f) = "look" /\ work[k].step \notin Over
  /\ \/ \E c \in ByName(k, f) : Does(k, [work[k] EXCEPT !.task[f] = "answered", !.got[f] = c])
     \/ /\ ByName(k, f) = {}
        /\ \E t \in {"flight", "failed"} : Does(k, [work[k] EXCEPT !.task[f] = t])
  /\ UNCHANGED <<dirs, copies, clone, post, crossed, cloneFaults>>

\* The coordinating thread takes the answer, and saves now and then.
TakeAnswer(k, f) ==
  /\ k \in Attempts /\ Task(k, f) = "answered" /\ work[k].step \notin Over
  /\ LET ids  == [work[k].ids EXCEPT ![f] = work[k].got[f]]
         save == work[k].since + 1 >= Every
     IN /\ Does(k, [work[k] EXCEPT !.task[f] = "held", !.ids = ids,
                                   !.since = IF save THEN 0 ELSE @ + 1])
        /\ IF save THEN PutRow(k, [clone[k] EXCEPT !.ids = ids, !.silent = FALSE])
                   ELSE UNCHANGED clone
  /\ UNCHANGED <<dirs, copies, post, crossed, cloneFaults>>

Advance(k) ==
  /\ Stage(k) # {} /\ \A f \in Stage(k) : Task(k, f) = "held"
  /\ Does(k, [work[k] EXCEPT !.step = IF ThreadAt(k, "state") THEN "rest" ELSE "links"])
  /\ UNCHANGED <<dirs, copies, clone, post, crossed, cloneFaults>>

Finishes(k, status) ==
  /\ PutRow(k, [clone[k] EXCEPT !.status = status, !.ids = work[k].ids, !.silent = FALSE])
  /\ Does(k, [work[k] EXCEPT !.step = "ended"])
  /\ UNCHANGED <<dirs, copies, post, crossed>>

\* A copy failed, and those beside it are in.
Raise(k) == Stage(k) # {} /\ Failed(k) /\ Busy(k) = {} /\ Finishes(k, "error") /\ UNCHANGED cloneFaults

\* Sharing and links are carried over; a call of these may fail.
Links(k) ==
  /\ ThreadAt(k, "links")
  /\ \/ Finishes(k, "done") /\ UNCHANGED cloneFaults
     \/ Finishes(k, "error") /\ CloneFault

-----------------------------------------------------------------------------
(* Threads die with their process; ten minutes later the row is silent *)

ThreadDies(k) ==
  /\ k \in Attempts /\ work[k].step \notin Over
  /\ Does(k, [work[k] EXCEPT !.step = "dead"])
  /\ CloneFault /\ UNCHANGED <<dirs, copies, clone, post, crossed>>

Silence(k) ==
  /\ ThreadAt(k, "dead") /\ clone[k].status = "copying" /\ ~clone[k].silent
  /\ PutRow(k, [clone[k] EXCEPT !.silent = TRUE])
  /\ UNCHANGED <<dirs, copies, work, post, crossed, cloneFaults>>

CloneInit ==
  /\ dirs = 0 /\ copies = <<>> /\ clone = <<>> /\ work = <<>>
  /\ post = [p \in Requests |-> NoPost] /\ crossed = FALSE /\ cloneFaults = 0

CloneNext ==
  \/ \E p \in Requests : Post(p) \/ Create(p)
  \/ \E k \in Attempts :
       \/ Folder(k) \/ Advance(k) \/ Raise(k) \/ Links(k) \/ ThreadDies(k) \/ Silence(k)
       \/ \E f \in Files : \/ Plan(k, f) \/ Submit(k, f)
                           \/ CopyFile(k, f) \/ LookBack(k, f) \/ TakeAnswer(k, f)

CloneSpec == CloneInit /\ [][CloneNext]_cloneVars

-----------------------------------------------------------------------------
(* Properties *)

CopiesOf(f, d) == {c \in DOMAIN copies : copies[c] = [of |-> f, dir |-> d]}

\* A clone that says done has a copy of every file in its folder, and its id
\* map, after which links and sharing are carried over, tells them apart; of a
\* file whose name is its own there is just that copy: through answers that get
\* lost, failing copies, threads that die between any two steps and resumes of
\* what they left behind, as long as no two attempts are under way at once.
DoneIsWhole ==
  \A k \in Attempts : clone[k].status = "done" /\ ~crossed =>
    \A f \in Files :
      LET c == clone[k].ids[f]
      IN /\ c \in DOMAIN copies /\ copies[c].dir = work[k].dir
         /\ NameOf[copies[c].of] = NameOf[f]
         /\ \A g \in Files : clone[k].ids[g] = c => g = f
         /\ UniqueName(f) => CopiesOf(f, work[k].dir) = {c}

=============================================================================
