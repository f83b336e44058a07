---------------------------- MODULE SummaryPage ----------------------------
(***************************************************************************)
(* Comments on the public run summary: a member's comment is appended to   *)
(* a feedback record on Drive (opps/reactions.py), and a page shows the    *)
(* records' comments through two caches (opps/api.py): the payload, for    *)
(* 60 s, and under it the listings and bodies of CachedDriveClient, for    *)
(* 30 s (opps/drive_cache.py).  A write reads past the caches, fills them, *)
(* and drops what it outdates, in steps of their own.                      *)
(*                                                                         *)
(* Every decision commented on is in its run's log; the day is one day.    *)
(***************************************************************************)
EXTENDS Naturals, Sequences, FiniteSets

CONSTANTS
  Writers,          \* comments being submitted at the same time
  Readers,          \* pages being loaded at the same time
  Reviewers,
  SlugOf,           \* reviewer_slug of each one's name
  Runs,
  Decisions,
  MaxPerRecord,     \* MAX_ITEMS_PER_RECORD
  MaxPerRun,        \* MAX_ITEMS_PER_RUN
  MaxComments,      \* bound on comments
  MaxCommentFaults  \* bound on submissions that fail and reads that do

ASSUME SummaryPageAssumption ==
  /\ Writers \cap Readers = {}
  /\ MaxPerRecord \in Nat /\ MaxPerRun \in Nat
  /\ MaxComments \in Nat /\ MaxCommentFaults \in Nat

VARIABLES
  folders,   \* Drive: number of `feedback` folders
  files,     \* Drive: the records, [folder, slug, run, items]
  cache,     \* the Drive cache
  payload,   \* the payload cache, by run
  comments,  \* what has been submitted: [run, by, decision, state, file, id, overlapped]
  task,      \* what each writer and reader does
  crossed,   \* history: may what a crossing left be in a cache
  commentFaults

commentVars == <<folders, files, cache, payload, comments, task, crossed, commentFaults>>

Tasks   == Writers \cup Readers
NoEntry == <<>>   \* no entry; an entry is <<what it holds>>

\* What the cache holds is kept under a folder or file id.
Opp       == <<"opp", 0>>
Folder(k) == <<"folder", k>>
Body(f)   == <<"body", f>>
Keys      == {Opp} \cup {Folder(k) : k \in 1..MaxComments} \cup {Body(f) : f \in 1..MaxComments}

NoPage == [shows |-> {}, short |-> FALSE]
NoTask == [step |-> "idle", comment |-> 0, run |-> 0, force |-> FALSE, got |-> NoEntry,
           folder |-> 0, list |-> {}, left |-> {}, total |-> 0, n |-> 1, target |-> 0,
           items |-> <<>>, page |-> NoPage, owed |-> {}]

TaskAt(t, s) == task[t].step = s
Goes(t, r)   == task' = [task EXCEPT ![t] = r]
Busy         == {t \in Tasks : task[t].step \notin {"idle", "reply"}}
Comment(w)   == comments[task[w].comment]
Cold         == [key \in Keys |-> NoEntry]
Unread       == [run \in Runs |-> NoEntry]
Quiet        == \A r \in Readers : TaskAt(r, "idle")
Crosses(w)   == crossed' = (crossed \/ Busy # {w})
MayFail      == commentFaults < MaxCommentFaults

-----------------------------------------------------------------------------
(* CachedDriveClient: a read is a look-up, or a fetch and then a store.    *)

Truth(key) == CASE key = Opp         -> folders
                [] key[1] = "folder" -> {f \in DOMAIN files : files[f].folder = key[2]}
                [] key[1] = "body"   -> files[key[2]]

HitsAnyway(t, key) == cache[key] # NoEntry

Hits(t, key) == cache[key] # NoEntry /\ ~task[t].force

\* submit_decision_reaction looks for the run's record under the reviewer's slug,
\* then under the slug with 2, 3, ..., unless the run has all it can hold.
Walking(w) == TaskAt(w, "seek") /\ task[w].total < MaxPerRun

Candidates(w) == {f \in task[w].list : files[f].slug = <<SlugOf[Comment(w).by], task[w].n>>}

\* Where a task is when it needs `key`, and what it does once it has it.
Wants(t, key) ==
  \/ TaskAt(t, "opp") /\ key = Opp
  \/ TaskAt(t, "folder") /\ key = Folder(task[t].folder)
  \/ TaskAt(t, "bodies") /\ \E f \in task[t].left : key = Body(f)
  \/ Walking(t) /\ \E f \in Candidates(t) : key = Body(f)

\* A writer that knows the records of the folder looks for the one to append
\* to; a reader has its page.
Read(t) == IF t \in Writers THEN "seek" ELSE "page"

Shows(run, record) == IF record.run = run
                      THEN {record.items[i].of : i \in DOMAIN record.items}
                      ELSE {}

\* read_reactions, and the count and the walk of submit_decision_reaction.
Learn(t, key, value) ==
  LET k == task[t]
      now == [k EXCEPT !.got = NoEntry]
  IN CASE k.step = "opp" ->
            IF value = 0 THEN Goes(t, [now EXCEPT !.step = Read(t)])
            ELSE \E d \in 1..value : Goes(t, [now EXCEPT !.step = "folder", !.folder = d])
       [] k.step = "folder" ->
            Goes(t, [now EXCEPT !.step = IF value = {} THEN Read(t) ELSE "bodies",
                                !.list = value, !.left = value])
       [] k.step = "bodies" ->
            LET left == k.left \ {key[2]}
            IN Goes(t, [now EXCEPT !.step = IF left = {} THEN Read(t) ELSE "bodies", !.left = left,
                          !.total = @ + Cardinality(Shows(k.run, value)),
                          !.page.shows = @ \cup Shows(k.run, value)])
       [] k.step = "seek" ->
            Goes(t, IF value.run = k.run
                    THEN [now EXCEPT !.step = "write", !.target = key[2], !.items = value.items]
                    ELSE [now EXCEPT !.n = @ + 1])

Hit(t, key) ==
  /\ task[t].got = NoEntry /\ Wants(t, key) /\ Hits(t, key)
  /\ Learn(t, key, cache[key][1])
  /\ UNCHANGED <<folders, files, cache, payload, comments, crossed, commentFaults>>

Fetch(t, key) ==
  /\ task[t].got = NoEntry /\ Wants(t, key) /\ ~Hits(t, key)
  /\ Goes(t, [task[t] EXCEPT !.got = <<key, Truth(key)>>])
  /\ UNCHANGED <<folders, files, cache, payload, comments, crossed, commentFaults>>

Store(t) ==
  LET got == task[t].got
  IN /\ got # NoEntry
     /\ cache' = [cache EXCEPT ![got[1]] = <<got[2]>>]
     /\ Learn(t, got[1], got[2])
     /\ UNCHANGED <<folders, files, payload, comments, crossed, commentFaults>>

\* A read that fails leaves out what it was about; a folder's, everything.
ReadFails(r, key) ==
  /\ r \in Readers /\ MayFail /\ Wants(r, key) /\ task[r].got = NoEntry /\ ~Hits(r, key)
  /\ commentFaults' = commentFaults + 1
  /\ LET left == IF TaskAt(r, "bodies") THEN task[r].left \ {key[2]} ELSE {}
     IN Goes(r, [task[r] EXCEPT !.page.short = TRUE, !.left = left,
                                !.step = IF left = {} THEN "page" ELSE "bodies"])
  /\ UNCHANGED <<folders, files, cache, payload, comments, crossed>>

Expire ==
  /\ \/ \E key \in Keys : /\ cache[key] # NoEntry /\ cache' = [cache EXCEPT ![key] = NoEntry]
                          /\ UNCHANGED payload
     \/ \E run \in Runs : /\ payload[run] # NoEntry /\ payload' = [payload EXCEPT ![run] = NoEntry]
                          /\ UNCHANGED cache
  /\ crossed' = (crossed /\ ~(Quiet /\ cache' = Cold /\ payload' = Unread))
  /\ UNCHANGED <<folders, files, comments, task, commentFaults>>

-----------------------------------------------------------------------------
(* public_opp_summary                                                      *)

Acked(run) == {c \in DOMAIN comments : comments[c].state = "acked" /\ comments[c].run = run}

\* Answered from the payload cache, or loaded.
LoadPage(r, run, force) ==
  /\ TaskAt(r, "idle")
  /\ Goes(r, IF payload[run] # NoEntry
             THEN [NoTask EXCEPT !.step = "reply", !.run = run, !.page = payload[run][1],
                                 !.owed = Acked(run)]
             ELSE [NoTask EXCEPT !.step = "opp", !.run = run, !.force = force, !.owed = Acked(run)])
  /\ UNCHANGED <<folders, files, cache, payload, comments, crossed, commentFaults>>

SetPayload(r) ==
  /\ TaskAt(r, "page") /\ r \in Readers
  /\ payload' = [payload EXCEPT ![task[r].run] = <<task[r].page>>]
  /\ Goes(r, [task[r] EXCEPT !.step = "reply"])
  /\ UNCHANGED <<folders, files, cache, comments, crossed, commentFaults>>

Reply(r) ==
  /\ TaskAt(r, "reply")
  /\ Goes(r, NoTask)
  /\ UNCHANGED <<folders, files, cache, payload, comments, crossed, commentFaults>>

-----------------------------------------------------------------------------
(* public_decision_reaction                                                *)

\* `overlapped` is a history variable: another comment was being submitted
\* meanwhile.
Submit(w, by, run, decision) ==
  /\ TaskAt(w, "idle") /\ Len(comments) < MaxComments
  /\ LET others == {task[v].comment : v \in Writers \cap Busy}
         c == Len(comments) + 1
     IN /\ comments' = Append([i \in DOMAIN comments |->
                                 IF i \in others THEN [comments[i] EXCEPT !.overlapped = TRUE]
                                                 ELSE comments[i]],
                              [run |-> run, by |-> by, decision |-> decision, state |-> "open",
                               file |-> 0, id |-> <<>>, overlapped |-> others # {}])
        /\ Goes(w, [NoTask EXCEPT !.step = "opp", !.comment = c, !.run = run, !.force = TRUE])
  /\ UNCHANGED <<folders, files, cache, payload, crossed, commentFaults>>

\* The walk ends at a free slot.
NewRecord(w) ==
  /\ Walking(w) /\ task[w].got = NoEntry /\ Candidates(w) = {}
  /\ Goes(w, [task[w] EXCEPT !.step = IF task[w].folder = 0 THEN "mkdir" ELSE "write"])
  /\ UNCHANGED <<folders, files, cache, payload, comments, crossed, commentFaults>>

NeverFull(w) == FALSE

Full(w) == TaskAt(w, "write") /\ Len(task[w].items) >= MaxPerRecord

CommentEnds(w, state) == comments' = [comments EXCEPT ![task[w].comment].state = state]

Reject(w) ==
  /\ (TaskAt(w, "seek") /\ ~Walking(w)) \/ Full(w)
  /\ CommentEnds(w, "rejected")
  /\ Goes(w, NoTask)
  /\ UNCHANGED <<folders, files, cache, payload, crossed, commentFaults>>

CreateFolder(w) ==
  /\ TaskAt(w, "mkdir")
  /\ folders' = folders + 1
  /\ Goes(w, [task[w] EXCEPT !.step = "made", !.folder = folders + 1])
  /\ UNCHANGED <<files, cache, payload, comments, crossed, commentFaults>>

\* Entries dropped once a write is through.  Who is reading meanwhile may yet
\* store one from before it.
Drop(w, key, next) ==
  /\ cache' = [cache EXCEPT ![key] = NoEntry]
  /\ Crosses(w)
  /\ Goes(w, [task[w] EXCEPT !.step = next])
  /\ UNCHANGED <<folders, files, payload, comments, commentFaults>>

DropOpp(w) == TaskAt(w, "made") /\ Drop(w, Opp, "write")

\* next_item_id: the decision, or the decision with the next free number.
NextId(items, decision) ==
  <<decision, Cardinality({i \in DOMAIN items : items[i].id[1] = decision}) + 1>>

Write(w) ==
  LET k    == task[w]
      c    == Comment(w)
      item == [id |-> NextId(k.items, c.decision), of |-> k.comment]
      f    == IF k.target # 0 THEN k.target ELSE Len(files) + 1
  IN /\ TaskAt(w, "write") /\ ~Full(w)
     /\ files' = IF k.target # 0
                 THEN [files EXCEPT ![f].items = Append(k.items, item)]
                 ELSE Append(files, [folder |-> k.folder, slug |-> <<SlugOf[c.by], k.n>>,
                                     run |-> c.run, items |-> <<item>>])
     /\ comments' = [comments EXCEPT ![k.comment].file = f, ![k.comment].id = item.id]
     /\ Goes(w, [k EXCEPT !.step = IF k.target # 0 THEN "updated" ELSE "uploaded"])
     /\ UNCHANGED <<folders, cache, payload, crossed, commentFaults>>

OnlyBodies(w) == IF TaskAt(w, "updated") THEN Body(task[w].target) ELSE Body(Len(files))

OutdatedBy(w) == IF TaskAt(w, "updated") THEN Body(task[w].target) ELSE Folder(task[w].folder)

DropWritten(w) ==
  /\ TaskAt(w, "updated") \/ TaskAt(w, "uploaded")
  /\ Drop(w, OutdatedBy(w), "clear")

\* _invalidate_summary_cache, and the 201.
ClearPayload(w) ==
  /\ TaskAt(w, "clear")
  /\ payload' = [payload EXCEPT ![task[w].run] = NoEntry]
  /\ CommentEnds(w, "acked") /\ Crosses(w)
  /\ Goes(w, NoTask)
  /\ UNCHANGED <<folders, files, cache, commentFaults>>

\* A call raises, whether or not it got through, or the worker dies: what it
\* wrote may be there, and nothing is dropped.
Fail(w) ==
  /\ w \in Busy /\ MayFail
  /\ commentFaults' = commentFaults + 1 /\ crossed' = TRUE
  /\ CommentEnds(w, "failed")
  /\ Goes(w, NoTask)
  /\ UNCHANGED <<folders, files, cache, payload>>

-----------------------------------------------------------------------------

CommentsInit ==
  /\ folders = 0 /\ files = <<>>
  /\ cache = Cold /\ payload = Unread
  /\ comments = <<>> /\ crossed = FALSE /\ commentFaults = 0
  /\ task = [t \in Tasks |-> NoTask]

Caching(t) == Store(t) \/ \E key \in Keys : Hit(t, key) \/ Fetch(t, key)

Loading(r) ==
  \/ \E run \in Runs, force \in BOOLEAN : LoadPage(r, run, force)
  \/ SetPayload(r) \/ Reply(r) \/ Caching(r) \/ \E key \in Keys : ReadFails(r, key)

Submitting(w) ==
  \/ \E by \in Reviewers, run \in Runs, decision \in Decisions : Submit(w, by, run, decision)
  \/ Caching(w) \/ NewRecord(w) \/ Reject(w) \/ CreateFolder(w) \/ DropOpp(w) \/ Write(w)
  \/ DropWritten(w) \/ ClearPayload(w) \/ Fail(w)

CommentsNext == (\E r \in Readers : Loading(r)) \/ (\E w \in Writers : Submitting(w)) \/ Expire

CommentsSpec == CommentsInit /\ [][CommentsNext]_commentVars

-----------------------------------------------------------------------------
(* Properties.                                                             *)

Kept(c) == \E i \in DOMAIN files[comments[c].file].items :
             files[comments[c].file].items[i] = [id |-> comments[c].id, of |-> c]

Ref(c) == <<files[comments[c].file].slug, comments[c].id>>

Alone == {c \in DOMAIN comments : comments[c].state = "acked" /\ ~comments[c].overlapped}

\* What submit_decision_reaction's docstring leaves out is all that loses a
\* comment: one that was acknowledged, and during which no other was submitted,
\* stays in its record under an id that no other such comment of the record has,
\* whatever pages in flight left in the caches and whichever submissions fail or
\* overlap later.  Until two overlap, its Feedback-Ref is its own and the ceilings
\* hold; after two first comments at once, two records may have one slug.
LedgerHolds ==
  /\ \A c \in Alone : Kept(c)
  /\ \A c, d \in Alone : c # d /\ comments[c].file = comments[d].file
                         => comments[c].id # comments[d].id
  /\ (\A c \in DOMAIN comments : ~comments[c].overlapped) =>
       /\ \A c, d \in Alone : c # d => Ref(c) # Ref(d)
       /\ \A f \in DOMAIN files : Len(files[f].items) <= MaxPerRecord
       /\ \A run \in Runs : Cardinality(UNION {Shows(run, files[f]) : f \in DOMAIN files}) <= MaxPerRun

\* _public_write_drive, _summary_cache_key: a page asked for after a comment was
\* acknowledged shows it, through both caches, unless they may hold what a page
\* that was being loaded while a write dropped its entries, or a write cut off,
\* has left there; once that has expired, pages show everything again.
ShowsComments ==
  \A r \in Readers :
    TaskAt(r, "reply") /\ ~task[r].page.short /\ folders <= 1 /\ ~crossed =>
      \A c \in task[r].owed \cap Alone : c \in task[r].page.shows

\* Both: the records keep the comments, and the pages show them.
CommentsHold == LedgerHolds /\ ShowsComments

=============================================================================
