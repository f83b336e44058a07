--------------------------- MODULE SnapshotCache ---------------------------
(***************************************************************************)
(* The Workbench's snapshot cache of one workspace and one opp:            *)
(* drive_changes.observe, snapshot_cache, the loaders of opps/api.py and   *)
(* the runs_summary overlay.  Drive is edited from outside; web workers    *)
(* share the Redis cache and the changes token and lock nothing.           *)
(*                                                                         *)
(* File 0 is the runs/ folder, file i the run_state.yaml of run i.  A      *)
(* snapshot reads the folder and every run, and is kept under the run it   *)
(* was asked for, or under key 0 when it was asked for the latest run.     *)
(***************************************************************************)
EXTENDS Naturals, Sequences

CONSTANTS
  Workers,       \* requests in flight at the same time
  Asks,          \* what requests ask for: pairs of a key and `refresh`
  MaxRuns,       \* bound on run folders
  MaxChanges,    \* bound on changes in Drive's feed
  MaxFaults,     \* bound on failed calls, evictions, expiries and crashes
  FeedFails,     \* may a Drive call of observe or of the overlay fail
  Evictions,     \* may Redis evict a reverse-index entry
  CrashAt,       \* the steps before which a worker may die
  ParentReports  \* may a new child come with its folder's id (TRUE), without

ASSUME SnapshotCacheAssumption ==
  /\ Asks \subseteq (0..MaxRuns) \X BOOLEAN
  /\ MaxRuns \in Nat \ {0} /\ MaxChanges \in Nat \ {0} /\ MaxFaults \in Nat
  /\ {FeedFails, Evictions} \subseteq BOOLEAN
  /\ ParentReports \in (SUBSET BOOLEAN) \ {{}}

VARIABLES
  runs,     \* run folders 1..runs exist; the latest is `runs`
  ver,      \* version of each file
  feed,     \* the changes feed: the file ids each change names
  token,    \* cached pageToken, as a position in feed; 0 when there is none
  snap,     \* cached envelope under each key
  idx,      \* reverse index: file id -> keys
  known,    \* the workspace's key set
  marker,   \* run folders the overlay last rebuilt from; 0 when none
  req,      \* worker w
  shown,    \* history: most runs any response has listed
  handled,  \* history: feed positions acted on, or seeded past
  faults

driveVars == <<runs, ver, feed>>
cacheVars == <<token, snap, idx, known, marker>>
vars      == <<driveVars, cacheVars, req, shown, handled, faults>>

Keys     == 0..MaxRuns
Files    == 0..MaxRuns
Folder   == 0
Versions == 0..MaxChanges

\* `run` is the current run, `list` the number of runs it lists; a snapshot of
\* no run is a miss.
Envelopes  == [run : 0..MaxRuns, list : 0..MaxRuns, seen : [Files -> Versions]]
NoEntry    == [run |-> 0, list |-> 0, seen |-> [f \in Files |-> 0]]
Present(k) == snap[k].run # 0

\* The file ids the TouchedFileTracker recorded while it was built.
Deps(e) == 0..e.list

Steps == {"observe", "seed", "list", "advance", "reseed", "clear", "invalidate",
          "drop", "get", "hit", "listing", "content", "store", "index", "put", "reply"}

\* A request: its key, Drive's changes as read, the envelope found or built,
\* the index entry being rewritten; and what it must not fall short of.
Handlers ==
  [pc      : Steps \cup {"idle"},
   key     : Keys, refresh : BOOLEAN,
   tok     : 0..(MaxChanges + 1), took : SUBSET (1..(MaxChanges + 1)),
   env     : Envelopes,
   todo    : SUBSET Files, file : Files, members : SUBSET Keys,
   since   : [Files -> Versions], shows : 0..MaxRuns, shown : 0..MaxRuns]

Idle == [pc |-> "idle", key |-> 0, refresh |-> FALSE, tok |-> 0, took |-> {},
         env |-> NoEntry, todo |-> {}, file |-> 0, members |-> {},
         since |-> [f \in Files |-> 0], shows |-> 0, shown |-> 0]

At(w, p)   == req[w].pc = p
Goto(w, p) == req' = [req EXCEPT ![w].pc = p]

\* The file ids a request found changed.
Changed(w) == UNION {feed[p] : p \in req[w].took}

Fault == faults < MaxFaults /\ faults' = faults + 1

-----------------------------------------------------------------------------
(* Drive, edited from outside.                                             *)

\* An existing file is edited: the feed reports its id.
Edit(f) ==
  /\ f \in 1..runs /\ Len(feed) <= MaxChanges
  /\ ver' = [ver EXCEPT ![f] = @ + 1]
  /\ feed' = Append(feed, {f})
  /\ UNCHANGED <<runs, cacheVars, req, shown, handled, faults>>

\* A run folder appears.
NewRun ==
  /\ runs < MaxRuns /\ Len(feed) <= MaxChanges
  /\ runs' = runs + 1
  /\ ver' = [ver EXCEPT ![Folder] = @ + 1]
  /\ \E reported \in ParentReports :
       feed' = Append(feed, IF reported THEN {runs + 1, Folder} ELSE {runs + 1})
  /\ UNCHANGED <<cacheVars, req, shown, handled, faults>>

-----------------------------------------------------------------------------
(* drive_changes.observe.                                                  *)

Request(w, k, refresh) ==
  /\ At(w, "idle") /\ k <= runs
  /\ req' = [req EXCEPT ![w] = [Idle EXCEPT !.pc = "observe", !.key = k,
                                 !.refresh = refresh, !.since = ver, !.shown = shown]]
  /\ UNCHANGED <<driveVars, cacheVars, shown, handled, faults>>

ReadToken(w) ==
  /\ At(w, "observe")
  /\ req' = [req EXCEPT ![w].pc = IF token = 0 THEN "seed" ELSE "list",
                        ![w].tok = token]
  /\ UNCHANGED <<driveVars, cacheVars, shown, handled, faults>>

\* No token: take the feed's end, and call every cache entry valid.
Seed(w) ==
  /\ At(w, "seed")
  /\ token' = Len(feed)
  /\ handled' = handled \cup 1..Len(feed)
  /\ Goto(w, "drop")
  /\ UNCHANGED <<driveVars, snap, idx, known, marker, shown, faults>>

List(w) ==
  /\ At(w, "list")
  /\ req' = [req EXCEPT ![w].pc = "advance", ![w].tok = Len(feed),
                        ![w].took = (req[w].tok + 1)..Len(feed)]
  /\ UNCHANGED <<driveVars, cacheVars, shown, handled, faults>>

\* 410 Gone.
Expired(w) ==
  /\ At(w, "list")
  /\ Fault
  /\ Goto(w, "reseed")
  /\ UNCHANGED <<driveVars, cacheVars, shown, handled>>

\* The failed call is logged and the request goes on with no changes.  A
\* failed re-seed forgets the token; a failed seed is not retried for a while,
\* which is one more failed seed for each request.
ObserveFails(w) ==
  /\ FeedFails
  /\ Fault
  /\ \/ At(w, "seed") /\ UNCHANGED token
     \/ At(w, "list") /\ UNCHANGED token
     \/ At(w, "reseed") /\ token' = 0
  /\ Goto(w, "drop")
  /\ UNCHANGED <<driveVars, snap, idx, known, marker, shown, handled>>

AdvanceToEnd(w) ==
  /\ At(w, "advance")
  /\ token' = Len(feed)
  /\ Goto(w, IF Changed(w) = {} THEN "drop" ELSE "invalidate")
  /\ UNCHANGED <<driveVars, snap, idx, known, marker, shown, handled, faults>>

Advance(w) ==
  /\ At(w, "advance")
  /\ token' = req[w].tok
  /\ Goto(w, IF Changed(w) = {} THEN "drop" ELSE "invalidate")
  /\ UNCHANGED <<driveVars, snap, idx, known, marker, shown, handled, faults>>

\* Anything may have changed.
Reseed(w) ==
  /\ At(w, "reseed")
  /\ token' = Len(feed)
  /\ req' = [req EXCEPT ![w].pc = "clear", ![w].took = 1..Len(feed)]
  /\ UNCHANGED <<driveVars, snap, idx, known, marker, shown, handled, faults>>

\* clear_workspace: the entries of the key set; the reverse index stays.
Clear(w) ==
  /\ At(w, "clear")
  /\ snap' = [k \in Keys |-> IF k \in known THEN NoEntry ELSE snap[k]]
  /\ known' = {}
  /\ handled' = handled \cup req[w].took
  /\ req' = [req EXCEPT ![w].pc = "drop", ![w].took = {}]
  /\ UNCHANGED <<driveVars, token, idx, marker, shown, faults>>

-----------------------------------------------------------------------------
(* snapshot_cache.                                                         *)

\* The fallback walks the key sets of workspaces 1..1023; a workspace's
\* primary key is its slug, so it finds none.
ScannedKeys(changed) == {}

KeysToDrop(changed) ==
  LET indexed == UNION {idx[f] : f \in changed}
  IN IF indexed # {} THEN indexed ELSE ScannedKeys(changed)

Invalidate(w) ==
  LET gone == KeysToDrop(Changed(w)) IN
  /\ At(w, "invalidate")
  /\ snap' = [k \in Keys |-> IF k \in gone THEN NoEntry ELSE snap[k]]
  /\ idx' = [f \in Files |-> IF f \in Changed(w) THEN idx[f] \ gone ELSE idx[f]]
  /\ handled' = handled \cup req[w].took
  /\ req' = [req EXCEPT ![w].pc = "drop", ![w].took = {}]
  /\ UNCHANGED <<driveVars, token, known, marker, shown, faults>>

\* drop: the key itself, and the other key the same run is kept under.
Aliases(k) ==
  LET latest == snap[0].run IN
  {k} \cup (IF k = 0 /\ latest # 0 THEN {latest} ELSE {})
      \cup (IF k # 0 /\ k = latest THEN {0} ELSE {})

Drop(w) ==
  /\ At(w, "drop")
  /\ snap' = IF req[w].refresh
             THEN [k \in Keys |-> IF k \in Aliases(req[w].key) THEN NoEntry ELSE snap[k]]
             ELSE snap
  /\ Goto(w, "get")
  /\ UNCHANGED <<driveVars, token, idx, known, marker, shown, handled, faults>>

\* get: an explicit run may be served from the latest-run entry.
FoundLatest(k) ==
  IF Present(k) THEN snap[k] ELSE snap[0]

Found(k) ==
  IF Present(k) THEN snap[k]
  ELSE IF snap[0].run = k THEN snap[0]
  ELSE NoEntry

Get(w) ==
  LET e == Found(req[w].key) IN
  /\ At(w, "get")
  /\ req' = [req EXCEPT ![w].env = e, ![w].pc = IF e.run # 0 THEN "hit" ELSE "listing"]
  /\ UNCHANGED <<driveVars, cacheVars, shown, handled, faults>>

\* The overlay works on a copy of the entry: one listing, and a rebuilt runs
\* list when the folders are not those it last rebuilt from.
Overlay(w) ==
  /\ At(w, "hit")
  /\ \/ /\ marker = runs
        /\ req' = [req EXCEPT ![w].pc = "reply", ![w].shows = req[w].env.list]
        /\ UNCHANGED <<marker, faults>>
     \/ /\ marker # runs
        /\ req' = [req EXCEPT ![w].pc = "reply", ![w].shows = runs]
        /\ marker' = runs
        /\ UNCHANGED faults
     \/ /\ FeedFails
        /\ Fault
        /\ req' = [req EXCEPT ![w].pc = "reply", ![w].shows = req[w].env.list]
        /\ UNCHANGED marker
  /\ UNCHANGED <<driveVars, token, snap, idx, known, shown, handled>>

\* load_opp, past the per-call cache: the listing, then the run states.
LoadListing(w) ==
  /\ At(w, "listing")
  /\ req' = [req EXCEPT ![w].pc = "content",
               ![w].env = [run  |-> IF req[w].key = 0 THEN runs ELSE req[w].key,
                           list |-> runs,
                           seen |-> [f \in Files |-> IF f = Folder THEN ver[f] ELSE 0]]]
  /\ UNCHANGED <<driveVars, cacheVars, shown, handled, faults>>

LoadContent(w) ==
  /\ At(w, "content")
  /\ req' = [req EXCEPT ![w].pc = "store",
               ![w].env.seen = [f \in Files |-> IF f \in Deps(req[w].env) \ {Folder}
                                                THEN ver[f] ELSE @[f]]]
  /\ UNCHANGED <<driveVars, cacheVars, shown, handled, faults>>

IndexedFolder(w) == {Folder}

IndexedContent(w) == Deps(req[w].env) \ {Folder}

Indexed(w) == Deps(req[w].env)

Store(w) ==
  /\ At(w, "store")
  /\ snap' = [snap EXCEPT ![req[w].key] = req[w].env]
  /\ req' = [req EXCEPT ![w].pc = "index", ![w].todo = Indexed(w)]
  /\ UNCHANGED <<driveVars, token, idx, known, marker, shown, handled, faults>>

\* _add_to_set: a read, then a write of the whole set.
IndexRead(w, f) ==
  /\ At(w, "index") /\ f \in req[w].todo
  /\ req' = [req EXCEPT ![w].pc = "put", ![w].file = f, ![w].members = idx[f],
                        ![w].todo = @ \ {f}]
  /\ UNCHANGED <<driveVars, cacheVars, shown, handled, faults>>

IndexWrite(w) ==
  /\ At(w, "put")
  /\ idx' = IF req[w].key \in req[w].members THEN idx
            ELSE [idx EXCEPT ![req[w].file] = req[w].members \cup {req[w].key}]
  /\ Goto(w, "index")
  /\ UNCHANGED <<driveVars, token, snap, known, marker, shown, handled, faults>>

IndexDone(w) ==
  /\ At(w, "index") /\ req[w].todo = {}
  /\ known' = known \cup {req[w].key}
  /\ req' = [req EXCEPT ![w].pc = "reply", ![w].shows = req[w].env.list]
  /\ UNCHANGED <<driveVars, token, snap, idx, marker, shown, handled, faults>>

Reply(w) ==
  /\ At(w, "reply")
  /\ shown' = IF req[w].shows > shown THEN req[w].shows ELSE shown
  /\ req' = [req EXCEPT ![w] = Idle]
  /\ UNCHANGED <<driveVars, cacheVars, handled, faults>>

-----------------------------------------------------------------------------
(* Faults.                                                                 *)

Evict(f) ==
  /\ Evictions /\ idx[f] # {}
  /\ Fault
  /\ idx' = [idx EXCEPT ![f] = {}]
  /\ UNCHANGED <<driveVars, token, snap, known, marker, req, shown, handled>>

Crash(w) ==
  /\ req[w].pc \in CrashAt
  /\ Fault
  /\ req' = [req EXCEPT ![w] = Idle]
  /\ UNCHANGED <<driveVars, cacheVars, shown, handled>>

-----------------------------------------------------------------------------

Init ==
  /\ runs = 1
  /\ ver = [f \in Files |-> 0]
  /\ feed = << {} >>            \* what happened before anybody looked
  /\ token = 0
  /\ snap = [k \in Keys |-> NoEntry]
  /\ idx = [f \in Files |-> {}]
  /\ known = {} /\ marker = 0
  /\ req = [w \in Workers |-> Idle]
  /\ shown = 0 /\ handled = {} /\ faults = 0

WorkerStep(w) ==
  \/ ReadToken(w) \/ Seed(w) \/ List(w) \/ Expired(w) \/ ObserveFails(w)
  \/ Advance(w) \/ Reseed(w) \/ Clear(w) \/ Invalidate(w) \/ Drop(w) \/ Get(w)
  \/ Overlay(w) \/ LoadListing(w) \/ LoadContent(w) \/ Store(w)
  \/ (\E f \in Files : IndexRead(w, f)) \/ IndexWrite(w) \/ IndexDone(w) \/ Reply(w)

Next ==
  \/ \E f \in Files : Edit(f) \/ Evict(f)
  \/ NewRun
  \/ \E w \in Workers :
       WorkerStep(w) \/ Crash(w) \/ \E a \in Asks : Request(w, a[1], a[2])

Spec == Init /\ [][Next]_vars

-----------------------------------------------------------------------------
(* Properties.                                                             *)

\* Types; the token is a position of the feed, entries and index name keys.
TypeOK ==
  /\ runs \in 1..MaxRuns /\ ver \in [Files -> Versions]
  /\ feed \in Seq(SUBSET Files) /\ Len(feed) \in 1..(MaxChanges + 1)
  /\ token \in 0..Len(feed)
  /\ snap \in [Keys -> Envelopes] /\ idx \in [Files -> SUBSET Keys]
  /\ known \subseteq Keys /\ marker \in 0..MaxRuns
  /\ req \in [Workers -> Handlers]
  /\ shown \in 0..MaxRuns /\ handled \subseteq 1..Len(feed) /\ faults \in 0..MaxFaults

\* opp-cache-architecture.md: "we never serve cached data after Drive has
\* reported the change".  A response is built from nothing older than what
\* Drive held when the request came in, and, if a run was asked for, of that run.
ServesCurrent ==
  \A w \in Workers : At(w, "reply") =>
    /\ \A f \in Deps(req[w].env) : req[w].env.seen[f] >= req[w].since[f]
    /\ req[w].key # 0 => req[w].env.run = req[w].key

\* An entry that is out of date is one somebody will still hear about: the
\* change lies past the token, or a worker is about to act on it.
StaleIsPending ==
  \A k \in Keys : Present(k) => \A f \in Deps(snap[k]) :
    snap[k].seen[f] < ver[f] =>
      \/ token # 0 /\ \E p \in (token + 1)..Len(feed) : f \in feed[p]
      \/ \E w \in Workers : f \in Changed(w)

\* The fleet loses no change: what lies behind the token was acted on, or
\* is in the hands of a worker.
NothingSkipped ==
  \A p \in 2..token : p \in handled \/ \E w \in Workers : p \in req[w].took

\* freshness_overlays.py: the run selector does not go blind.  A run that a
\* response has listed is in every later response.
RunsStayListed ==
  \A w \in Workers : At(w, "reply") => req[w].shows >= req[w].shown

=============================================================================
