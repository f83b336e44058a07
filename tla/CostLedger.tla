----------------------------- MODULE CostLedger -----------------------------
(***************************************************************************)
(* The transcript of one session and the cost derived from it              *)
(* (ingest/live_ingest.py, ingest/sources.py, canopy/transcripts.py).      *)
(*                                                                         *)
(* A session that ran on this host has a local row, the source of record;  *)
(* one that ran on canopy has a canopy row, a cache of the local bytes and *)
(* of those of every canopy turn.  Drivers that end, reconciles, readers   *)
(* and the recompute command read and write both without a lock.           *)
(* A byte is <<0, n>>, all that local turn n wrote, or <<i, k>>, the k-th  *)
(* of canopy turn i.  A transcript is a sequence of pieces, the bytes of   *)
(* one turn each.                                                          *)
(***************************************************************************)
EXTENDS Naturals, Sequences, FiniteSets

CONSTANTS
  Workers,       \* drivers, requests and commands in flight
  MaxLocal,      \* bound on local turns
  MaxCostTurns,  \* bound on canopy turns
  MaxBytes,      \* bound on the bytes of a canopy turn
  MaxExtras,     \* bound on views, commands, and what fails
  CachedCommand  \* may the command run with --no-refresh?

ASSUME CostLedgerAssumption ==
  /\ MaxLocal \in Nat /\ MaxCostTurns \in Nat /\ MaxBytes \in Nat /\ MaxExtras \in Nat
  /\ CachedCommand \in BOOLEAN

VARIABLES
  rows,    \* the session's IngestUpload rows, oldest first: [source, ids, raw]
  turns,   \* its canopy turns: [status, bytes, recent]
  ended,   \* number of local turns that ended
  cost,    \* the size of what its cost_breakdown was derived from
  job,     \* job[w]: what worker w does
  extras   \* views, commands and failures so far

costVars == <<rows, turns, ended, cost, job, extras>>

CanopyStatuses == {"running", "complete", "error"}
JobSteps == {"idle", "drive", "append", "look", "fetch", "compose", "seat", "derive"}
NoJob == [step |-> "idle", known |-> FALSE, loaded |-> 0, fresh |-> FALSE, saves |-> FALSE,
          seen |-> <<>>, raw |-> <<>>, seat |-> 0, whole |-> TRUE, owed |-> {}]

JobAt(w, s)   == job[w].step = s
Takes(w, j) == job' = [job EXCEPT ![w] = j]
JobEnds(w)    == Takes(w, NoJob)
Extra      == extras < MaxExtras /\ extras' = extras + 1

-----------------------------------------------------------------------------
(* canopy: turns run, write their transcript, and may flush after the end *)

Dispatch ==
  /\ Len(turns) < MaxCostTurns
  /\ \A i \in DOMAIN turns : turns[i].status # "running"
  /\ turns' = Append(turns, [status |-> "running", bytes |-> 0, recent |-> TRUE])
  /\ UNCHANGED <<rows, ended, cost, job, extras>>

Emit(i) ==
  /\ turns[i].recent /\ turns[i].bytes < MaxBytes
  /\ turns' = [turns EXCEPT ![i].bytes = @ + 1]
  /\ UNCHANGED <<rows, ended, cost, job, extras>>

\* TRANSCRIPT_SETTLE_SECONDS after its end; no worker takes that long between
\* two of its steps.
SettlesDown(i) ==
  /\ turns[i].recent /\ turns[i].status # "running"
  /\ \A k \in 1..(i - 1) : ~turns[k].recent
  /\ \A w \in Workers : job[w].step \in {"idle", "drive"}
  /\ turns' = [turns EXCEPT ![i].recent = FALSE]
  /\ UNCHANGED <<rows, ended, cost, job, extras>>

-----------------------------------------------------------------------------
(* What starts a worker: each loads the session row first *)

Loaded == [NoJob EXCEPT !.known = (turns # <<>>), !.loaded = cost]

\* A local turn; TurnDriver shows when there is one driver at most.
Drive(w) ==
  /\ JobAt(w, "idle") /\ ended < MaxLocal
  /\ \A v \in Workers : job[v].step \notin {"drive", "append"}
  /\ Takes(w, [Loaded EXCEPT !.step = "drive", !.saves = TRUE])
  /\ UNCHANGED <<rows, turns, ended, cost, extras>>

\* A reconcile that finds the turn over; it recomputes past the cache.
ReconcileCost(w, i, status) ==
  /\ JobAt(w, "idle") /\ turns[i].status = "running" /\ status # "running"
  /\ turns' = [turns EXCEPT ![i].status = status]
  /\ Takes(w, [Loaded EXCEPT !.step = "look", !.fresh = TRUE, !.saves = TRUE])
  /\ UNCHANGED <<rows, ended, cost, extras>>

\* The structure view reads and saves nothing; the command saves.
ReadsCost(w) ==
  /\ JobAt(w, "idle") /\ Extra
  /\ \E j \in {[Loaded EXCEPT !.step = "look"],
               [Loaded EXCEPT !.step = "look", !.saves = TRUE, !.fresh = ~CachedCommand]} :
       Takes(w, j)
  /\ UNCHANGED <<rows, turns, ended, cost>>

-----------------------------------------------------------------------------
(* store_session_transcript: the local row *)

Newest(source) == {r \in DOMAIN rows : rows[r].source = source}
RowOf(source)  == IF Newest(source) = {} THEN 0
                  ELSE CHOOSE r \in Newest(source) : \A s \in Newest(source) : s <= r
RawOf(r)       == IF r = 0 THEN <<>> ELSE rows[r].raw
LocalRow       == RowOf("local")
Prefix         == RawOf(LocalRow)
LocalPiece(k)  == {<<0, k>>}

Seated(r, row) == IF r = 0 THEN Append(rows, row) ELSE [rows EXCEPT ![r] = row]

ReadPrior(w) ==
  /\ JobAt(w, "drive")
  /\ Takes(w, [job[w] EXCEPT !.step = "append", !.seat = LocalRow,
                            !.raw = Append(RawOf(LocalRow), LocalPiece(ended + 1))])
  /\ ended' = ended + 1
  /\ UNCHANGED <<rows, turns, cost, extras>>

AppendTurn(w) ==
  /\ JobAt(w, "append")
  /\ rows' = Seated(job[w].seat, [source |-> "local", ids |-> 0, raw |-> job[w].raw])
  /\ Takes(w, [job[w] EXCEPT !.step = "look", !.raw = <<>>, !.seat = 0])
  /\ UNCHANGED <<turns, ended, cost, extras>>

-----------------------------------------------------------------------------
(* read_session_transcript and refresh_canopy_cache *)

Piece(i)     == {i} \X (1..turns[i].bytes)
Pieces(k)    == [i \in 1..k |-> Piece(i)]
BytesOf(raw) == UNION {raw[k] : k \in DOMAIN raw}
StartsWith(raw, p) == Len(p) <= Len(raw) /\ SubSeq(raw, 1, Len(p)) = p

\* The newest canopy turn is running, or ended a moment ago.
Provisional == turns # <<>> /\ LET t == turns[Len(turns)] IN t.status = "running" \/ t.recent

MustFetchByTurns(w, r) ==  \* a slip: a local turn since does not count
  job[w].fresh \/ r = 0 \/ Provisional \/ rows[r].ids # Len(turns)

MustFetch(w, r) ==
  \/ job[w].fresh \/ r = 0 \/ Provisional
  \/ rows[r].ids # Len(turns) \/ ~StartsWith(rows[r].raw, Prefix)

\* What a read that begins now must not miss.
Owed == BytesOf(Prefix \o Pieces(Len(turns)))

\* The rows, the turns, and the decision whether to go to canopy.
LookUp(w) ==
  /\ JobAt(w, "look")
  /\ LET r == RowOf("canopy")
         j == [job[w] EXCEPT !.owed = Owed, !.fresh = FALSE,
                             !.seen = [i \in DOMAIN turns |-> turns[i].status]]
     IN IF ~job[w].known
          THEN Takes(w, [j EXCEPT !.step = "derive", !.raw = RawOf(Len(rows))])
          ELSE Takes(w, [j EXCEPT !.step = IF MustFetch(w, r) THEN "fetch" ELSE "derive",
                                 !.raw = IF r = 0 THEN Prefix ELSE rows[r].raw])
  /\ UNCHANGED <<rows, turns, ended, cost, extras>>

\* A turn that ran to its end said something: without a byte it is not whole.
TurnMissing(w) == \E i \in DOMAIN job[w].seen : job[w].seen[i] = "complete" /\ turns[i].bytes = 0

\* All turns or none.  A call that fails, or a missing transcript: what the
\* cache has is served, and is known to be short.
FetchTurns(w) ==
  /\ JobAt(w, "fetch") /\ ~TurnMissing(w)
  /\ Takes(w, [job[w] EXCEPT !.step = "compose", !.raw = Pieces(Len(job[w].seen))])
  /\ UNCHANGED <<rows, turns, ended, cost, extras>>

FetchFails(w) ==
  /\ JobAt(w, "fetch")
  /\ \/ TurnMissing(w) /\ UNCHANGED extras
     \/ Extra
  /\ Takes(w, [job[w] EXCEPT !.step = "derive", !.whole = FALSE])
  /\ UNCHANGED <<rows, turns, ended, cost>>

Compose(w) ==
  /\ JobAt(w, "compose")
  /\ Takes(w, [job[w] EXCEPT !.step = "seat", !.raw = Prefix \o job[w].raw,
                            !.seat = RowOf("canopy")])
  /\ UNCHANGED <<rows, turns, ended, cost, extras>>

Seat(w) ==
  /\ JobAt(w, "seat")
  /\ rows' = Seated(job[w].seat, [source |-> "canopy", ids |-> Len(job[w].seen),
                                  raw |-> job[w].raw])
  /\ Takes(w, [job[w] EXCEPT !.step = "derive"])
  /\ UNCHANGED <<turns, ended, cost, extras>>

-----------------------------------------------------------------------------
(* recompute_cost_from_source *)

\* What a transcript costs: a byte that is in two of its pieces counts twice.
Size(raw) == Cardinality(UNION {{k} \X raw[k] : k \in DOMAIN raw})

\* Not from a short read, and never less than the figure the worker loaded.
Saves(w) == LET size == Size(job[w].raw) IN
  job[w].saves /\ job[w].whole /\ size > 0 /\ size >= job[w].loaded

Derive(w) ==
  /\ JobAt(w, "derive")
  /\ cost' = IF Saves(w) THEN Size(job[w].raw) ELSE cost
  /\ JobEnds(w) /\ UNCHANGED <<rows, turns, ended, extras>>

JobStops(w) ==
  /\ ~JobAt(w, "idle") /\ Extra
  /\ JobEnds(w) /\ UNCHANGED <<rows, turns, ended, cost>>

-----------------------------------------------------------------------------

CostInit ==
  /\ rows = <<>> /\ turns = <<>> /\ ended = 0 /\ cost = 0
  /\ job = [w \in Workers |-> NoJob] /\ extras = 0

CostNext ==
  \/ Dispatch
  \/ \E i \in DOMAIN turns : Emit(i) \/ SettlesDown(i)
  \/ \E w \in Workers :
       \/ Drive(w) \/ ReadsCost(w)
       \/ \E i \in DOMAIN turns, s \in CanopyStatuses : ReconcileCost(w, i, s)
       \/ ReadPrior(w) \/ AppendTurn(w)
       \/ LookUp(w) \/ FetchTurns(w) \/ FetchFails(w) \/ Compose(w) \/ Seat(w)
       \/ Derive(w) \/ JobStops(w)

CostSpec == CostInit /\ [][CostNext]_costVars

-----------------------------------------------------------------------------
(* Properties *)

Apart(raw) == \A k, l \in DOMAIN raw : k # l => raw[k] \cap raw[l] = {}

\* A figure about to be saved counts every byte of the transcript that was
\* there when its read began, local and of every canopy turn, and none twice,
\* whatever other workers append, fetch and seat meanwhile and whichever calls
\* fail; and no turn recorded as complete counts for nothing.  Not claimed for
\* a worker whose copy of the session is from before it went to canopy.
CostIsWhole ==
  \A w \in Workers :
    JobAt(w, "derive") /\ Saves(w) /\ (turns # <<>> => job[w].known) =>
      /\ job[w].owed \subseteq BytesOf(job[w].raw)
      /\ Apart(job[w].raw)
      /\ \A i \in DOMAIN job[w].seen :
           job[w].seen[i] = "complete" => \E k \in 1..MaxBytes : <<i, k>> \in BytesOf(job[w].raw)

=============================================================================
