------------------------- MODULE SnapshotCacheProofs -------------------------
(***************************************************************************)
(* The snapshot cache, with any number of runs, changes and faults: the    *)
(* fleet skips no change, whatever calls fail and wherever a worker dies   *)
(* but between the token and what it obliges to; and a worker that serves  *)
(* one request after the other serves nothing that is out of date.         *)
(***************************************************************************)
EXTENDS SnapshotCache, TLAPS

\* A file has fewer versions than there are changes; what a request read of the
\* feed is there.
Bounds ==
  /\ \A f \in Files : ver[f] < Len(feed)
  /\ \A w \in Workers : req[w].tok <= Len(feed) /\ req[w].took \subseteq 1..Len(feed)

TypeInv == TypeOK /\ Bounds

-----------------------------------------------------------------------------
\* A worker dies, but never before it acts on a token it has stored.
ActsOnTokens == CrashAt \cap {"invalidate", "clear"} = {}

Safe(p) ==
  \/ p \in handled
  \/ \E w \in Workers : req[w].pc \in {"invalidate", "clear"} /\ p \in req[w].took

\* What a request is about to take for done is done, or is with those who took
\* it along when they stored the token; or the request has it itself.
SkipInv ==
  /\ \A p \in 2..Len(feed) : feed[p] # {}
  /\ \A p \in 2..token : Safe(p)
  /\ \A w \in Workers :
       /\ At(w, "list") => req[w].tok >= 1 /\ \A p \in 2..req[w].tok : Safe(p)
       /\ At(w, "advance") => /\ req[w].took \subseteq 2..Len(feed)
                              /\ \A p \in 2..req[w].tok : Safe(p) \/ p \in req[w].took

-----------------------------------------------------------------------------
\* One request after the other, and nothing fails but that a token expires.
Serial ==
  /\ \E w \in Workers : Workers = {w}
  /\ ~FeedFails /\ ~Evictions /\ CrashAt = {} /\ ParentReports = {TRUE}

\* A change of the file lies past the token; a request found it changed.
Ahead(f)   == token # 0 /\ \E p \in (token + 1)..Len(feed) : f \in feed[p]
Touched(r) == UNION {feed[p] : p \in r.took}

\* An envelope lists the runs there were when the folder was that old.
Lists(e) == e.list = 1 + e.seen[Folder] /\ e.list <= runs

\* An entry, beside the request r: it is indexed under what it was read from, or
\* about to be.  When r looks for an entry, none is left that is older than r, but
\* of files it found changed.
EntryOK(k, r) ==
  LET e == snap[k] IN
  /\ token # 0 /\ Lists(e) /\ (k # 0 => e.run = k)
  /\ \A f \in Deps(e) :
       /\ e.seen[f] < ver[f] => Ahead(f) \/ f \in Touched(r)
       /\ \/ k \in idx[f]
          \/ r.key = k /\ r.pc \in {"index", "put"} /\ f \in r.todo
          \/ r.key = k /\ r.pc = "put" /\ f = r.file
       /\ r.pc \in {"advance", "invalidate", "drop", "get"} /\ e.seen[f] < r.since[f]
            => f \in Touched(r)
  /\ k \in known \/ (r.key = k /\ r.pc \in {"index", "put"})

\* What a request has in hand is of the run it asked for, and not older than it.
Serves(r) ==
  /\ Lists(r.env) /\ r.env.run # 0 /\ (r.key # 0 => r.env.run = r.key)
  /\ r.env.seen[Folder] >= r.since[Folder]

RequestOK(r) ==
  /\ \A f \in Files : r.since[f] <= ver[f]
  /\ r.shown <= 1 + r.since[Folder]
  /\ token = 0 => r.pc \in {"idle", "observe", "seed"}
  /\ r.pc = "seed" => token = 0
  /\ r.pc = "list" => r.tok = token
  /\ r.pc = "advance" => r.tok # 0 /\ r.took = (token + 1)..r.tok
  /\ r.pc \notin {"advance", "invalidate", "clear"} => Touched(r) = {}
  /\ r.pc \in {"hit", "content", "store", "index", "put", "reply"} => Serves(r)
  /\ r.pc \in {"hit", "store", "index", "put", "reply"} =>
       \A f \in Deps(r.env) : r.env.seen[f] >= r.since[f]
  /\ r.pc = "content" /\ r.env.seen[Folder] < ver[Folder] => Ahead(Folder)
  /\ r.pc = "store" => \A f \in Deps(r.env) : r.env.seen[f] < ver[f] => Ahead(f)
  /\ r.pc = "put" => r.members = idx[r.file]
  /\ r.pc = "reply" => r.shows >= r.shown /\ r.shows <= runs

SerialInv ==
  /\ runs = 1 + ver[Folder] /\ shown <= runs
  /\ \A w \in Workers : RequestOK(req[w]) /\ \A k \in Keys : Present(k) => EntryOK(k, req[w])

-----------------------------------------------------------------------------
(* Requests: what a step makes of one.                                     *)

Turns(w, r) == req' = [req EXCEPT ![w] = r]

\* Who asks for what, and what may not be fallen short of.
Same(r, q) == r.key = q.key /\ r.refresh = q.refresh /\ r.since = q.since /\ r.shown = q.shown

\* What was read of the feed; the envelope, and the index entry being rewritten.
Took(r, q)  == r.tok = q.tok /\ r.took = q.took
Holds(r, q) == r.env = q.env /\ r.todo = q.todo /\ r.file = q.file /\ r.members = q.members

LEMMA Constants ==
  /\ MaxRuns \in Nat \ {0} /\ MaxChanges \in Nat \ {0} /\ MaxFaults \in Nat
  /\ Folder \in Files /\ 0 \in Keys /\ 0 \in Versions
  /\ [f \in Files |-> 0] \in [Files -> Versions] /\ NoEntry \in Envelopes
BY SnapshotCacheAssumption DEF Files, Keys, Versions, Folder, NoEntry, Envelopes

LEMMA IdleTask ==
  /\ Idle \in Handlers /\ Idle.pc = "idle" /\ Idle.tok = 0 /\ Idle.took = {}
  /\ Idle.since = [f \in Files |-> 0] /\ Idle.shown = 0
<1>1. PICK zero \in [Files -> Versions] : zero = [f \in Files |-> 0]
  BY Constants
<1>2. /\ 0 \in 0..(MaxChanges + 1) /\ 0 \in 0..MaxRuns /\ 0 \in Keys /\ 0 \in Files
      /\ {} \in SUBSET (1..(MaxChanges + 1)) /\ {} \in SUBSET Files /\ {} \in SUBSET Keys
      /\ NoEntry \in Envelopes
  BY Constants DEF Folder
<1>3. Idle = [pc |-> "idle", key |-> 0, refresh |-> FALSE, tok |-> 0, took |-> {},
              env |-> NoEntry, todo |-> {}, file |-> 0, members |-> {},
              since |-> zero, shows |-> 0, shown |-> 0]
  BY <1>1 DEF Idle
<1>4. Idle \in Handlers
  BY <1>2, <1>3 DEF Handlers
<1>5. QED
  BY <1>1, <1>3, <1>4

LEMMA Turned ==
  ASSUME TypeInv, NEW w \in Workers, NEW r \in Handlers, Turns(w, r)
  PROVE  req' \in [Workers -> Handlers] /\ req'[w] = r /\ \A v \in Workers \ {w} : req'[v] = req[v]
BY DEF Turns, TypeInv, TypeOK

\* A request goes on.
LEMMA GoesOn ==
  ASSUME TypeInv, NEW w \in Workers, NEW p \in Steps, Goto(w, p)
  PROVE  \E r \in Handlers : /\ Turns(w, r) /\ r.pc = p /\ r.shows = req[w].shows
                             /\ Same(r, req[w]) /\ Took(r, req[w]) /\ Holds(r, req[w])
<1>1. PICK q \in Handlers : q = req[w]
  BY DEF TypeInv, TypeOK
<1>2. PICK r \in Handlers : r = [q EXCEPT !.pc = p]
  BY DEF Handlers
<1>3. r.pc = p /\ r.shows = q.shows /\ Same(r, q) /\ Took(r, q) /\ Holds(r, q)
  BY <1>2 DEF Handlers, Same, Took, Holds
<1>4. Turns(w, r)
  BY <1>1, <1>2 DEF Goto, Turns, TypeInv, TypeOK
<1>5. QED
  BY <1>1, <1>3, <1>4

\* A request comes in.
LEMMA Asked ==
  ASSUME TypeInv, NEW w \in Workers, NEW k \in Keys, NEW refresh \in BOOLEAN,
         Request(w, k, refresh)
  PROVE  \E r \in Handlers : /\ Turns(w, r) /\ r.pc = "observe" /\ r.key = k /\ r.tok = 0 /\ r.took = {}
                             /\ r.since = ver /\ r.shown = shown
<1>1. [Idle EXCEPT !.pc = "observe", !.key = k, !.refresh = refresh, !.since = ver,
                   !.shown = shown] \in Handlers
  BY IdleTask DEF Handlers, Steps, TypeInv, TypeOK
<1>2. PICK r \in Handlers :
        r = [Idle EXCEPT !.pc = "observe", !.key = k, !.refresh = refresh, !.since = ver,
                         !.shown = shown]
  BY <1>1
<1>3. /\ r.pc = "observe" /\ r.key = k /\ r.tok = 0 /\ r.took = {}
      /\ r.since = ver /\ r.shown = shown
  BY <1>2 DEF Idle
<1>4. Turns(w, r)
  BY <1>2 DEF Request, Turns
<1>5. QED
  BY <1>3, <1>4

\* A request reads the token, or the feed.
LEMMA Observes ==
  ASSUME TypeInv, NEW w \in Workers, ReadToken(w) \/ List(w) \/ Reseed(w)
  PROVE  \E r \in Handlers :
           /\ Turns(w, r) /\ Same(r, req[w]) /\ Holds(r, req[w])
           /\ ReadToken(w) => /\ r.pc = IF token = 0 THEN "seed" ELSE "list"
                              /\ r.tok = token /\ r.took = req[w].took
           /\ List(w) => /\ r.pc = "advance" /\ r.tok = Len(feed)
                         /\ r.took = (req[w].tok + 1)..Len(feed)
           /\ Reseed(w) => r.pc = "clear" /\ r.tok = req[w].tok /\ r.took = 1..Len(feed)
<1>1. PICK q \in Handlers : q = req[w]
  BY DEF TypeInv, TypeOK
<1>2. /\ token \in 0..(MaxChanges + 1) /\ Len(feed) \in 1..(MaxChanges + 1)
      /\ q.tok \in Nat
  BY <1>1, Constants DEF TypeInv, TypeOK, Handlers
<1>3. CASE ReadToken(w)
  <2>1. PICK p \in Steps : p = IF token = 0 THEN "seed" ELSE "list"
    BY DEF Steps
  <2>2. PICK r \in Handlers : r = [q EXCEPT !.pc = p, !.tok = token]
    <3>1. [q EXCEPT !.pc = p, !.tok = token] \in Handlers
      BY <1>2 DEF Handlers
    <3>2. QED
      BY <3>1
  <2>3. r.pc = p /\ r.tok = token /\ r.took = q.took /\ Same(r, q) /\ Holds(r, q)
    BY <2>2 DEF Handlers, Same, Holds
  <2>4. Turns(w, r)
    BY <1>1, <1>3, <2>1, <2>2 DEF ReadToken, Turns, TypeInv, TypeOK
  <2>5. ~List(w) /\ ~Reseed(w)
    BY <1>3 DEF ReadToken, List, Reseed, At
  <2>6. QED
    BY <1>1, <2>1, <2>3, <2>4, <2>5
<1>4. CASE List(w)
  <2>1. PICK n \in 1..(MaxChanges + 1) : n = Len(feed)
    BY <1>2
  <2>2. PICK s \in SUBSET (1..(MaxChanges + 1)) : s = (q.tok + 1)..n
    BY <1>2, <2>1, Constants
  <2>3. PICK r \in Handlers : r = [q EXCEPT !.pc = "advance", !.tok = n, !.took = s]
    <3>1. [q EXCEPT !.pc = "advance", !.tok = n, !.took = s] \in Handlers
      <4>1. n \in 0..(MaxChanges + 1)
        BY Constants
      <4>2. QED
        BY <4>1 DEF Handlers, Steps
    <3>2. QED
      BY <3>1
  <2>4. r.pc = "advance" /\ r.tok = n /\ r.took = s /\ Same(r, q) /\ Holds(r, q)
    BY <2>3 DEF Handlers, Same, Holds
  <2>5. Turns(w, r)
    BY <1>1, <1>4, <2>1, <2>2, <2>3 DEF List, Turns, TypeInv, TypeOK
  <2>6. ~ReadToken(w) /\ ~Reseed(w)
    BY <1>4 DEF ReadToken, List, Reseed, At
  <2>7. QED
    BY <1>1, <2>1, <2>2, <2>4, <2>5, <2>6
<1>5. CASE Reseed(w)
  <2>1. PICK s \in SUBSET (1..(MaxChanges + 1)) : s = 1..Len(feed)
    BY <1>2, Constants
  <2>2. PICK r \in Handlers : r = [q EXCEPT !.pc = "clear", !.took = s]
    <3>1. [q EXCEPT !.pc = "clear", !.took = s] \in Handlers
      BY DEF Handlers, Steps
    <3>2. QED
      BY <3>1
  <2>3. r.pc = "clear" /\ r.tok = q.tok /\ r.took = s /\ Same(r, q) /\ Holds(r, q)
    BY <2>2 DEF Handlers, Same, Holds
  <2>4. Turns(w, r)
    BY <1>1, <1>5, <2>1, <2>2 DEF Reseed, Turns, TypeInv, TypeOK
  <2>5. ~List(w) /\ ~ReadToken(w)
    BY <1>5 DEF ReadToken, List, Reseed, At
  <2>6. QED
    BY <1>1, <2>1, <2>3, <2>4, <2>5
<1>6. QED
  BY <1>3, <1>4, <1>5

\* What it found has been acted on.
LEMMA Acted ==
  ASSUME TypeInv, NEW w \in Workers, Clear(w) \/ Invalidate(w)
  PROVE  \E r \in Handlers : /\ Turns(w, r) /\ r.pc = "drop" /\ r.took = {} /\ r.tok = req[w].tok
                             /\ Same(r, req[w]) /\ Holds(r, req[w])
<1>1. PICK q \in Handlers : q = req[w]
  BY DEF TypeInv, TypeOK
<1>2. PICK r \in Handlers : r = [q EXCEPT !.pc = "drop", !.took = {}]
  <2>1. [q EXCEPT !.pc = "drop", !.took = {}] \in Handlers
    BY DEF Handlers, Steps
  <2>2. QED
    BY <2>1
<1>3. r.pc = "drop" /\ r.took = {} /\ r.tok = q.tok /\ Same(r, q) /\ Holds(r, q)
  BY <1>2 DEF Handlers, Same, Holds
<1>4. Turns(w, r)
  BY <1>1, <1>2 DEF Clear, Invalidate, Turns, TypeInv, TypeOK
<1>5. QED
  BY <1>1, <1>3, <1>4

\* A request finds an entry, or none.
LEMMA Finds ==
  ASSUME TypeInv, NEW w \in Workers, Get(w)
  PROVE  \E r \in Handlers : /\ Turns(w, r) /\ Same(r, req[w]) /\ Took(r, req[w])
                             /\ r.env = Found(req[w].key)
                             /\ r.pc = IF r.env.run # 0 THEN "hit" ELSE "listing"
<1>1. PICK q \in Handlers : q = req[w]
  BY DEF TypeInv, TypeOK
<1>2. PICK e \in Envelopes : e = Found(q.key)
  BY Constants DEF Found, Handlers, TypeInv, TypeOK
<1>3. PICK p \in Steps : p = IF e.run # 0 THEN "hit" ELSE "listing"
  BY DEF Steps
<1>4. PICK r \in Handlers : r = [q EXCEPT !.env = e, !.pc = p]
  <2>1. [q EXCEPT !.env = e, !.pc = p] \in Handlers
    BY DEF Handlers
  <2>2. QED
    BY <2>1
<1>5. r.pc = p /\ r.env = e /\ Same(r, q) /\ Took(r, q)
  BY <1>4 DEF Handlers, Same, Took
<1>6. Turns(w, r)
  BY <1>1, <1>2, <1>3, <1>4 DEF Get, Turns, TypeInv, TypeOK
<1>7. QED
  BY <1>1, <1>2, <1>3, <1>5, <1>6

\* A request's answer: what its envelope lists, or the folders there are.
LEMMA Answers ==
  ASSUME TypeInv, NEW w \in Workers, Overlay(w) \/ IndexDone(w)
  PROVE  \E r \in Handlers : /\ Turns(w, r) /\ r.pc = "reply" /\ r.shows \in {req[w].env.list, runs}
                             /\ Same(r, req[w]) /\ Took(r, req[w]) /\ Holds(r, req[w])
<1>1. PICK q \in Handlers : q = req[w]
  BY DEF TypeInv, TypeOK
<1>2. PICK n \in 0..MaxRuns :
        /\ n \in {q.env.list, runs}
        /\ req' = [req EXCEPT ![w].pc = "reply", ![w].shows = n]
  <2>1. q.env.list \in 0..MaxRuns /\ runs \in 0..MaxRuns
    BY Constants DEF TypeInv, TypeOK, Handlers, Envelopes
  <2>2. \/ req' = [req EXCEPT ![w].pc = "reply", ![w].shows = q.env.list]
        \/ req' = [req EXCEPT ![w].pc = "reply", ![w].shows = runs]
    BY <1>1 DEF Overlay, IndexDone
  <2>3. QED
    BY <2>1, <2>2
<1>3. PICK r \in Handlers : r = [q EXCEPT !.pc = "reply", !.shows = n]
  <2>1. [q EXCEPT !.pc = "reply", !.shows = n] \in Handlers
    BY DEF Handlers, Steps
  <2>2. QED
    BY <2>1
<1>4. r.pc = "reply" /\ r.shows = n /\ Same(r, q) /\ Took(r, q) /\ Holds(r, q)
  BY <1>3 DEF Handlers, Same, Took, Holds
<1>5. Turns(w, r)
  BY <1>1, <1>2, <1>3 DEF Turns, TypeInv, TypeOK
<1>6. QED
  BY <1>1, <1>2, <1>4, <1>5

\* A request builds an envelope: the folder first, then each run.
LEMMA ListsRuns ==
  ASSUME TypeInv, NEW w \in Workers, LoadListing(w)
  PROVE  \E r \in Handlers : /\ Turns(w, r) /\ r.pc = "content" /\ Same(r, req[w]) /\ Took(r, req[w])
                             /\ r.env.run = IF req[w].key = 0 THEN runs ELSE req[w].key
                             /\ r.env.list = runs /\ r.env.seen[Folder] = ver[Folder]
<1>1. PICK q \in Handlers : q = req[w]
  BY DEF TypeInv, TypeOK
<1>2. PICK seen \in [Files -> Versions] : seen = [f \in Files |-> IF f = Folder THEN ver[f] ELSE 0]
  BY Constants DEF TypeInv, TypeOK
<1>3. PICK n \in 0..MaxRuns : n = IF q.key = 0 THEN runs ELSE q.key
  <2>1. q.key \in 0..MaxRuns /\ runs \in 0..MaxRuns
    BY Constants DEF TypeInv, TypeOK, Handlers, Keys
  <2>2. QED
    BY <2>1
<1>4. PICK e \in Envelopes : e = [run |-> n, list |-> runs, seen |-> seen]
  <2>1. runs \in 0..MaxRuns
    BY Constants DEF TypeInv, TypeOK
  <2>2. QED
    BY <2>1 DEF Envelopes
<1>5. PICK r \in Handlers : r = [q EXCEPT !.pc = "content", !.env = e]
  <2>1. [q EXCEPT !.pc = "content", !.env = e] \in Handlers
    BY DEF Handlers, Steps
  <2>2. QED
    BY <2>1
<1>6. r.pc = "content" /\ r.env = e /\ Same(r, q) /\ Took(r, q)
  BY <1>5 DEF Handlers, Same, Took
<1>7. e.run = n /\ e.list = runs /\ e.seen[Folder] = ver[Folder]
  BY <1>2, <1>4, Constants
<1>8. Turns(w, r)
  BY <1>1, <1>2, <1>3, <1>4, <1>5 DEF LoadListing, Turns, TypeInv, TypeOK
<1>9. QED
  BY <1>1, <1>3, <1>6, <1>7, <1>8

LEMMA ReadsRuns ==
  ASSUME TypeInv, NEW w \in Workers, LoadContent(w)
  PROVE  \E r \in Handlers :
           /\ Turns(w, r) /\ r.pc = "store" /\ Same(r, req[w]) /\ Took(r, req[w])
           /\ r.env.run = req[w].env.run /\ r.env.list = req[w].env.list
           /\ r.env.seen[Folder] = req[w].env.seen[Folder]
           /\ \A f \in Deps(r.env) \ {Folder} : r.env.seen[f] = ver[f]
<1>1. PICK q \in Handlers, d \in Envelopes : q = req[w] /\ d = q.env
  BY DEF TypeInv, TypeOK, Handlers
<1>2. PICK seen \in [Files -> Versions] :
        seen = [f \in Files |-> IF f \in Deps(d) \ {Folder} THEN ver[f] ELSE d.seen[f]]
  <2>1. [f \in Files |-> IF f \in Deps(d) \ {Folder} THEN ver[f] ELSE d.seen[f]]
          \in [Files -> Versions]
    BY DEF TypeInv, TypeOK, Envelopes
  <2>2. QED
    BY <2>1
<1>3. PICK e \in Envelopes : e = [d EXCEPT !.seen = seen]
  <2>1. [d EXCEPT !.seen = seen] \in Envelopes
    BY DEF Envelopes
  <2>2. QED
    BY <2>1
<1>4. PICK r \in Handlers : r = [q EXCEPT !.pc = "store", !.env = e]
  <2>1. [q EXCEPT !.pc = "store", !.env = e] \in Handlers
    BY DEF Handlers, Steps
  <2>2. QED
    BY <2>1
<1>5. r.pc = "store" /\ r.env = e /\ Same(r, q) /\ Took(r, q)
  BY <1>4 DEF Handlers, Same, Took
<1>6. e.run = d.run /\ e.list = d.list /\ e.seen = seen /\ Deps(e) = Deps(d)
  BY <1>3 DEF Envelopes, Deps
<1>7. \A f \in Deps(d) : f \in Files
  BY Constants DEF Deps, Envelopes, Files
<1>8. Turns(w, r)
  <2>1. req' = [req EXCEPT ![w].pc = "store", ![w].env.seen = seen]
    <3>1. seen = [f \in Files |-> IF f \in Deps(req[w].env) \ {Folder}
                                  THEN ver[f] ELSE req[w].env.seen[f]]
      BY <1>1, <1>2
    <3>2. QED
      BY <3>1 DEF LoadContent
  <2>2. [req[w] EXCEPT !.pc = "store", !.env.seen = seen] = r
    BY <1>1, <1>3, <1>4 DEF Handlers, Envelopes
  <2>3. req' = [req EXCEPT ![w] = [req[w] EXCEPT !.pc = "store", !.env.seen = seen]]
    BY <2>1 DEF TypeInv, TypeOK
  <2>4. QED
    BY <2>2, <2>3 DEF Turns
<1>9. QED
  BY <1>1, <1>2, <1>5, <1>6, <1>7, <1>8, Constants

\* A request stores its envelope, and rewrites one index entry after the other.
LEMMA Indexes ==
  ASSUME TypeInv, NEW w \in Workers, Store(w) \/ \E f \in Files : IndexRead(w, f)
  PROVE  \E r \in Handlers :
           /\ Turns(w, r) /\ Same(r, req[w]) /\ Took(r, req[w]) /\ r.env = req[w].env
           /\ Store(w) => r.pc = "index" /\ r.todo = Deps(r.env)
           /\ ~Store(w) => \E f \in req[w].todo :
                r.pc = "put" /\ r.file = f /\ r.members = idx[f] /\ r.todo = req[w].todo \ {f}
<1>1. PICK q \in Handlers : q = req[w]
  BY DEF TypeInv, TypeOK
<1>2. CASE Store(w)
  <2>1. PICK d \in SUBSET Files : d = Deps(q.env)
    BY Constants DEF Deps, Envelopes, Files, Handlers
  <2>2. PICK r \in Handlers : r = [q EXCEPT !.pc = "index", !.todo = d]
    <3>1. [q EXCEPT !.pc = "index", !.todo = d] \in Handlers
      BY DEF Handlers, Steps
    <3>2. QED
      BY <3>1
  <2>3. r.pc = "index" /\ r.todo = d /\ r.env = q.env /\ Same(r, q) /\ Took(r, q)
    BY <2>2 DEF Handlers, Same, Took
  <2>4. Turns(w, r)
    BY <1>1, <1>2, <2>1, <2>2 DEF Store, Indexed, Turns, TypeInv, TypeOK
  <2>5. QED
    BY <1>1, <1>2, <2>1, <2>3, <2>4
<1>3. ASSUME NEW f \in Files, IndexRead(w, f)
      PROVE  \E r \in Handlers :
               /\ Turns(w, r) /\ Same(r, q) /\ Took(r, q) /\ r.env = q.env /\ f \in q.todo
               /\ r.pc = "put" /\ r.file = f /\ r.members = idx[f] /\ r.todo = q.todo \ {f}
  <2>1. PICK m \in SUBSET Keys, d \in SUBSET Files : m = idx[f] /\ d = q.todo \ {f}
    BY DEF TypeInv, TypeOK, Handlers
  <2>2. PICK r \in Handlers :
          r = [q EXCEPT !.pc = "put", !.file = f, !.members = m, !.todo = d]
    <3>1. [q EXCEPT !.pc = "put", !.file = f, !.members = m, !.todo = d] \in Handlers
      BY DEF Handlers, Steps
    <3>2. QED
      BY <3>1
  <2>3. /\ r.pc = "put" /\ r.file = f /\ r.members = m /\ r.todo = d /\ r.env = q.env
        /\ Same(r, q) /\ Took(r, q)
    BY <2>2 DEF Handlers, Same, Took
  <2>4. Turns(w, r) /\ f \in q.todo
    BY <1>1, <1>3, <2>1, <2>2, ZenonT(60) DEF IndexRead, Turns, TypeInv, TypeOK, Handlers
  <2>5. QED
    BY <2>1, <2>3, <2>4
<1>4. ~(Store(w) /\ \E f \in Files : IndexRead(w, f))
  BY DEF Store, IndexRead, At
<1>5. QED
  BY <1>1, <1>2, <1>3, <1>4

-----------------------------------------------------------------------------
(* The type invariant.                                                     *)

LEMMA TypeInit == Init => TypeInv
<1> SUFFICES ASSUME Init PROVE TypeInv
  OBVIOUS
<1>1. runs \in 1..MaxRuns /\ ver \in [Files -> Versions] /\ marker \in 0..MaxRuns
      /\ shown \in 0..MaxRuns /\ faults \in 0..MaxFaults
  BY Constants DEF Init
<1>2. feed \in Seq(SUBSET Files) /\ Len(feed) = 1 /\ Len(feed) \in 1..(MaxChanges + 1)
  BY Constants DEF Init
<1>3. snap \in [Keys -> Envelopes] /\ idx \in [Files -> SUBSET Keys]
  BY Constants DEF Init
<1>4. req \in [Workers -> Handlers]
  BY IdleTask DEF Init
<1>5. token \in 0..Len(feed) /\ known \subseteq Keys /\ handled \subseteq 1..Len(feed)
  BY <1>2 DEF Init
<1>6. Bounds
  BY <1>2, IdleTask DEF Bounds, Init
<1>7. QED
  BY <1>1, <1>2, <1>3, <1>4, <1>5, <1>6 DEF TypeInv, TypeOK

\* A change is appended to the feed.
LEMMA Grows ==
  ASSUME TypeInv, NEW x \in SUBSET Files, feed' = Append(feed, x)
  PROVE  /\ feed' \in Seq(SUBSET Files) /\ Len(feed') = Len(feed) + 1 /\ Len(feed) \in Nat \ {0}
         /\ feed'[Len(feed) + 1] = x /\ \A p \in 1..Len(feed) : feed'[p] = feed[p]
BY DEF TypeInv, TypeOK

\* Drive is edited: a change names files, one of them has one version more.
LEMMA DriveTypes ==
  ASSUME TypeInv, NEW f \in Files, NEW x \in SUBSET Files, Len(feed) <= MaxChanges,
         runs' \in 1..MaxRuns, ver' = [ver EXCEPT ![f] = @ + 1], feed' = Append(feed, x),
         UNCHANGED <<cacheVars, req, shown, handled, faults>>
  PROVE  TypeInv'
<1>1. /\ feed' \in Seq(SUBSET Files) /\ Len(feed') = Len(feed) + 1
      /\ Len(feed') \in 1..(MaxChanges + 1)
  BY Grows, Constants
<1>2. \A g \in Files : ver'[g] \in Nat /\ ver'[g] < Len(feed')
  BY <1>1 DEF TypeInv, Bounds, TypeOK, Versions
<1>3. ver' \in [Files -> Versions]
  <2>1. \A g \in Files : ver'[g] \in Versions
    BY <1>1, <1>2, Constants DEF Versions
  <2>2. QED
    BY <2>1 DEF TypeInv, TypeOK
<1>4. token' \in 0..Len(feed') /\ handled' \subseteq 1..Len(feed')
  <2>1. token \in 0..Len(feed) /\ \A p \in handled : p \in 1..Len(feed)
    BY DEF TypeInv, TypeOK
  <2>2. \A p \in 0..Len(feed) : p \in 0..Len(feed') /\ (p \in 1..Len(feed) => p \in 1..Len(feed'))
    BY <1>1, Grows
  <2>3. QED
    BY <2>1, <2>2 DEF cacheVars
<1>5. \A w \in Workers : req'[w].tok <= Len(feed') /\ req'[w].took \subseteq 1..Len(feed')
  <2> SUFFICES ASSUME NEW w \in Workers
               PROVE  req[w].tok <= Len(feed') /\ \A p \in req[w].took : p \in 1..Len(feed')
    OBVIOUS
  <2>1. req[w].tok \in Nat /\ req[w].tok <= Len(feed) /\ \A p \in req[w].took : p \in 1..Len(feed)
    BY Constants DEF TypeInv, TypeOK, Bounds, Handlers
  <2>2. QED
    BY <1>1, <2>1, Grows
<1>6. QED
  BY <1>1, <1>2, <1>3, <1>4, <1>5 DEF TypeInv, TypeOK, Bounds, cacheVars

\* A request takes a step, and what it writes is of its type.
LEMMA TurnTypes ==
  ASSUME TypeInv, NEW w \in Workers, NEW r \in Handlers, Turns(w, r), UNCHANGED driveVars,
         r.tok <= Len(feed), r.took \subseteq 1..Len(feed),
         token' \in 0..Len(feed), snap' \in [Keys -> Envelopes], idx' \in [Files -> SUBSET Keys],
         known' \subseteq Keys, marker' \in 0..MaxRuns, shown' \in 0..MaxRuns,
         handled' \subseteq 1..Len(feed), faults' \in 0..MaxFaults
  PROVE  TypeInv'
BY Turned DEF TypeInv, TypeOK, Bounds, driveVars

\* A fault is counted.
LEMMA FaultTypes == ASSUME TypeInv, Fault PROVE faults' \in 0..MaxFaults
BY Constants DEF TypeInv, TypeOK, Fault

LEMMA TypeNext == TypeInv /\ [Next]_vars => TypeInv'
<1> SUFFICES ASSUME TypeInv, [Next]_vars PROVE TypeInv'
  OBVIOUS
<1>0. /\ token \in 0..Len(feed) /\ snap \in [Keys -> Envelopes] /\ idx \in [Files -> SUBSET Keys]
      /\ known \subseteq Keys /\ marker \in 0..MaxRuns /\ shown \in 0..MaxRuns
      /\ handled \subseteq 1..Len(feed) /\ faults \in 0..MaxFaults /\ Len(feed) \in Nat
      /\ runs \in 1..MaxRuns
      /\ \A w \in Workers : /\ req[w] \in Handlers /\ req[w].tok \in Nat /\ req[w].tok <= Len(feed)
                            /\ req[w].took \subseteq 1..Len(feed)
  BY Constants DEF TypeInv, TypeOK, Bounds, Handlers
<1>1. ASSUME NEW f \in Files, Edit(f) PROVE TypeInv'
  <2>1. {f} \in SUBSET Files /\ runs' \in 1..MaxRuns
    BY <1>0, <1>1 DEF Edit
  <2>2. QED
    BY <1>1, <2>1, DriveTypes DEF Edit
<1>2. CASE NewRun
  <2>1. PICK x \in {{runs + 1, Folder}, {runs + 1}} : feed' = Append(feed, x)
    BY <1>2 DEF NewRun
  <2>2. x \in SUBSET Files /\ runs + 1 \in 1..MaxRuns
    BY <1>0, <1>2, Constants DEF NewRun, Files, Folder
  <2>3. QED
    BY <1>2, <2>1, <2>2, DriveTypes, Constants DEF NewRun
<1>3. ASSUME NEW f \in Files, Evict(f) PROVE TypeInv'
  <2>1. idx' \in [Files -> SUBSET Keys] /\ faults' \in 0..MaxFaults
    BY <1>0, <1>3, FaultTypes DEF Evict
  <2>2. QED
    BY <1>3, <2>1 DEF Evict, TypeInv, TypeOK, Bounds, driveVars
<1>4. ASSUME NEW w \in Workers, Crash(w) PROVE TypeInv'
  <2>1. Turns(w, Idle) /\ Idle \in Handlers /\ Idle.tok <= Len(feed) /\ Idle.took \subseteq 1..Len(feed)
    BY <1>0, <1>4, IdleTask DEF Crash, Turns
  <2>2. QED
    BY <1>0, <1>4, <2>1, FaultTypes, TurnTypes DEF Crash, cacheVars
<1>5. ASSUME NEW w \in Workers, NEW a \in Asks, Request(w, a[1], a[2]) PROVE TypeInv'
  <2>1. a[1] \in Keys /\ a[2] \in BOOLEAN
    BY SnapshotCacheAssumption DEF Keys
  <2>2. PICK r \in Handlers : Turns(w, r) /\ r.tok = 0 /\ r.took = {}
    BY <1>5, <2>1, Asked
  <2>3. QED
    BY <1>0, <1>5, <2>2, TurnTypes DEF Request, cacheVars
<1>6. ASSUME NEW w \in Workers, ReadToken(w) \/ List(w) \/ Reseed(w) PROVE TypeInv'
  <2>1. PICK r \in Handlers :
          /\ Turns(w, r)
          /\ ReadToken(w) => r.tok = token /\ r.took = req[w].took
          /\ List(w) => r.tok = Len(feed) /\ r.took = (req[w].tok + 1)..Len(feed)
          /\ Reseed(w) => r.tok = req[w].tok /\ r.took = 1..Len(feed)
    BY <1>6, Observes
  <2>2. r.tok <= Len(feed) /\ r.took \subseteq 1..Len(feed)
    BY <1>0, <1>6, <2>1, SMTT(60)
  <2>3. token' \in 0..Len(feed)
    BY <1>0, <1>6 DEF ReadToken, List, Reseed, cacheVars
  <2>4. QED
    BY <1>0, <1>6, <2>1, <2>2, <2>3, TurnTypes DEF ReadToken, List, Reseed, cacheVars
<1>7. ASSUME NEW w \in Workers, NEW p \in Steps, Goto(w, p), UNCHANGED <<driveVars, marker, shown>>,
             token' \in 0..Len(feed), snap' \in [Keys -> Envelopes],
             idx' \in [Files -> SUBSET Keys], known' \subseteq Keys,
             handled' \subseteq 1..Len(feed), faults' \in 0..MaxFaults
      PROVE  TypeInv'
  <2>1. PICK r \in Handlers : Turns(w, r) /\ Took(r, req[w])
    BY <1>7, GoesOn
  <2>2. QED
    BY <1>0, <1>7, <2>1, TurnTypes DEF Took
<1>8. ASSUME NEW w \in Workers, Seed(w) \/ Expired(w) \/ ObserveFails(w) \/ Advance(w) PROVE TypeInv'
  <2>1. {"drop", "reseed", "invalidate"} \subseteq Steps
    BY DEF Steps
  <2>2. PICK p \in Steps : Goto(w, p)
    BY <1>8, <2>1 DEF Seed, Expired, ObserveFails, Advance
  <2>3. token' \in 0..Len(feed) /\ handled' \subseteq 1..Len(feed)
    <3>1. token' \in {token, 0, Len(feed), req[w].tok}
      BY <1>8 DEF Seed, Expired, ObserveFails, Advance, cacheVars
    <3>2. handled' \in {handled, handled \cup 1..Len(feed)}
      BY <1>8 DEF Seed, Expired, ObserveFails, Advance
    <3>3. Len(feed) \in Nat /\ token \in 0..Len(feed) /\ req[w].tok \in 0..Len(feed)
      BY <1>0
    <3>4. token' \in 0..Len(feed)
      BY <3>1, <3>3
    <3>5. handled' \subseteq 1..Len(feed)
      BY <1>0, <3>2
    <3>6. QED
      BY <3>4, <3>5
  <2>4. faults' \in 0..MaxFaults /\ UNCHANGED <<driveVars, snap, idx, known, marker, shown>>
    BY <1>0, <1>8, FaultTypes DEF Seed, Expired, ObserveFails, Advance, cacheVars
  <2>5. QED
    BY <1>0, <1>7, <2>2, <2>3, <2>4
<1>9. ASSUME NEW w \in Workers, Clear(w) \/ Invalidate(w) PROVE TypeInv'
  <2>1. PICK r \in Handlers : Turns(w, r) /\ r.took = {} /\ r.tok = req[w].tok
    BY <1>9, Acted
  <2>2. snap' \in [Keys -> Envelopes]
    BY <1>0, <1>9, Constants DEF Clear, Invalidate
  <2>3. idx' \in [Files -> SUBSET Keys]
    BY <1>0, <1>9 DEF Clear, Invalidate
  <2>4. known' \subseteq Keys /\ handled' \subseteq 1..Len(feed)
    BY <1>0, <1>9 DEF Clear, Invalidate
  <2>5. UNCHANGED <<driveVars, token, marker, shown, faults>>
    BY <1>9 DEF Clear, Invalidate
  <2>6. QED
    BY <1>0, <2>1, <2>2, <2>3, <2>4, <2>5, TurnTypes
<1>10. ASSUME NEW w \in Workers, Drop(w) \/ IndexWrite(w) PROVE TypeInv'
  <2>1. PICK p \in Steps : Goto(w, p)
    BY <1>10 DEF Drop, IndexWrite, Steps
  <2>2. snap' \in [Keys -> Envelopes]
    BY <1>0, <1>10, Constants DEF Drop, IndexWrite
  <2>3. idx' \in [Files -> SUBSET Keys]
    BY <1>0, <1>10 DEF Drop, IndexWrite, Handlers
  <2>4. UNCHANGED <<driveVars, token, known, marker, shown, handled, faults>>
    BY <1>10 DEF Drop, IndexWrite
  <2>5. QED
    BY <1>0, <1>7, <2>1, <2>2, <2>3, <2>4
<1>11. ASSUME NEW w \in Workers, Get(w) \/ LoadListing(w) \/ LoadContent(w)
       PROVE  TypeInv'
  <2>1. PICK r \in Handlers : Turns(w, r) /\ Took(r, req[w])
    BY <1>11, Finds, ListsRuns, ReadsRuns
  <2>2. UNCHANGED <<driveVars, cacheVars, shown, handled, faults>>
    BY <1>11 DEF Get, LoadListing, LoadContent
  <2>3. QED
    BY <1>0, <2>1, <2>2, TurnTypes DEF Took, cacheVars
<1>12. ASSUME NEW w \in Workers, Overlay(w) \/ IndexDone(w) PROVE TypeInv'
  <2>1. PICK r \in Handlers : Turns(w, r) /\ Took(r, req[w])
    BY <1>12, Answers
  <2>2. known' \subseteq Keys /\ marker' \in 0..MaxRuns /\ faults' \in 0..MaxFaults
    BY <1>0, <1>12, FaultTypes, Constants, SMTT(60) DEF Overlay, IndexDone, Handlers
  <2>3. UNCHANGED <<driveVars, token, snap, idx, shown, handled>>
    BY <1>12 DEF Overlay, IndexDone
  <2>4. QED
    BY <1>0, <2>1, <2>2, <2>3, TurnTypes DEF Took
<1>13. ASSUME NEW w \in Workers, Store(w) \/ \E f \in Files : IndexRead(w, f) PROVE TypeInv'
  <2>1. PICK r \in Handlers : Turns(w, r) /\ Took(r, req[w])
    BY <1>13, Indexes
  <2>2. snap' \in [Keys -> Envelopes]
    BY <1>0, <1>13 DEF Store, IndexRead, cacheVars, Handlers
  <2>3. UNCHANGED <<driveVars, token, idx, known, marker, shown, handled, faults>>
    BY <1>13 DEF Store, IndexRead, cacheVars
  <2>4. QED
    BY <1>0, <2>1, <2>2, <2>3, TurnTypes DEF Took
<1>14. ASSUME NEW w \in Workers, Reply(w) PROVE TypeInv'
  <2>1. Turns(w, Idle) /\ Idle \in Handlers /\ Idle.tok <= Len(feed) /\ Idle.took \subseteq 1..Len(feed)
    BY <1>0, <1>14, IdleTask DEF Reply, Turns
  <2>2. shown' \in 0..MaxRuns
    BY <1>0, <1>14 DEF Reply, Handlers
  <2>3. QED
    BY <1>0, <1>14, <2>1, <2>2, TurnTypes DEF Reply, cacheVars
<1>15. CASE UNCHANGED vars
  BY <1>15 DEF vars, driveVars, cacheVars, TypeInv, TypeOK, Bounds
<1>16. QED
  BY <1>1, <1>2, <1>3, <1>4, <1>5, <1>6, <1>8, <1>9, <1>10, <1>11, <1>12, <1>13, <1>14, <1>15
     DEF Next, WorkerStep

\* The type invariant of SnapshotCache, for any number of workers, runs, changes
\* and faults.
THEOREM TypeCorrect == Spec => []TypeOK
<1>1. TypeInv => TypeOK
  BY DEF TypeInv
<1>2. QED
  BY <1>1, TypeInit, TypeNext, PTL DEF Spec

-----------------------------------------------------------------------------
(* No change is skipped.                                                   *)

\* A change that is safe stays so when only one request moves, and does not let
\* go of what it has to act on.
LEMMA SkipTurn ==
  ASSUME TypeInv, SkipInv, NEW w \in Workers, NEW r \in Handlers, Turns(w, r), feed' = feed,
         handled \subseteq handled',
         req[w].pc \in {"invalidate", "clear"} => req[w].took \subseteq handled',
         \A p \in 2..token' : Safe(p) \/ p \in handled'
                              \/ (r.pc \in {"invalidate", "clear"} /\ p \in r.took),
         r.pc = "list" => r.tok >= 1 /\ \A p \in 2..r.tok : Safe(p),
         r.pc = "advance" => /\ r.took \subseteq 2..Len(feed)
                             /\ \A p \in 2..r.tok : Safe(p) \/ p \in r.took
  PROVE  SkipInv'
<1>1. req'[w] = r /\ \A v \in Workers \ {w} : req'[v] = req[v]
  BY Turned
<1>2. ASSUME NEW p, Safe(p) PROVE Safe(p)'
  BY <1>1, <1>2 DEF Safe
<1>3. ASSUME NEW p \in 2..token' PROVE Safe(p)'
  <2>1. CASE Safe(p)
    BY <1>2, <2>1
  <2>2. CASE p \in handled' \/ (r.pc \in {"invalidate", "clear"} /\ p \in r.took)
    BY <1>1, <2>2 DEF Safe
  <2>3. QED
    BY <2>1, <2>2
<1>4. ASSUME NEW v \in Workers
      PROVE  /\ At(v, "list")' => req'[v].tok >= 1 /\ \A p \in 2..req'[v].tok : Safe(p)'
             /\ At(v, "advance")' => /\ req'[v].took \subseteq 2..Len(feed')
                                     /\ \A p \in 2..req'[v].tok : Safe(p)' \/ p \in req'[v].took
  <2>1. CASE v = w
    BY <1>1, <1>2, <2>1 DEF At
  <2>2. CASE v # w
    <3>1. req'[v] = req[v]
      BY <1>1, <2>2
    <3>2. QED
      BY <1>2, <3>1 DEF SkipInv, At
  <2>3. QED
    BY <2>1, <2>2
<1>5. QED
  BY <1>3, <1>4 DEF SkipInv

\* Drive is edited, or the cache changes: no request moves.
LEMMA SkipStays ==
  ASSUME TypeInv, SkipInv, UNCHANGED <<token, req, handled>>,
         feed' = feed \/ \E x \in SUBSET Files : x # {} /\ feed' = Append(feed, x)
  PROVE  SkipInv'
<1>1. \A p : Safe(p)' <=> Safe(p)
  BY DEF Safe
<1>2. Len(feed) \in Nat
  BY DEF TypeInv, TypeOK
<1>3. (\A p \in 2..Len(feed') : feed'[p] # {}) /\ Len(feed) <= Len(feed')
  <2>1. CASE feed' = feed
    BY <1>2, <2>1 DEF SkipInv
  <2>2. ASSUME NEW x \in SUBSET Files, x # {}, feed' = Append(feed, x)
        PROVE  (\A p \in 2..Len(feed') : feed'[p] # {}) /\ Len(feed) <= Len(feed')
    BY <1>2, <2>2, Grows DEF SkipInv
  <2>3. QED
    BY <2>1, <2>2
<1>4. Len(feed') \in Nat
  BY <1>2, Grows
<1>5. 2..Len(feed) \subseteq 2..Len(feed')
  BY <1>2, <1>3, <1>4
<1>6. QED
  BY <1>1, <1>3, <1>5 DEF SkipInv, At

LEMMA SkipNext == ActsOnTokens /\ TypeInv /\ SkipInv /\ [Next]_vars => SkipInv'
<1> SUFFICES ASSUME ActsOnTokens, TypeInv, SkipInv, [Next]_vars PROVE SkipInv'
  OBVIOUS
<1>0. /\ token \in 0..Len(feed) /\ Len(feed) \in Nat
      /\ \A w \in Workers : /\ req[w].tok \in Nat /\ req[w].tok <= Len(feed)
                            /\ req[w].took \subseteq 1..Len(feed)
  BY Constants DEF TypeInv, TypeOK, Bounds, Handlers
<1>1. ASSUME NEW f \in Files, Edit(f) \/ Evict(f) PROVE SkipInv'
  <2>1. feed' = feed \/ feed' = Append(feed, {f})
    BY <1>1 DEF Edit, Evict, driveVars
  <2>2. UNCHANGED <<token, req, handled>>
    BY <1>1 DEF Edit, Evict, cacheVars
  <2>3. QED
    BY <2>1, <2>2, SkipStays
<1>2. CASE NewRun
  <2>1. PICK x \in {{runs + 1, Folder}, {runs + 1}} : feed' = Append(feed, x)
    BY <1>2 DEF NewRun
  <2>2. x \in SUBSET Files /\ x # {}
    <3>1. runs + 1 \in Files /\ Folder \in Files
      BY <1>2, Constants DEF NewRun, Files, TypeInv, TypeOK
    <3>2. QED
      BY <2>1, <3>1
  <2>3. QED
    BY <1>2, <2>1, <2>2, SkipStays DEF NewRun, cacheVars
<1>3. ASSUME NEW w \in Workers, NEW r \in Handlers, Turns(w, r),
             UNCHANGED <<feed, token, handled>>,
             req[w].pc \notin {"invalidate", "clear"}, r.pc \notin {"list", "advance"}
      PROVE  SkipInv'
  BY <1>3, SkipTurn DEF SkipInv
<1>4. ASSUME NEW w \in Workers, Crash(w) PROVE SkipInv'
  <2>1. Turns(w, Idle) /\ Idle \in Handlers /\ Idle.pc = "idle"
    BY <1>4, IdleTask DEF Crash, Turns
  <2>2. req[w].pc \notin {"invalidate", "clear"}
    BY <1>4 DEF Crash, ActsOnTokens
  <2>3. QED
    BY <1>3, <1>4, <2>1, <2>2 DEF Crash, driveVars, cacheVars
<1>5. ASSUME NEW w \in Workers, NEW a \in Asks, Request(w, a[1], a[2]) PROVE SkipInv'
  <2>1. a[1] \in Keys /\ a[2] \in BOOLEAN
    BY SnapshotCacheAssumption DEF Keys
  <2>2. PICK r \in Handlers : Turns(w, r) /\ r.pc = "observe"
    BY <1>5, <2>1, Asked
  <2>3. QED
    BY <1>3, <1>5, <2>2 DEF Request, At, driveVars, cacheVars
<1>6. ASSUME NEW w \in Workers, ReadToken(w) PROVE SkipInv'
  <2>1. PICK r \in Handlers : Turns(w, r) /\ r.tok = token
                              /\ r.pc = IF token = 0 THEN "seed" ELSE "list"
    BY <1>6, Observes
  <2>2. r.pc = "list" => r.tok >= 1 /\ \A p \in 2..r.tok : Safe(p)
    BY <1>0, <2>1 DEF SkipInv
  <2>3. UNCHANGED <<feed, token, handled>> /\ r.pc # "advance" /\ At(w, "observe")
    BY <1>6, <2>1 DEF ReadToken, driveVars, cacheVars
  <2>4. QED
    BY <2>1, <2>2, <2>3, SkipTurn DEF SkipInv, At
<1>7. ASSUME NEW w \in Workers, List(w) PROVE SkipInv'
  <2>1. PICK r \in Handlers : /\ Turns(w, r) /\ r.pc = "advance" /\ r.tok = Len(feed)
                              /\ r.took = (req[w].tok + 1)..Len(feed)
    BY <1>7, Observes
  <2>2. /\ r.took \subseteq 2..Len(feed)
        /\ \A p \in 2..r.tok : Safe(p) \/ p \in r.took
    BY <1>0, <1>7, <2>1 DEF SkipInv, List
  <2>3. UNCHANGED <<feed, token, handled>> /\ At(w, "list")
    BY <1>7 DEF List, driveVars, cacheVars
  <2>4. QED
    BY <2>1, <2>2, <2>3, SkipTurn DEF SkipInv, At
<1>8. ASSUME NEW w \in Workers, Reseed(w) PROVE SkipInv'
  <2>1. PICK r \in Handlers : Turns(w, r) /\ r.pc = "clear" /\ r.took = 1..Len(feed)
    BY <1>8, Observes
  <2>2. UNCHANGED <<feed, handled>> /\ At(w, "reseed") /\ token' = Len(feed)
    BY <1>8 DEF Reseed, driveVars
  <2>3. \A p \in 2..token' : p \in r.took
    BY <1>0, <2>1, <2>2
  <2>4. QED
    BY <2>1, <2>2, <2>3, SkipTurn DEF At
<1>9. ASSUME NEW w \in Workers, NEW p \in Steps, Goto(w, p), p \notin {"list", "advance"},
             UNCHANGED feed, handled \subseteq handled', req[w].pc \notin {"invalidate", "clear"},
             \A n \in 2..token' : Safe(n) \/ n \in handled'
                                  \/ (p \in {"invalidate", "clear"} /\ n \in req[w].took)
      PROVE  SkipInv'
  <2>1. PICK r \in Handlers : Turns(w, r) /\ r.pc = p /\ Took(r, req[w])
    BY <1>9, GoesOn
  <2>2. QED
    BY <1>9, <2>1, SkipTurn DEF Took
<1>10. ASSUME NEW w \in Workers, Seed(w) \/ Expired(w) \/ ObserveFails(w) PROVE SkipInv'
  <2>1. PICK p \in Steps : Goto(w, p) /\ p \in {"drop", "reseed"}
    BY <1>10 DEF Seed, Expired, ObserveFails, Steps
  <2>2. /\ UNCHANGED feed /\ handled \subseteq handled'
        /\ req[w].pc \notin {"invalidate", "clear"}
    BY <1>10 DEF Seed, Expired, ObserveFails, At, driveVars
  <2>3. \/ token' \in {0, token}
        \/ token' = Len(feed) /\ 1..Len(feed) \subseteq handled'
    BY <1>10 DEF Seed, Expired, ObserveFails, cacheVars
  <2>4. \A n \in 2..token' : Safe(n) \/ n \in handled'
    BY <1>0, <2>3 DEF SkipInv
  <2>5. QED
    BY <1>9, <2>1, <2>2, <2>4
<1>11. ASSUME NEW w \in Workers, Advance(w) PROVE SkipInv'
  <2>1. PICK p \in Steps : Goto(w, p) /\ p = IF Changed(w) = {} THEN "drop" ELSE "invalidate"
    BY <1>11 DEF Advance, Steps
  <2>2. /\ UNCHANGED <<feed, handled>> /\ At(w, "advance") /\ token' = req[w].tok
    BY <1>11 DEF Advance, driveVars
  <2>3. Changed(w) = {} => req[w].took = {}
    BY <2>2 DEF SkipInv, Changed
  <2>4. \A n \in 2..token' : Safe(n) \/ (p \in {"invalidate", "clear"} /\ n \in req[w].took)
    BY <2>1, <2>2, <2>3 DEF SkipInv
  <2>5. QED
    BY <1>9, <2>1, <2>2, <2>4 DEF At
<1>12. ASSUME NEW w \in Workers, Clear(w) \/ Invalidate(w) PROVE SkipInv'
  <2>1. PICK r \in Handlers : Turns(w, r) /\ r.pc = "drop"
    BY <1>12, Acted
  <2>2. UNCHANGED <<feed, token>> /\ handled' = handled \cup req[w].took
    BY <1>12 DEF Clear, Invalidate, driveVars
  <2>3. QED
    BY <2>1, <2>2, SkipTurn, SMTT(60) DEF SkipInv
<1>13. ASSUME NEW w \in Workers,
              Drop(w) \/ IndexWrite(w) \/ Get(w) \/ LoadListing(w) \/ LoadContent(w)
              \/ Overlay(w) \/ IndexDone(w) \/ Store(w) \/ (\E f \in Files : IndexRead(w, f)) \/ Reply(w)
       PROVE  SkipInv'
  <2>1. /\ UNCHANGED <<feed, token, handled>> /\ req[w].pc \notin {"invalidate", "clear"}
    BY <1>13 DEF Drop, IndexWrite, Get, LoadListing, LoadContent, Overlay, IndexDone, Store,
                 IndexRead, Reply, At, driveVars, cacheVars
  <2>2. PICK r \in Handlers : Turns(w, r) /\ r.pc \notin {"list", "advance"}
    <3>1. CASE Drop(w) \/ IndexWrite(w)
      <4>1. PICK p \in {"get", "index"} : Goto(w, p)
        BY <3>1 DEF Drop, IndexWrite
      <4>2. p \in Steps
        BY DEF Steps
      <4>3. QED
        BY <4>1, <4>2, GoesOn
    <3>2. CASE Get(w) \/ LoadListing(w) \/ LoadContent(w)
      BY <3>2, Finds, ListsRuns, ReadsRuns
    <3>3. CASE Overlay(w) \/ IndexDone(w)
      BY <3>3, Answers
    <3>4. CASE Store(w) \/ \E f \in Files : IndexRead(w, f)
      BY <3>4, Indexes
    <3>5. CASE Reply(w)
      BY <3>5, IdleTask DEF Reply, Turns
    <3>6. QED
      BY <1>13, <3>1, <3>2, <3>3, <3>4, <3>5
  <2>3. QED
    BY <1>3, <2>1, <2>2
<1>14. CASE UNCHANGED vars
  BY <1>14, SkipStays DEF vars, driveVars, cacheVars
<1>15. QED
  BY <1>1, <1>2, <1>4, <1>5, <1>6, <1>7, <1>8, <1>10, <1>11, <1>12, <1>13, <1>14
     DEF Next, WorkerStep

\* drive_changes.observe: however many workers share the token, whatever calls
\* fail, and wherever a worker dies but between a token and what it obliges to,
\* the token never passes a change that nobody has acted on or holds.
THEOREM NoChangeSkipped == ActsOnTokens => (Spec => []NothingSkipped)
<1> SUFFICES ASSUME ActsOnTokens PROVE Spec => []NothingSkipped
  OBVIOUS
<1>1. Init => TypeInv /\ SkipInv
  <2> SUFFICES ASSUME Init PROVE TypeInv /\ SkipInv
    OBVIOUS
  <2>1. token = 0 /\ Len(feed) = 1 /\ \A w \in Workers : req[w].pc = "idle"
    BY IdleTask DEF Init
  <2>2. QED
    BY <2>1, TypeInit DEF SkipInv, At
<1>2. TypeInv /\ SkipInv /\ [Next]_vars => TypeInv' /\ SkipInv'
  BY TypeNext, SkipNext
<1>3. SkipInv => NothingSkipped
  BY DEF SkipInv, NothingSkipped, Safe
<1>4. QED
  BY <1>1, <1>2, <1>3, PTL DEF Spec

-----------------------------------------------------------------------------
(* One request after the other.                                            *)

LEMMA Values ==
  ASSUME TypeInv
  PROVE  /\ \A k \in Keys : snap[k] \in Envelopes
         /\ \A e \in Envelopes : /\ Deps(e) \subseteq Files /\ Folder \in Deps(e)
                                 /\ e.list \in Nat /\ e.run \in Nat /\ \A f \in Files : e.seen[f] \in Nat
         /\ \A r \in Handlers : /\ r.env \in Envelopes /\ r.key \in Keys /\ r.shown \in Nat /\ r.shows \in Nat
                                /\ r.tok \in Nat /\ \A f \in Files : r.since[f] \in Nat
         /\ \A f \in Files : ver[f] \in Nat
         /\ runs \in Nat \ {0} /\ shown \in Nat /\ token \in Nat /\ token <= Len(feed) /\ Len(feed) \in Nat \ {0}
<1>1. \A k \in Keys : snap[k] \in Envelopes
  BY DEF TypeInv, TypeOK
<1>2. ASSUME NEW e \in Envelopes
      PROVE  /\ Deps(e) \subseteq Files /\ Folder \in Deps(e)
             /\ e.list \in Nat /\ e.run \in Nat /\ \A f \in Files : e.seen[f] \in Nat
  <2>1. e.list \in 0..MaxRuns /\ e.run \in 0..MaxRuns /\ \A f \in Files : e.seen[f] \in 0..MaxChanges
    BY DEF Envelopes, Versions
  <2>2. QED
    BY <2>1, Constants DEF Deps, Files, Folder
<1>3. ASSUME NEW r \in Handlers
      PROVE  /\ r.env \in Envelopes /\ r.key \in Keys /\ r.shown \in Nat /\ r.shows \in Nat
             /\ r.tok \in Nat /\ \A f \in Files : r.since[f] \in Nat
  <2>1. /\ r.env \in Envelopes /\ r.key \in Keys /\ r.shown \in 0..MaxRuns /\ r.shows \in 0..MaxRuns
        /\ r.tok \in 0..(MaxChanges + 1) /\ \A f \in Files : r.since[f] \in 0..MaxChanges
    BY DEF Handlers, Versions
  <2>2. QED
    BY <2>1, Constants
<1>4. \A f \in Files : ver[f] \in Nat
  BY Constants DEF TypeInv, TypeOK, Versions
<1>5. runs \in Nat \ {0} /\ shown \in Nat /\ token \in Nat /\ token <= Len(feed) /\ Len(feed) \in Nat \ {0}
  BY Constants DEF TypeInv, TypeOK
<1>6. QED
  BY <1>1, <1>2, <1>3, <1>4, <1>5

LEMMA Unread ==
  ASSUME UNCHANGED <<feed, token>>
  PROVE  (\A f : Ahead(f)' <=> Ahead(f)) /\ \A r : Touched(r)' = Touched(r)
BY DEF Ahead, Touched

\* The one request takes a step.
LEMMA SerialTurn ==
  ASSUME TypeInv, Serial, NEW w \in Workers, NEW r \in Handlers, Turns(w, r),
         runs' = 1 + ver'[Folder], shown' <= runs', RequestOK(r)',
         \A k \in Keys : Present(k)' => EntryOK(k, r)'
  PROVE  SerialInv'
<1>1. Workers = {w} /\ req'[w] = r
  BY Turned DEF Serial
<1>2. \A v \in Workers : req'[v] = r
  BY <1>1
<1>3. ASSUME NEW v \in Workers PROVE RequestOK(req[v])'
  BY <1>2 DEF RequestOK, Serves, Lists, Touched
<1>4. ASSUME NEW v \in Workers, NEW k \in Keys, Present(k)' PROVE EntryOK(k, req[v])'
  BY <1>2, <1>4 DEF EntryOK, Touched
<1>5. QED
  BY <1>3, <1>4 DEF SerialInv

\* Drive is edited: what is out of date now lies past the token.
LEMMA SerialDrive ==
  ASSUME TypeInv, Serial, SerialInv, NEW f \in Files, NEW x \in SUBSET Files, f \in x,
         ver' = [ver EXCEPT ![f] = @ + 1], feed' = Append(feed, x),
         runs <= runs', runs' = 1 + ver'[Folder],
         UNCHANGED <<cacheVars, req, shown>>
  PROVE  SerialInv'
<1>1. /\ Len(feed') = Len(feed) + 1 /\ Len(feed) \in Nat /\ feed'[Len(feed) + 1] = x
      /\ \A p \in 1..Len(feed) : feed'[p] = feed[p]
  BY Grows
<1>2. UNCHANGED <<token, snap, idx, known, req, shown>> /\ token \in 0..Len(feed)
  BY DEF cacheVars, TypeInv, TypeOK
<1>3. \A g : Ahead(g) => Ahead(g)'
  BY <1>1, <1>2 DEF Ahead
<1>4. token # 0 => Ahead(f)'
  BY <1>1, <1>2 DEF Ahead
<1>5. \A w \in Workers : Touched(req[w])' = Touched(req[w])
  <2>1. \A w \in Workers : req[w].took \subseteq 1..Len(feed)
    BY DEF TypeInv, Bounds
  <2>2. QED
    BY <1>1, <1>2, <2>1 DEF Touched
<1>6. \A g \in Files : ver[g] \in Nat /\ ver'[g] >= ver[g] /\ (g # f => ver'[g] = ver[g])
  BY DEF TypeInv, TypeOK, Versions
<1>7. runs \in Nat /\ runs' \in Nat
  BY <1>6, Constants DEF TypeInv, TypeOK
<1>8. ASSUME NEW w \in Workers, NEW k \in Keys, Present(k)'
      PROVE  EntryOK(k, req[w])'
  <2>1. PICK e \in Envelopes, r \in Handlers : e = snap[k] /\ r = req[w]
    BY DEF TypeInv, TypeOK
  <2>2. EntryOK(k, req[w])
    BY <1>2, <1>8 DEF SerialInv, Present
  <2>3. Lists(e) => Lists(e)'
    BY <1>7, Values, SMTT(60) DEF Lists
  <2>4. \A g \in Deps(e) : e.seen[g] < ver'[g] => Ahead(g)' \/ g \in Touched(r)
    <3> SUFFICES ASSUME NEW g \in Deps(e), e.seen[g] < ver'[g], g \notin Touched(r) PROVE Ahead(g)'
      OBVIOUS
    <3>1. g \in Files
      BY Values
    <3>2. CASE g = f
      BY <1>4, <2>2, <3>2 DEF EntryOK
    <3>3. CASE g # f
      BY <1>3, <1>6, <2>1, <2>2, <3>1, <3>3 DEF EntryOK
    <3>4. QED
      BY <3>2, <3>3
  <2>5. QED
    BY <1>2, <1>5, <2>1, <2>2, <2>3, <2>4 DEF EntryOK
<1>9. ASSUME NEW w \in Workers PROVE RequestOK(req[w])'
  <2>1. PICK r \in Handlers, e \in Envelopes : r = req[w] /\ e = r.env
    BY DEF TypeInv, TypeOK, Handlers
  <2>2. RequestOK(r)
    BY <2>1 DEF SerialInv
  <2>3. Lists(e) => Lists(e)'
    BY <1>7, Values, SMTT(60) DEF Lists
  <2>4. \A g \in Files : r.since[g] \in Nat
    BY Values
  <2>5. \A g \in Files : r.since[g] <= ver'[g]
    BY <1>6, <2>2, <2>4 DEF RequestOK
  <2>6. ASSUME r.pc \in {"content", "store"}, NEW g \in Deps(e),
               r.pc = "content" => g = Folder, e.seen[g] < ver'[g]
        PROVE  Ahead(g)'
    <3>1. g \in Files /\ token # 0
      BY <2>2, <2>6, Values DEF RequestOK
    <3>2. CASE g = f
      BY <1>4, <3>1, <3>2
    <3>3. CASE g # f
      BY <1>3, <1>6, <2>1, <2>2, <2>6, <3>1, <3>3 DEF RequestOK
    <3>4. QED
      BY <3>2, <3>3
  <2>7. Folder \in Deps(e)
    BY Values
  <2>8. r.pc = "reply" => r.shows <= runs'
    BY <1>7, <2>2, Values DEF RequestOK
  <2>9. Serves(r) => Serves(r)'
    BY <2>1, <2>3 DEF Serves
  <2>10. RequestOK(r)'
    BY <1>2, <1>5, <2>1, <2>2, <2>5, <2>6, <2>7, <2>8, <2>9 DEF RequestOK
  <2>11. QED
    BY <1>2, <2>1, <2>10 DEF RequestOK, Serves, Lists, Touched
<1>10. shown' <= runs'
  BY <1>2, <1>7, Values DEF SerialInv
<1>11. QED
  BY <1>8, <1>9, <1>10 DEF SerialInv

\* The one request takes a step that changes no entry.
LEMMA SerialQuiet ==
  ASSUME TypeInv, Serial, SerialInv, NEW w \in Workers, NEW r \in Handlers, Turns(w, r),
         UNCHANGED <<driveVars, token, snap, idx, known>>, shown' <= runs, RequestOK(r),
         \A k \in Keys : Present(k) => EntryOK(k, r)
  PROVE  SerialInv'
<1>1. (\A f : Ahead(f)' <=> Ahead(f)) /\ \A x : Touched(x)' = Touched(x)
  BY Unread DEF driveVars
<1>2. RequestOK(r)'
  BY <1>1 DEF RequestOK, Serves, Lists, driveVars
<1>3. \A k \in Keys : Present(k)' => EntryOK(k, r)'
  BY <1>1 DEF EntryOK, Lists, Present, driveVars
<1>4. QED
  BY <1>2, <1>3, SerialTurn DEF SerialInv, driveVars

\* Steps that look for no entry and index none.
LEMMA EntryStays ==
  ASSUME NEW k, NEW q, NEW r, EntryOK(k, q), Touched(q) \subseteq Touched(r),
         q.pc \notin {"index", "put"}, r.pc \notin {"advance", "invalidate", "drop", "get"}
  PROVE  EntryOK(k, r)
BY DEF EntryOK

LEMMA SerialAsk ==
  ASSUME TypeInv, Serial, SerialInv, NEW w \in Workers,
         \/ \E a \in Asks : Request(w, a[1], a[2])
         \/ ReadToken(w) \/ List(w) \/ Expired(w)
  PROVE  SerialInv'
<1>1. PICK q \in Handlers : q = req[w]
  BY DEF TypeInv, TypeOK
<1>2. RequestOK(q) /\ \A k \in Keys : Present(k) => EntryOK(k, q)
  BY <1>1 DEF SerialInv
<1>3. UNCHANGED <<driveVars, token, snap, idx, known>> /\ shown' <= runs
  BY DEF Request, ReadToken, List, Expired, cacheVars, SerialInv
<1>4. ASSUME NEW a \in Asks, Request(w, a[1], a[2]) PROVE SerialInv'
  <2>1. a[1] \in Keys /\ a[2] \in BOOLEAN
    BY SnapshotCacheAssumption DEF Keys
  <2>2. PICK r \in Handlers : /\ Turns(w, r) /\ r.pc = "observe" /\ r.took = {}
                              /\ r.since = ver /\ r.shown = shown
    BY <1>4, <2>1, Asked
  <2>3. q.pc = "idle"
    BY <1>1, <1>4 DEF Request, At
  <2>4. Touched(r) = {} /\ Touched(q) = {}
    BY <1>2, <2>2, <2>3 DEF Touched, RequestOK
  <2>5. RequestOK(r)
    BY <2>2, <2>4, Values DEF RequestOK, SerialInv
  <2>6. \A k \in Keys : Present(k) => EntryOK(k, r)
    BY <1>2, <2>2, <2>3, <2>4, EntryStays
  <2>7. QED
    BY <1>3, <2>2, <2>5, <2>6, SerialQuiet
<1>5. CASE ReadToken(w)
  <2>1. PICK r \in Handlers : /\ Turns(w, r) /\ Same(r, q) /\ Holds(r, q)
                              /\ r.pc = IF token = 0 THEN "seed" ELSE "list"
                              /\ r.tok = token /\ r.took = q.took
    BY <1>1, <1>5, Observes
  <2>2. q.pc = "observe" /\ Touched(r) = Touched(q)
    BY <1>1, <1>5, <2>1 DEF ReadToken, At, Touched
  <2>3. RequestOK(r)
    BY <1>2, <2>1, <2>2 DEF RequestOK, Same
  <2>4. \A k \in Keys : Present(k) => EntryOK(k, r)
    BY <1>2, <2>1, <2>2, EntryStays
  <2>5. QED
    BY <1>3, <2>1, <2>3, <2>4, SerialQuiet
<1>6. CASE List(w)
  <2>1. PICK r \in Handlers : /\ Turns(w, r) /\ Same(r, q) /\ Holds(r, q)
                              /\ r.pc = "advance" /\ r.tok = Len(feed)
                              /\ r.took = (q.tok + 1)..Len(feed)
    BY <1>1, <1>6, Observes
  <2>2. q.pc = "list" /\ q.tok = token /\ token # 0 /\ Touched(q) = {}
    BY <1>1, <1>2, <1>6 DEF List, At, RequestOK
  <2>3. RequestOK(r)
    BY <1>2, <2>1, <2>2, Values DEF RequestOK, Same
  <2>4. \A f : Ahead(f) => f \in Touched(r)
    BY <2>1, <2>2 DEF Ahead, Touched
  <2>5. ASSUME NEW k \in Keys, Present(k) PROVE EntryOK(k, r)
    <3>1. PICK e \in Envelopes : e = snap[k]
      BY Values
    <3>2. ASSUME NEW f \in Deps(e), e.seen[f] < r.since[f] PROVE f \in Touched(r)
      <4>1. f \in Files /\ e.seen[f] \in Nat /\ r.since[f] \in Nat /\ r.since[f] <= ver[f] /\ ver[f] \in Nat
        BY <1>2, <2>1, Values DEF RequestOK, Same
      <4>2. e.seen[f] < ver[f]
        BY <3>2, <4>1
      <4>3. QED
        BY <1>2, <2>2, <2>4, <2>5, <3>1, <4>2 DEF EntryOK
    <3>3. QED
      BY <1>2, <2>1, <2>2, <2>5, <3>1, <3>2 DEF EntryOK
  <2>6. QED
    BY <1>3, <2>1, <2>3, <2>5, SerialQuiet
<1>7. CASE Expired(w)
  <2>1. PICK r \in Handlers : /\ Turns(w, r) /\ r.pc = "reseed"
                              /\ Same(r, q) /\ Took(r, q) /\ Holds(r, q)
    BY <1>1, <1>7, GoesOn DEF Expired, Steps
  <2>2. q.pc = "list" /\ Touched(r) = Touched(q)
    BY <1>1, <1>7, <2>1 DEF Expired, At, Touched, Took
  <2>3. RequestOK(r)
    BY <1>2, <2>1, <2>2 DEF RequestOK, Same
  <2>4. \A k \in Keys : Present(k) => EntryOK(k, r)
    BY <1>2, <2>1, <2>2, EntryStays
  <2>5. QED
    BY <1>3, <2>1, <2>3, <2>4, SerialQuiet
<1>8. QED
  BY <1>4, <1>5, <1>6, <1>7

\* The token moves past what the request has in hand.
LEMMA SerialAdvance ==
  ASSUME TypeInv, Serial, SerialInv, NEW w \in Workers, Seed(w) \/ Advance(w) \/ Reseed(w)
  PROVE  SerialInv'
<1>1. PICK q \in Handlers : q = req[w]
  BY DEF TypeInv, TypeOK
<1>2. RequestOK(q) /\ \A k \in Keys : Present(k) => EntryOK(k, q)
  BY <1>1 DEF SerialInv
<1>3. /\ UNCHANGED <<runs, ver, feed, snap, idx, known, shown>>
      /\ runs = 1 + ver[Folder] /\ shown <= runs
  BY DEF Seed, Advance, Reseed, driveVars, SerialInv
<1>4. \A x : Touched(x)' = Touched(x)
  BY <1>3 DEF Touched
<1>5. CASE Seed(w)
  <2>1. PICK r \in Handlers : Turns(w, r) /\ r.pc = "drop" /\ Same(r, q) /\ Took(r, q)
    BY <1>1, <1>5, GoesOn DEF Seed, Steps
  <2>2. q.pc = "seed" /\ token = 0 /\ Touched(r) = {} /\ token' = Len(feed)
    BY <1>1, <1>2, <1>5, <2>1 DEF Seed, At, RequestOK, Took, Touched
  <2>3. \A k \in Keys : ~Present(k)'
    BY <1>2, <1>3, <2>2 DEF EntryOK, Present
  <2>4. RequestOK(r)'
    BY <1>2, <1>3, <1>4, <2>1, <2>2, Values DEF RequestOK, Same
  <2>5. QED
    BY <1>3, <2>1, <2>3, <2>4, SerialTurn
<1>6. CASE Advance(w)
  <2>1. PICK p \in Steps : Goto(w, p) /\ p = IF Changed(w) = {} THEN "drop" ELSE "invalidate"
    BY <1>6 DEF Advance, Steps
  <2>2. PICK r \in Handlers : Turns(w, r) /\ r.pc = p /\ Same(r, q) /\ Took(r, q)
    BY <1>1, <2>1, GoesOn
  <2>3. /\ q.pc = "advance" /\ token' = q.tok /\ q.took = (token + 1)..q.tok /\ q.tok # 0
        /\ Touched(r) = Touched(q) /\ Changed(w) = Touched(q)
    BY <1>1, <1>2, <1>6, <2>2 DEF Advance, At, RequestOK, Took, Touched, Changed
  <2>4. RequestOK(r)'
    BY <1>2, <1>3, <1>4, <2>1, <2>2, <2>3 DEF RequestOK, Same
  <2>5. \A f : Ahead(f) => Ahead(f)' \/ f \in Touched(r)
    <3> SUFFICES ASSUME NEW f, NEW n \in (token + 1)..Len(feed), f \in feed[n], token # 0
                 PROVE  Ahead(f)' \/ f \in Touched(r)
      BY DEF Ahead
    <3>1. q.tok \in Nat /\ token \in Nat /\ Len(feed) \in Nat
      BY Values
    <3>2. CASE n <= q.tok
      BY <2>2, <2>3, <3>1, <3>2 DEF Touched, Took
    <3>3. CASE ~(n <= q.tok)
      BY <1>3, <2>3, <3>1, <3>3 DEF Ahead
    <3>4. QED
      BY <3>2, <3>3
  <2>6. ASSUME NEW k \in Keys, Present(k)' PROVE EntryOK(k, r)'
    <3>1. EntryOK(k, q)
      BY <1>2, <1>3, <2>6 DEF Present
    <3>2. QED
      BY <1>3, <1>4, <2>1, <2>2, <2>3, <2>5, <3>1 DEF EntryOK, Lists, Same
  <2>7. QED
    BY <1>3, <2>2, <2>4, <2>6, SerialTurn
<1>7. CASE Reseed(w)
  <2>1. PICK r \in Handlers : /\ Turns(w, r) /\ Same(r, q)
                              /\ r.pc = "clear" /\ r.took = 1..Len(feed)
    BY <1>1, <1>7, Observes
  <2>2. q.pc = "reseed" /\ token # 0 /\ Touched(q) = {} /\ token' = Len(feed)
    BY <1>1, <1>2, <1>7 DEF Reseed, At, RequestOK
  <2>3. RequestOK(r)'
    BY <1>2, <1>3, <2>1, <2>2, Values DEF RequestOK, Same
  <2>4. \A f : Ahead(f) => f \in Touched(r)
    <3>1. \A p \in (token + 1)..Len(feed) : p \in 1..Len(feed)
      BY Values
    <3>2. QED
      BY <2>1, <3>1 DEF Ahead, Touched
  <2>5. ASSUME NEW k \in Keys, Present(k)' PROVE EntryOK(k, r)'
    <3>1. EntryOK(k, q)
      BY <1>2, <1>3, <2>5 DEF Present
    <3>2. QED
      BY <1>3, <1>4, <2>1, <2>2, <2>4, <3>1, Values DEF EntryOK, Lists
  <2>6. QED
    BY <1>3, <2>1, <2>3, <2>5, SerialTurn
<1>8. QED
  BY <1>5, <1>6, <1>7

\* Entries go: those that were read from what changed, or those a refresh is for.
LEMMA SerialDrop ==
  ASSUME TypeInv, Serial, SerialInv, NEW w \in Workers, Clear(w) \/ Invalidate(w) \/ Drop(w)
  PROVE  SerialInv'
<1>1. PICK q \in Handlers : q = req[w]
  BY DEF TypeInv, TypeOK
<1>2. RequestOK(q) /\ \A k \in Keys : Present(k) => EntryOK(k, q)
  BY <1>1 DEF SerialInv
<1>3. /\ UNCHANGED <<runs, ver, feed, token, shown>>
      /\ runs = 1 + ver[Folder] /\ shown <= runs
  BY DEF Clear, Invalidate, Drop, driveVars, SerialInv
<1>4. (\A f : Ahead(f)' <=> Ahead(f)) /\ \A x : Touched(x)' = Touched(x)
  BY <1>3, Unread
<1>5. ASSUME NEW k \in Keys, Clear(w) \/ Invalidate(w) \/ Drop(w), Present(k)'
      PROVE  snap'[k] = snap[k] /\ Present(k)
  BY <1>5 DEF Clear, Invalidate, Drop, Present, NoEntry
<1>6. CASE Clear(w)
  <2>1. PICK r \in Handlers : Turns(w, r) /\ r.pc = "drop" /\ r.took = {} /\ Same(r, q)
    BY <1>1, <1>6, Acted
  <2>2. q.pc = "clear" /\ Touched(r) = {}
    BY <1>1, <1>6, <2>1 DEF Clear, At, Touched
  <2>3. ASSUME NEW k \in Keys PROVE ~Present(k)'
    <3>1. Present(k) => k \in known
      BY <1>2, <2>2 DEF EntryOK
    <3>2. QED
      BY <1>6, <3>1 DEF Clear, Present, NoEntry
  <2>4. RequestOK(r)'
    BY <1>2, <1>3, <1>4, <2>1, <2>2 DEF RequestOK, Same
  <2>5. QED
    BY <1>3, <2>1, <2>3, <2>4, SerialTurn
<1>7. CASE Invalidate(w)
  <2>1. PICK r \in Handlers : Turns(w, r) /\ r.pc = "drop" /\ r.took = {} /\ Same(r, q)
    BY <1>1, <1>7, Acted
  <2>2. q.pc = "invalidate" /\ Touched(r) = {} /\ Changed(w) = Touched(q)
    BY <1>1, <1>7, <2>1 DEF Invalidate, At, Touched, Changed
  <2>3. RequestOK(r)'
    BY <1>2, <1>3, <1>4, <2>1, <2>2 DEF RequestOK, Same
  <2>4. ASSUME NEW k \in Keys, Present(k)' PROVE EntryOK(k, r)'
    <3>1. EntryOK(k, q) /\ snap'[k] = snap[k] /\ known' = known
      BY <1>2, <1>5, <1>7, <2>4 DEF Invalidate
    <3>2. k \notin KeysToDrop(Touched(q))
      BY <1>7, <2>2, <2>4 DEF Invalidate, Present, NoEntry
    <3>3. \A f \in Files : f \in Touched(q) => k \notin idx[f]
      <4>1. ASSUME NEW f \in Files, f \in Touched(q), k \in idx[f] PROVE FALSE
        <5>1. k \in UNION {idx[g] : g \in Touched(q)}
          BY <4>1
        <5>2. QED
          BY <3>2, <5>1 DEF KeysToDrop
      <4>2. QED
        BY <4>1
    <3>4. \A f \in Files : k \in idx[f] => k \in idx'[f]
      BY <1>7, <2>2, <3>2 DEF Invalidate
    <3>5. \A f \in Deps(snap[k]) : f \in Files /\ k \in idx[f] /\ f \notin Touched(q)
      BY <2>2, <3>1, <3>3, Values DEF EntryOK
    <3>6. QED
      BY <1>3, <1>4, <2>1, <2>2, <3>1, <3>4, <3>5 DEF EntryOK, Lists, Same
  <2>5. QED
    BY <1>3, <2>1, <2>3, <2>4, SerialTurn
<1>8. CASE Drop(w)
  <2>1. PICK r \in Handlers : Turns(w, r) /\ r.pc = "get" /\ Took(r, q) /\ Same(r, q)
    BY <1>1, <1>8, GoesOn DEF Drop, Steps
  <2>2. q.pc = "drop" /\ Touched(r) = Touched(q) /\ UNCHANGED <<idx, known>>
    BY <1>1, <1>8, <2>1 DEF Drop, At, Touched, Took
  <2>3. RequestOK(r)'
    BY <1>2, <1>3, <1>4, <2>1, <2>2 DEF RequestOK, Same
  <2>4. ASSUME NEW k \in Keys, Present(k)' PROVE EntryOK(k, r)'
    <3>1. EntryOK(k, q) /\ snap'[k] = snap[k]
      BY <1>2, <1>5, <1>8, <2>4
    <3>2. QED
      BY <1>3, <1>4, <2>1, <2>2, <3>1 DEF EntryOK, Lists, Same
  <2>5. QED
    BY <1>3, <2>1, <2>3, <2>4, SerialTurn
<1>9. QED
  BY <1>6, <1>7, <1>8

\* An entry is found that is as new as the request, or one is built.
LEMMA SerialLoad ==
  ASSUME TypeInv, Serial, SerialInv, NEW w \in Workers,
         Get(w) \/ LoadListing(w) \/ LoadContent(w)
  PROVE  SerialInv'
<1>1. PICK q \in Handlers : q = req[w]
  BY DEF TypeInv, TypeOK
<1>2. RequestOK(q) /\ \A k \in Keys : Present(k) => EntryOK(k, q)
  BY <1>1 DEF SerialInv
<1>3. /\ UNCHANGED <<driveVars, token, snap, idx, known>> /\ shown' <= runs
      /\ runs = 1 + ver[Folder]
  BY DEF Get, LoadListing, LoadContent, cacheVars, SerialInv
<1>4. CASE Get(w)
  <2>1. PICK r \in Handlers : /\ Turns(w, r) /\ Same(r, q) /\ Took(r, q)
                              /\ r.env = Found(q.key)
                              /\ r.pc = IF r.env.run # 0 THEN "hit" ELSE "listing"
    BY <1>1, <1>4, Finds
  <2>2. q.pc = "get" /\ Touched(q) = {} /\ Touched(r) = {} /\ r.key = q.key /\ q.key \in Keys
        /\ r.since = q.since
    BY <1>1, <1>2, <1>4, <2>1, Values DEF Get, At, Touched, Took, RequestOK, Same
  <2>3. r.pc = "hit" => Serves(r) /\ \A f \in Deps(r.env) : r.env.seen[f] >= r.since[f]
    <3> SUFFICES ASSUME r.pc = "hit"
                 PROVE  Serves(r) /\ \A f \in Deps(r.env) : r.env.seen[f] >= r.since[f]
      OBVIOUS
    <3>1. r.env.run # 0
      BY <2>1
    <3>2. PICK k \in Keys : /\ r.env = snap[k] /\ Present(k)
                            /\ q.key # 0 => snap[k].run = q.key
      <4>1. CASE Present(q.key)
        BY <1>2, <2>1, <2>2, <4>1 DEF Found, EntryOK
      <4>2. CASE ~Present(q.key)
        BY <2>1, <3>1, <4>2, Constants DEF Found, Present, NoEntry
      <4>3. QED
        BY <4>1, <4>2
    <3>3. EntryOK(k, q)
      BY <1>2, <3>2
    <3>4. \A f \in Deps(r.env) : r.env.seen[f] >= r.since[f]
      <4>1. ASSUME NEW f \in Deps(r.env) PROVE ~(r.env.seen[f] < r.since[f])
        BY <2>2, <3>2, <3>3 DEF EntryOK
      <4>2. \A f \in Deps(r.env) : r.env.seen[f] \in Nat /\ r.since[f] \in Nat
        BY Values
      <4>3. QED
        BY <4>1, <4>2
    <3>5. QED
      BY <2>2, <3>1, <3>2, <3>3, <3>4, Values DEF Serves, EntryOK
  <2>4. RequestOK(r)
    BY <1>2, <2>1, <2>2, <2>3 DEF RequestOK, Same
  <2>5. \A k \in Keys : Present(k) => EntryOK(k, r)
    BY <1>2, <2>1, <2>2, EntryStays
  <2>6. QED
    BY <1>3, <2>1, <2>4, <2>5, SerialQuiet
<1>5. CASE LoadListing(w)
  <2>1. PICK r \in Handlers : /\ Turns(w, r) /\ r.pc = "content" /\ Same(r, q) /\ Took(r, q)
                              /\ r.env.run = IF q.key = 0 THEN runs ELSE q.key
                              /\ r.env.list = runs /\ r.env.seen[Folder] = ver[Folder]
    BY <1>1, <1>5, ListsRuns
  <2>2. q.pc = "listing" /\ Touched(q) = {} /\ Touched(r) = {} /\ r.key = q.key /\ r.since = q.since
    BY <1>1, <1>2, <1>5, <2>1 DEF LoadListing, At, Touched, Took, RequestOK, Same
  <2>3. /\ ver[Folder] \in Nat /\ runs \in Nat \ {0} /\ r.since[Folder] \in Nat
        /\ r.since[Folder] <= ver[Folder]
    BY <1>2, <2>2, Values, Constants DEF RequestOK
  <2>4. Serves(r)
    BY <1>3, <2>1, <2>2, <2>3 DEF Serves, Lists
  <2>5. RequestOK(r)
    BY <1>2, <2>1, <2>2, <2>3, <2>4 DEF RequestOK, Same
  <2>6. \A k \in Keys : Present(k) => EntryOK(k, r)
    BY <1>2, <2>1, <2>2, EntryStays
  <2>7. QED
    BY <1>3, <2>1, <2>5, <2>6, SerialQuiet
<1>6. CASE LoadContent(w)
  <2>1. PICK r \in Handlers :
          /\ Turns(w, r) /\ r.pc = "store" /\ Same(r, q) /\ Took(r, q)
          /\ r.env.run = q.env.run /\ r.env.list = q.env.list
          /\ r.env.seen[Folder] = q.env.seen[Folder]
          /\ \A f \in Deps(r.env) \ {Folder} : r.env.seen[f] = ver[f]
    BY <1>1, <1>6, ReadsRuns
  <2>2. q.pc = "content" /\ Touched(q) = {} /\ Touched(r) = {} /\ r.key = q.key /\ r.since = q.since
    BY <1>1, <1>2, <1>6, <2>1 DEF LoadContent, At, Touched, Took, RequestOK, Same
  <2>3. Serves(r)
    BY <1>2, <2>1, <2>2 DEF Serves, Lists, RequestOK
  <2>4. ASSUME NEW f \in Deps(r.env)
        PROVE  r.env.seen[f] >= r.since[f] /\ (r.env.seen[f] < ver[f] => Ahead(f))
    <3>1. f \in Files /\ ver[f] \in Nat /\ r.since[f] \in Nat /\ r.since[f] <= ver[f]
      BY <1>2, <2>2, Values DEF RequestOK
    <3>2. CASE f = Folder
      BY <1>2, <2>1, <2>2, <2>3, <3>2 DEF RequestOK, Serves
    <3>3. CASE f # Folder
      BY <2>1, <3>1, <3>3
    <3>4. QED
      BY <3>2, <3>3
  <2>5. RequestOK(r)
    BY <1>2, <2>1, <2>2, <2>3, <2>4 DEF RequestOK, Same
  <2>6. \A k \in Keys : Present(k) => EntryOK(k, r)
    BY <1>2, <2>1, <2>2, EntryStays
  <2>7. QED
    BY <1>3, <2>1, <2>5, <2>6, SerialQuiet
<1>7. QED
  BY <1>4, <1>5, <1>6

\* What was built is stored and indexed.
LEMMA SerialStore ==
  ASSUME TypeInv, Serial, SerialInv, NEW w \in Workers,
         Store(w) \/ (\E f \in Files : IndexRead(w, f)) \/ IndexWrite(w)
  PROVE  SerialInv'
<1>1. PICK q \in Handlers : q = req[w]
  BY DEF TypeInv, TypeOK
<1>2. RequestOK(q) /\ \A k \in Keys : Present(k) => EntryOK(k, q)
  BY <1>1 DEF SerialInv
<1>3. /\ UNCHANGED <<driveVars, token, known, shown>> /\ runs = 1 + ver[Folder] /\ shown <= runs
  BY DEF Store, IndexRead, IndexWrite, cacheVars, SerialInv
<1>4. (\A f : Ahead(f)' <=> Ahead(f)) /\ \A x : Touched(x)' = Touched(x)
  BY <1>3, Unread DEF driveVars
<1>5. CASE Store(w)
  <2>1. PICK r \in Handlers : /\ Turns(w, r) /\ Same(r, q) /\ Took(r, q) /\ r.env = q.env
                              /\ r.pc = "index" /\ r.todo = Deps(r.env)
    BY <1>1, <1>5, Indexes
  <2>2. /\ q.pc = "store" /\ Touched(q) = {} /\ Touched(r) = {} /\ r.key = q.key /\ token # 0
        /\ snap' = [snap EXCEPT ![q.key] = q.env] /\ idx' = idx /\ q.key \in Keys
    BY <1>1, <1>2, <1>5, <2>1, Values DEF Store, At, Touched, Took, RequestOK, Same
  <2>3. RequestOK(r)'
    BY <1>2, <1>3, <1>4, <2>1, <2>2 DEF RequestOK, Same, Serves, Lists, driveVars
  <2>4. ASSUME NEW k \in Keys, Present(k)' PROVE EntryOK(k, r)'
    <3>1. CASE k = q.key
      <4>1. snap'[k] = q.env
        BY <2>2, <3>1 DEF TypeInv, TypeOK
      <4>2. QED
        BY <1>2, <1>3, <1>4, <2>1, <2>2, <3>1, <4>1 DEF EntryOK, RequestOK, Serves, Lists, driveVars
    <3>2. CASE k # q.key
      <4>1. snap'[k] = snap[k]
        BY <2>2, <3>2 DEF TypeInv, TypeOK
      <4>2. EntryOK(k, q)
        BY <1>2, <2>4, <4>1 DEF Present
      <4>3. QED
        BY <1>3, <1>4, <2>1, <2>2, <4>1, <4>2 DEF EntryOK, Lists, driveVars
    <3>3. QED
      BY <3>1, <3>2
  <2>5. QED
    BY <1>3, <2>1, <2>3, <2>4, SerialTurn DEF driveVars
<1>6. ASSUME NEW f \in Files, IndexRead(w, f) PROVE SerialInv'
  <2>1. ~Store(w)
    BY <1>6 DEF Store, IndexRead, At
  <2>2. PICK r \in Handlers, g \in q.todo :
          /\ Turns(w, r) /\ Same(r, q) /\ Took(r, q) /\ r.env = q.env
          /\ r.pc = "put" /\ r.file = g /\ r.members = idx[g] /\ r.todo = q.todo \ {g}
    BY <1>1, <1>6, <2>1, Indexes
  <2>3. q.pc = "index" /\ Touched(q) = {} /\ Touched(r) = {} /\ r.key = q.key
        /\ UNCHANGED <<snap, idx>>
    BY <1>1, <1>2, <1>6, <2>2 DEF IndexRead, At, Touched, Took, RequestOK, Same, cacheVars
  <2>4. RequestOK(r)
    BY <1>2, <2>2, <2>3 DEF RequestOK, Same, Serves
  <2>5. \A k \in Keys : Present(k) => EntryOK(k, r)
    BY <1>2, <2>2, <2>3 DEF EntryOK
  <2>6. QED
    BY <1>3, <2>2, <2>3, <2>4, <2>5, SerialQuiet
<1>7. CASE IndexWrite(w)
  <2>1. PICK r \in Handlers : /\ Turns(w, r) /\ r.pc = "index" /\ Same(r, q) /\ Took(r, q)
                              /\ Holds(r, q)
    BY <1>1, <1>7, GoesOn DEF IndexWrite, Steps
  <2>2. /\ q.pc = "put" /\ Touched(q) = {} /\ Touched(r) = {} /\ r.key = q.key /\ snap' = snap
        /\ q.members = idx[q.file] /\ q.file \in Files
    BY <1>1, <1>2, <1>7, <2>1 DEF IndexWrite, At, Touched, Took, RequestOK, Same, Handlers
  <2>3. (\A g \in Files : idx[g] \subseteq idx'[g]) /\ q.key \in idx'[q.file]
    BY <1>1, <1>7, <2>2 DEF IndexWrite, TypeInv, TypeOK
  <2>4. RequestOK(r)'
    BY <1>2, <1>3, <1>4, <2>1, <2>2 DEF RequestOK, Same, Serves, Lists, Holds, driveVars
  <2>5. ASSUME NEW k \in Keys, Present(k)' PROVE EntryOK(k, r)'
    <3>1. EntryOK(k, q)
      BY <1>2, <2>2, <2>5 DEF Present
    <3>2. \A g \in Deps(snap[k]) : g \in Files
      BY Values
    <3>3. QED
      BY <1>3, <1>4, <2>1, <2>2, <2>3, <3>1, <3>2 DEF EntryOK, Lists, Holds, driveVars
  <2>6. QED
    BY <1>3, <2>1, <2>4, <2>5, SerialTurn DEF driveVars
<1>8. QED
  BY <1>5, <1>6, <1>7

\* The request is answered.
LEMMA SerialReply ==
  ASSUME TypeInv, Serial, SerialInv, NEW w \in Workers, Overlay(w) \/ IndexDone(w) \/ Reply(w)
  PROVE  SerialInv'
<1>1. PICK q \in Handlers : q = req[w]
  BY DEF TypeInv, TypeOK
<1>2. RequestOK(q) /\ \A k \in Keys : Present(k) => EntryOK(k, q)
  BY <1>1 DEF SerialInv
<1>3. /\ UNCHANGED <<driveVars, token, snap, idx>> /\ runs = 1 + ver[Folder] /\ shown <= runs
  BY DEF Overlay, IndexDone, Reply, cacheVars, SerialInv
<1>4. CASE Overlay(w) \/ IndexDone(w)
  <2>1. PICK r \in Handlers : /\ Turns(w, r) /\ r.pc = "reply" /\ r.shows \in {q.env.list, runs}
                              /\ Same(r, q) /\ Took(r, q) /\ Holds(r, q)
    BY <1>1, <1>4, Answers
  <2>2. /\ q.pc \in {"hit", "index"} /\ Touched(q) = {} /\ Touched(r) = {} /\ r.key = q.key
        /\ r.env = q.env /\ r.since = q.since /\ r.shown = q.shown /\ shown' = shown
    BY <1>1, <1>2, <1>4, <2>1 DEF Overlay, IndexDone, At, Touched, Took, RequestOK, Same, Holds
  <2>3. r.shows >= r.shown /\ r.shows <= runs
    <3>1. /\ q.env.list = 1 + q.env.seen[Folder] /\ q.env.list <= runs
          /\ q.env.seen[Folder] >= q.since[Folder] /\ q.since[Folder] <= ver[Folder]
          /\ q.shown <= 1 + q.since[Folder]
      BY <1>2, <2>2, Constants DEF RequestOK, Serves, Lists
    <3>2. /\ q.env.seen[Folder] \in Nat /\ q.since[Folder] \in Nat /\ ver[Folder] \in Nat
          /\ q.shown \in Nat /\ runs \in Nat
      BY Values, Constants
    <3>3. QED
      BY <1>3, <2>1, <2>2, <3>1, <3>2
  <2>4. (\A f : Ahead(f)' <=> Ahead(f)) /\ \A x : Touched(x)' = Touched(x)
    BY <1>3, Unread DEF driveVars
  <2>5. RequestOK(r)'
    BY <1>2, <1>3, <2>1, <2>2, <2>3, <2>4 DEF RequestOK, Serves, Lists, driveVars
  <2>6. ASSUME NEW k \in Keys, Present(k)' PROVE EntryOK(k, r)'
    <3>1. EntryOK(k, q)
      BY <1>2, <1>3, <2>6 DEF Present
    <3>2. IF q.pc = "index" THEN q.todo = {} /\ known' = known \cup {q.key} ELSE known' = known
      BY <1>1, <1>4, <2>2 DEF Overlay, IndexDone, At
    <3>3. QED
      BY <1>3, <2>1, <2>2, <2>4, <3>1, <3>2 DEF EntryOK, Lists, driveVars
  <2>7. QED
    BY <1>3, <2>1, <2>2, <2>5, <2>6, SerialTurn DEF driveVars
<1>5. CASE Reply(w)
  <2>1. Turns(w, Idle) /\ q.pc = "reply" /\ shown' \in {q.shows, shown} /\ known' = known
    BY <1>1, <1>5 DEF Reply, Turns, At, cacheVars
  <2>2. shown' <= runs
    BY <1>2, <1>3, <2>1 DEF RequestOK
  <2>3. Touched(q) = {} /\ Touched(Idle) = {}
    BY <1>2, <2>1, IdleTask DEF RequestOK, Touched
  <2>4. RequestOK(Idle)
    BY <2>3, IdleTask, Values, Constants DEF RequestOK
  <2>5. \A k \in Keys : Present(k) => EntryOK(k, Idle)
    BY <1>2, <2>1, <2>3, IdleTask, EntryStays
  <2>6. QED
    BY <1>3, <2>1, <2>2, <2>4, <2>5, IdleTask, SerialQuiet
<1>6. QED
  BY <1>4, <1>5

LEMMA SerialInit == Init => SerialInv
<1> SUFFICES ASSUME Init PROVE SerialInv
  OBVIOUS
<1>1. /\ runs = 1 /\ ver[Folder] = 0 /\ shown = 0 /\ token = 0
      /\ \A k \in Keys : ~Present(k)
  BY Constants DEF Init, Present, NoEntry
<1>2. \A w \in Workers : req[w] = Idle
  BY DEF Init
<1>3. Touched(Idle) = {}
  BY IdleTask DEF Touched
<1>4. RequestOK(Idle)
  BY <1>1, <1>3, IdleTask, Constants DEF RequestOK, Init
<1>5. QED
  BY <1>1, <1>2, <1>4 DEF SerialInv

LEMMA SerialNext == Serial /\ TypeInv /\ SerialInv /\ [Next]_vars => SerialInv'
<1> SUFFICES ASSUME Serial, TypeInv, SerialInv, [Next]_vars PROVE SerialInv'
  OBVIOUS
<1>0. runs \in Nat \ {0} /\ runs = 1 + ver[Folder] /\ ver \in [Files -> Versions] /\ ver[Folder] \in Nat
  BY Values, Constants DEF SerialInv, TypeInv, TypeOK
<1>1. ASSUME NEW f \in Files, Edit(f) PROVE SerialInv'
  <2>1. {f} \in SUBSET Files /\ f # Folder
    BY <1>0, <1>1 DEF Edit, Folder
  <2>2. runs <= runs' /\ runs' = 1 + ver'[Folder]
    BY <1>0, <1>1, <2>1 DEF Edit
  <2>3. QED
    BY <1>1, <2>1, <2>2, SerialDrive DEF Edit
<1>2. CASE NewRun
  <2>1. feed' = Append(feed, {runs + 1, Folder})
    BY <1>2 DEF NewRun, Serial
  <2>2. {runs + 1, Folder} \in SUBSET Files
    BY <1>0, <1>2, Constants DEF NewRun, Files
  <2>3. runs <= runs' /\ runs' = 1 + ver'[Folder]
    BY <1>0, <1>2, Constants DEF NewRun
  <2>4. QED
    BY <1>2, <2>1, <2>2, <2>3, SerialDrive, Constants DEF NewRun
<1>3. \A f \in Files : ~Evict(f)
  BY DEF Serial, Evict
<1>4. \A w \in Workers : ~Crash(w) /\ ~ObserveFails(w)
  BY DEF Serial, Crash, ObserveFails
<1>5. CASE UNCHANGED vars
  <2>1. (\A f : Ahead(f)' <=> Ahead(f)) /\ \A x : Touched(x)' = Touched(x)
    BY <1>5, Unread DEF vars, driveVars, cacheVars
  <2>2. \A w \in Workers : req[w]' = req[w]
    BY <1>5 DEF vars
  <2>3. QED
    BY <1>5, <2>1, <2>2 DEF SerialInv, RequestOK, EntryOK, Serves, Lists, Present, Ahead, Touched,
                           vars, driveVars, cacheVars
<1>6. QED
  BY <1>1, <1>2, <1>3, <1>4, <1>5, SerialAsk, SerialAdvance, SerialDrop, SerialLoad, SerialStore,
     SerialReply DEF Next, WorkerStep

LEMMA SerialAlways == Serial => (Spec => [](TypeInv /\ SerialInv))
<1> SUFFICES ASSUME Serial
             PROVE  Spec => [](TypeInv /\ SerialInv)
  OBVIOUS
<1>1. Init => TypeInv /\ SerialInv
  BY TypeInit, SerialInit
<1>2. TypeInv /\ SerialInv /\ [Next]_vars => TypeInv' /\ SerialInv'
  BY TypeNext, SerialNext
<1>3. QED
  BY <1>1, <1>2, PTL DEF Spec

\* opp-cache-architecture.md, "we never serve cached data after Drive has reported
\* the change": a worker that serves one request after the other answers with
\* nothing older than Drive was when the request came in, for any number of runs
\* and changes, and however often the token expires.
THEOREM CurrentServed == Serial => (Spec => []ServesCurrent)
<1>1. TypeInv /\ SerialInv => ServesCurrent
  BY DEF SerialInv, RequestOK, Serves, ServesCurrent, At
<1>2. QED
  BY <1>1, SerialAlways, PTL

\* An entry that is out of date is one that a request will still hear about.
THEOREM StaleStaysPending == Serial => (Spec => []StaleIsPending)
<1> SUFFICES ASSUME Serial
             PROVE  Spec => []StaleIsPending
  OBVIOUS
<1>1. TypeInv /\ SerialInv => StaleIsPending
  <2> SUFFICES ASSUME SerialInv, NEW k \in Keys, Present(k), NEW f \in Deps(snap[k]),
                      snap[k].seen[f] < ver[f]
               PROVE  Ahead(f) \/ \E w \in Workers : f \in Changed(w)
    BY DEF StaleIsPending, Ahead
  <2>1. PICK w \in Workers : EntryOK(k, req[w])
    BY DEF Serial, SerialInv
  <2>2. QED
    BY <2>1 DEF EntryOK, Touched, Changed
<1>2. QED
  BY <1>1, SerialAlways, PTL

\* freshness_overlays.py: a run that a response has listed is in every later
\* response of the worker.
THEOREM RunsStay == Serial => (Spec => []RunsStayListed)
<1>1. TypeInv /\ SerialInv => RunsStayListed
  BY DEF SerialInv, RequestOK, RunsStayListed, At
<1>2. QED
  BY <1>1, SerialAlways, PTL

=============================================================================
