-------------------------- MODULE ClaudeCredential --------------------------
(***************************************************************************)
(* The Claude credentials that chats run on: the stored copies and the     *)
(* cached verdicts of apps/common/auth_flow.py, the copies CLIBackend      *)
(* stages and stores back (cli_backend.py), and the uploads and promotions *)
(* of apps/auth/api.py.                                                    *)
(*                                                                         *)
(* A credential is a number, in the order they come to be.  Its refresh    *)
(* token is good for one use: claude, which is external, refreshes the     *)
(* copy in its HOME in place, and every other copy is then spent.  One     *)
(* person may have a credential; "global" is what everybody else runs on.  *)
(* An action is what happens between two statements on the database.  Time *)
(* is abstracted: a cached verdict may lapse at any moment.                *)
(***************************************************************************)
EXTENDS Naturals

CONSTANTS
  Workers,      \* processes, on one or more ECS tasks, each with its caches
  Chats,        \* users of a HOME: slots of the pool, and one-shot turns
  Requests,     \* status polls, turns that select a backend, uploads
  Scopes,       \* "user" and "global", or less
  MaxBlobs,     \* bound on credentials
  MaxUploads,   \* bound on uploads and promotions
  MaxFaults     \* bound on deaths and failing writes

VARIABLES
  row,        \* the UserCredential and the SystemConfig row; 0 when there is none
  persisted,  \* _persist_cache of each worker
  mem,        \* _validation_cache of each worker
  saved,      \* the cli_validation_state row
  task,       \* what each chat and request is doing
  minted, spent,
  muddled,    \* rows that two HOMEs used at once, that were replaced or copied
              \* while one did, or whose refresh went down with a fault
  uploads, faults

vars == <<row, persisted, mem, saved, task, minted, spent, muddled, uploads, faults>>

Parties == Chats \cup Requests
Blobs == 1..MaxBlobs

\* of and scope are the key of a cached verdict; by is the credential that the
\* check was given, which may be another one by then.  What the verdict is changes
\* nothing but how long it is remembered.
Blank == [of |-> 0, scope |-> "global", by |-> 0]

\* own: asked for the person, not for everybody else.  of: the token that was
\* resolved.  by: the credential the HOME was given.  file: the one in it now,
\* or to be stored.  ends: the HOME goes once it is stored.
Idle == [pc |-> "idle", on |-> 0, own |-> FALSE, scope |-> "global", of |-> 0, by |-> 0,
         file |-> 0, ends |-> FALSE]

At(u, step)    == task[u].pc = step
Becomes(u, t)  == task' = [task EXCEPT ![u] = t]
Goto(u, step)  == Becomes(u, [task[u] EXCEPT !.pc = step])
Fault          == faults < MaxFaults /\ faults' = faults + 1
Staged(u)      == task[u].pc \in {"open", "write", "check", "store"}
Users(s)       == {u \in Parties : Staged(u) /\ task[u].scope = s}
Verdict(u)     == [of |-> task[u].of, scope |-> task[u].scope, by |-> task[u].by]
Unsaved(u)     == Staged(u) /\ task[u].file # row[task[u].scope]
Muddle(S)      == muddled' = muddled \cup S

-----------------------------------------------------------------------------
(* get_stored_token, and the second read of the row that follows it.       *)

Source(own) == IF own /\ "user" \in Scopes /\ row["user"] # 0 THEN "user" ELSE "global"

Resolving(t, step) ==
  LET s == Source(t.own) IN
  [t EXCEPT !.pc = IF row[s] = 0 THEN "idle" ELSE step, !.scope = s, !.of = row[s], !.file = 0]

\* A turn that finds no live process, or that runs in one of its own.
Stage(c, w, own) ==
  /\ At(c, "idle")
  /\ Becomes(c, Resolving([Idle EXCEPT !.on = w, !.own = own], "load"))
  /\ UNCHANGED <<row, persisted, mem, saved, minted, spent, muddled, uploads, faults>>

\* The HOME gets what the row holds by now.
Load(u) ==
  LET s == task[u].scope IN
  /\ At(u, "load")
  /\ Becomes(u, IF u \in Chats
                THEN [task[u] EXCEPT !.pc = "open", !.file = row[s], !.own = FALSE, !.of = 0]
                ELSE [task[u] EXCEPT !.pc = "check", !.file = row[s], !.by = row[s]])
  /\ Muddle(IF Users(s) = {} THEN {} ELSE {s})
  /\ UNCHANGED <<row, persisted, mem, saved, minted, spent, uploads, faults>>

\* claude refreshes the credential in its HOME.
Refresh(u) ==
  /\ task[u].pc \in {"open", "check"} /\ task[u].file \notin spent /\ minted < MaxBlobs
  /\ minted' = minted + 1 /\ spent' = spent \cup {task[u].file}
  /\ Becomes(u, [task[u] EXCEPT !.file = minted + 1])
  /\ UNCHANGED <<row, persisted, mem, saved, muddled, uploads, faults>>

-----------------------------------------------------------------------------
(* _persist_refreshed_blob.                                                *)

OnceOnly(u) == persisted[task[u].on][task[u].scope] # 0

\* The worker stored the very same text last.
Unchanged(u) == persisted[task[u].on][task[u].scope] = task[u].file

\* A turn ends, and its process lives on; or the HOME's process was stopped.
Persist(c, ends) ==
  LET t == task[c] IN
  /\ At(c, "open")
  /\ IF Unchanged(c)
     THEN /\ Becomes(c, IF ends THEN Idle ELSE t)
          /\ UNCHANGED persisted
     ELSE /\ Becomes(c, [t EXCEPT !.pc = "write", !.ends = ends])
          /\ persisted' = [persisted EXCEPT ![t.on][t.scope] = t.file]
  /\ UNCHANGED <<row, mem, saved, minted, spent, muddled, uploads, faults>>

After(c) == IF task[c].ends THEN Idle ELSE [task[c] EXCEPT !.pc = "open"]

Write(c) ==
  /\ At(c, "write")
  /\ row' = [row EXCEPT ![task[c].scope] = task[c].file]
  /\ Becomes(c, After(c))
  /\ UNCHANGED <<persisted, mem, saved, minted, spent, muddled, uploads, faults>>

\* A failure is logged, and the text counts as stored.
WriteFails(c) ==
  /\ At(c, "write") /\ Fault
  /\ Muddle(IF Unsaved(c) THEN {task[c].scope} ELSE {})
  /\ Becomes(c, After(c))
  /\ UNCHANGED <<row, persisted, mem, saved, minted, spent, uploads>>

-----------------------------------------------------------------------------
(* validate_stored_token.                                                  *)

Ask(r, w, own) ==
  /\ At(r, "idle")
  /\ Becomes(r, Resolving([Idle EXCEPT !.on = w, !.own = own], "recall"))
  /\ UNCHANGED <<row, persisted, mem, saved, minted, spent, muddled, uploads, faults>>

\* After an upload, for whom it was.
AskAgain(r) ==
  /\ At(r, "ask")
  /\ Becomes(r, Resolving(task[r], "recall"))
  /\ UNCHANGED <<row, persisted, mem, saved, minted, spent, muddled, uploads, faults>>

AboutAny(verdict, r) == verdict.of # 0 /\ verdict.scope = task[r].scope

About(verdict, r) == verdict.of = task[r].of /\ verdict.scope = task[r].scope

Told(r, verdict) == Becomes(r, [task[r] EXCEPT !.pc = "reply", !.by = verdict.by])

Recall(r) ==
  /\ At(r, "recall") /\ About(mem[task[r].on], r)
  /\ Told(r, mem[task[r].on])
  /\ UNCHANGED <<row, persisted, mem, saved, minted, spent, muddled, uploads, faults>>

LookUp(r) ==
  /\ At(r, "recall") /\ ~About(mem[task[r].on], r)
  /\ \/ /\ About(saved, r)
        /\ Told(r, saved) /\ mem' = [mem EXCEPT ![task[r].on] = saved]
     \/ /\ ~About(saved, r)
        /\ Goto(r, "load") /\ UNCHANGED mem
  /\ UNCHANGED <<row, persisted, saved, minted, spent, muddled, uploads, faults>>

\* claude answers, or fails, or is given up after 30 s.
Check(r) ==
  /\ At(r, "check") /\ Goto(r, "store")
  /\ UNCHANGED <<row, persisted, mem, saved, minted, spent, muddled, uploads, faults>>

\* What is in the HOME is stored, refreshed or not.
Store(r) ==
  /\ At(r, "store")
  /\ row' = [row EXCEPT ![task[r].scope] = task[r].file]
  /\ Becomes(r, [task[r] EXCEPT !.pc = "note", !.file = 0])
  /\ UNCHANGED <<persisted, mem, saved, minted, spent, muddled, uploads, faults>>

StoreFails(r) ==
  /\ At(r, "store") /\ Fault
  /\ Muddle(IF Unsaved(r) THEN {task[r].scope} ELSE {})
  /\ Becomes(r, [task[r] EXCEPT !.pc = "note", !.file = 0])
  /\ UNCHANGED <<row, persisted, mem, saved, minted, spent, uploads>>

\* A row that cannot be written is logged.
Note(r) ==
  /\ At(r, "note")
  /\ mem' = [mem EXCEPT ![task[r].on] = Verdict(r)]
  /\ \/ saved' = Verdict(r) /\ UNCHANGED faults
     \/ Fault /\ UNCHANGED saved
  /\ Told(r, Verdict(r))
  /\ UNCHANGED <<row, persisted, minted, spent, muddled, uploads>>

Reply(r) ==
  /\ At(r, "reply") /\ Becomes(r, Idle)
  /\ UNCHANGED <<row, persisted, mem, saved, minted, spent, muddled, uploads, faults>>

-----------------------------------------------------------------------------
(* Uploads and promotions: store_credentials_blob and its twin for a user. *)

Forget(w) == mem' = [mem EXCEPT ![w] = Blank] /\ saved' = Blank

\* Somebody logged in on a laptop, for this server.
Upload(r, w, s) ==
  /\ At(r, "idle") /\ uploads < MaxUploads /\ minted < MaxBlobs
  /\ uploads' = uploads + 1 /\ minted' = minted + 1
  /\ Forget(w)
  /\ Becomes(r, [Idle EXCEPT !.pc = "put", !.on = w, !.own = s = "user", !.scope = s,
                             !.file = minted + 1])
  /\ UNCHANGED <<row, persisted, spent, muddled, faults>>

\* The user's credential becomes everybody's as well.
Promote(r, w) ==
  /\ At(r, "idle") /\ uploads < MaxUploads /\ "user" \in Scopes /\ row["user"] # 0
  /\ uploads' = uploads + 1
  /\ Forget(w) /\ Muddle(Scopes)
  /\ Becomes(r, [Idle EXCEPT !.pc = "put", !.on = w, !.file = row["user"]])
  /\ UNCHANGED <<row, persisted, minted, spent, faults>>

Put(r) ==
  LET s == task[r].scope IN
  /\ At(r, "put")
  /\ row' = [row EXCEPT ![s] = task[r].file]
  /\ Muddle(IF Users(s) = {} THEN {} ELSE {s})
  /\ Becomes(r, [task[r] EXCEPT !.pc = "ask", !.file = 0])
  /\ UNCHANGED <<persisted, mem, saved, minted, spent, uploads, faults>>

\* For "global" it is logged only, and the request goes on.
PutFails(r) ==
  /\ At(r, "put") /\ Fault
  /\ Becomes(r, IF task[r].scope = "global" THEN [task[r] EXCEPT !.pc = "ask", !.file = 0] ELSE Idle)
  /\ UNCHANGED <<row, persisted, mem, saved, minted, spent, muddled, uploads>>

-----------------------------------------------------------------------------
\* A worker goes, with its caches, and its HOMEs as they are.
Dies(w) ==
  LET On == {u \in Parties : task[u].pc # "idle" /\ task[u].on = w} IN
  /\ Fault
  /\ Muddle({task[u].scope : u \in {v \in On : Unsaved(v)}})
  /\ task' = [u \in Parties |-> IF u \in On THEN Idle ELSE task[u]]
  /\ mem' = [mem EXCEPT ![w] = Blank] /\ persisted' = [persisted EXCEPT ![w] = [s \in Scopes |-> 0]]
  /\ UNCHANGED <<row, saved, minted, spent, uploads>>

Lapse ==
  /\ \/ \E w \in Workers : mem[w] # Blank /\ mem' = [mem EXCEPT ![w] = Blank] /\ UNCHANGED saved
     \/ saved # Blank /\ saved' = Blank /\ UNCHANGED mem
  /\ UNCHANGED <<row, persisted, task, minted, spent, muddled, uploads, faults>>

-----------------------------------------------------------------------------

\* The person has a credential or not yet.
Init ==
  /\ minted \in IF "user" \in Scopes THEN {1, 2} ELSE {1}
  /\ row = [s \in Scopes |-> IF s = "global" THEN 1 ELSE IF minted = 2 THEN 2 ELSE 0]
  /\ spent = {}
  /\ persisted = [w \in Workers |-> [s \in Scopes |-> 0]]
  /\ mem = [w \in Workers |-> Blank] /\ saved = Blank
  /\ task = [u \in Parties |-> Idle]
  /\ muddled = {} /\ uploads = 0 /\ faults = 0

Chatting(c) ==
  \/ \E w \in Workers, own \in BOOLEAN : Stage(c, w, own)
  \/ Load(c) \/ Refresh(c) \/ (\E ends \in BOOLEAN : Persist(c, ends)) \/ Write(c) \/ WriteFails(c)

Asking(r) ==
  \/ \E w \in Workers, own \in BOOLEAN : Ask(r, w, own)
  \/ AskAgain(r) \/ Recall(r) \/ LookUp(r) \/ Load(r) \/ Refresh(r)
  \/ Check(r)
  \/ Store(r) \/ StoreFails(r) \/ Note(r) \/ Reply(r)

Uploading(r) ==
  \/ \E w \in Workers, s \in Scopes : Upload(r, w, s)
  \/ \E w \in Workers : Promote(r, w)
  \/ Put(r) \/ PutFails(r)

Next ==
  \/ \E c \in Chats : Chatting(c)
  \/ \E r \in Requests : Asking(r) \/ Uploading(r)
  \/ (\E w \in Workers : Dies(w)) \/ Lapse

Spec == Init /\ [][Next]_vars

-----------------------------------------------------------------------------
(* Properties.                                                             *)

\* _build_refresh_persister, _mark_turn_complete: what is stored, or is in a
\* HOME about to be, can be refreshed, through whichever workers it went, unless
\* two HOMEs used it at once or a fault took a refresh along.
RefreshIsKept ==
  \A s \in Scopes \ muddled :
    row[s] \in spent => \E u \in Users(s) : task[u].file \notin spent

\* _hash_token, _invalidate_validation_cache: a verdict that is given of the
\* credential that is stored, by whichever worker and from whichever cache, comes
\* from a check that was given this credential, however checks, uploads and
\* refreshes cross, until two HOMEs use one credential.
VerdictsAreTheirs ==
  \A r \in Requests :
    At(r, "reply") /\ task[r].scope \notin muddled /\ task[r].of = row[task[r].scope] =>
      task[r].by = task[r].of

\* _stage_env_for: "we own the credentials file so concurrent sessions can't
\* clobber each other's OAuth refreshes": once no HOME is left, what is stored
\* can be refreshed, when nothing fails and nothing is uploaded.
RefreshesStand == \A s \in Scopes : Users(s) = {} => row[s] \notin spent

=============================================================================
