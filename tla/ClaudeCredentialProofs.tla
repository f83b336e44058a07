----------------------- MODULE ClaudeCredentialProofs -----------------------
(***************************************************************************)
(* Refreshes and verdicts of Claude credentials, with any number of        *)
(* workers, chats and requests: as long as no two HOMEs use one credential *)
(* and no fault takes a refresh along, what is stored can be refreshed,    *)
(* and a verdict is of the credential it came from.                        *)
(***************************************************************************)
EXTENDS ClaudeCredential, TLAPS

\* What the constants stand for; ClaudeCredential is only instantiated, so this
\* is a hypothesis of each theorem.
Parameters == "global" \in Scopes /\ Scopes \subseteq {"user", "global"}

Steps == {"idle", "load", "open", "write", "recall", "check", "store", "note", "reply",
          "put", "ask"}
Tasks == [pc : Steps, on : Workers \cup {0}, own : BOOLEAN, scope : Scopes, of : Nat, by : Nat,
          file : Nat, ends : BOOLEAN]
Verdicts == [of : Nat, scope : Scopes, by : Nat]

\* In a task's HOME or in its hands is a credential there is, and there is one
\* to put in a HOME; n credentials have come to be.
InHome(t) == t.pc \in {"open", "write", "check", "store"}
TaskOK(t, n, rows) ==
  /\ t.pc # "idle" => t.on \in Workers
  /\ InHome(t) \/ t.pc = "put" => t.file \in 1..n
  /\ InHome(t) \/ t.pc \in {"load", "recall"} => rows[t.scope] # 0
  /\ t.of <= n

TypeInv ==
  /\ minted \in Nat /\ row \in [Scopes -> Nat] /\ \A s \in Scopes : row[s] <= minted
  /\ spent \subseteq 1..minted /\ muddled \subseteq Scopes
  /\ persisted \in [Workers -> [Scopes -> Nat]]
  /\ \A w \in Workers, s \in Scopes : persisted[w][s] <= minted
  /\ mem \in [Workers -> Verdicts] /\ saved \in Verdicts
  /\ saved.of <= minted /\ \A w \in Workers : mem[w].of <= minted
  /\ task \in [Parties -> Tasks]
  /\ \A u \in Parties : TaskOK(task[u], minted, row)

\* The credentials that are stored under a row, or are in a HOME to be.
Held(s) == {row[s]} \cup {task[u].file : u \in Users(s)}

\* One HOME uses a row at a time, and what it holds can be refreshed; without
\* one, what is stored can.  What a worker takes for stored is.
Sound(s) ==
  /\ \A u, v \in Users(s) : u = v
  /\ \A u \in Users(s) : task[u].file \notin spent
  /\ Users(s) = {} => row[s] \notin spent
  /\ \A u \in Users(s), w \in Workers :
       At(u, "open") /\ persisted[w][s] = task[u].file => row[s] = task[u].file

\* No other row has a credential of this one.
Apart(s) == \A x \in Scopes \ {s} : Held(s) \cap Held(x) \subseteq {0}

\* What was uploaded is nowhere else before it is stored.
Fresh ==
  \A r \in Parties : At(r, "put") =>
    /\ task[r].file \notin spent /\ \A s \in Scopes : task[r].file \notin Held(s)
    /\ \A p \in Parties \ {r} : At(p, "put") => task[p].file # task[r].file

CoreInv ==
  /\ Scopes \ muddled # {} => Fresh
  /\ \A s \in Scopes \ muddled : Sound(s) /\ Apart(s)

\* The credentials a row has, or may have without another one coming to be.
Future(s) ==
  Held(s) \cup {task[r].file : r \in {p \in Parties : At(p, "put") /\ task[p].scope = s}}

\* A credential that a row had and has no more never comes back to it.
Moves ==
  \A s \in Scopes \ muddled' : \A n \in Future(s)' :
    n <= minted => n \in Future(s) /\ (n = row[s] => row'[s] = n)

\* A verdict of one credential that came from another one is about a credential
\* that is gone.
Bound(v) ==
  \A s \in Scopes \ muddled : v.scope = s /\ v.of # v.by => v.of \notin Future(s)

\* What was resolved was stored then; it is stored still, or it is gone.  What a
\* request was told is a verdict like those that are remembered.
Sincere(t) ==
  \A s \in Scopes \ muddled : t.scope = s =>
    /\ t.pc \in {"recall", "load", "check", "store", "note", "reply"} =>
         t.of = row[s] \/ t.of \notin Future(s)
    /\ t.pc \in {"check", "store", "note", "reply"} /\ t.of # t.by => t.of \notin Future(s)

VerdictInv ==
  /\ Bound(saved) /\ \A w \in Workers : Bound(mem[w])
  /\ \A u \in Parties : Sincere(task[u])

-----------------------------------------------------------------------------
(* The type invariant.                                                     *)

LEMMA IdleTask ==
  ASSUME Parameters
  PROVE  /\ Idle \in Tasks /\ Idle.pc = "idle" /\ Idle.of = 0 /\ Idle.file = 0
         /\ Blank \in Verdicts /\ Blank.of = 0 /\ Blank.by = 0
BY DEF Parameters, Idle, Tasks, Steps, Blank, Verdicts

LEMMA TypeInit == Parameters /\ Init => TypeInv
<1> SUFFICES ASSUME Parameters, Init PROVE TypeInv
  OBVIOUS
<1>1. minted \in 1..2 /\ row \in [Scopes -> Nat] /\ \A s \in Scopes : row[s] <= minted
  BY DEF Init
<1>2. \A u \in Parties : TaskOK(task[u], minted, row)
  BY <1>1, IdleTask DEF Init, TaskOK, InHome
<1>3. spent = {} /\ muddled = {}
  BY DEF Init
<1>4. /\ persisted \in [Workers -> [Scopes -> Nat]]
      /\ \A w \in Workers, s \in Scopes : persisted[w][s] <= minted
  BY <1>1 DEF Init
<1>5. /\ mem \in [Workers -> Verdicts] /\ saved \in Verdicts /\ task \in [Parties -> Tasks]
      /\ saved.of <= minted /\ \A w \in Workers : mem[w].of <= minted
  BY <1>1, IdleTask DEF Init
<1>6. QED
  BY <1>1, <1>2, <1>3, <1>4, <1>5 DEF TypeInv

\* What a step must leave for the types: credentials only come, no row is
\* emptied.
Growing ==
  /\ minted' \in Nat /\ minted <= minted'
  /\ row' \in [Scopes -> Nat] /\ \A s \in Scopes : row'[s] <= minted' /\ (row[s] # 0 => row'[s] # 0)
  /\ spent' \subseteq 1..minted' /\ muddled' \subseteq Scopes
  /\ persisted' \in [Workers -> [Scopes -> Nat]]
  /\ \A w \in Workers, s \in Scopes : persisted'[w][s] <= minted'
  /\ mem' \in [Workers -> Verdicts] /\ saved' \in Verdicts
  /\ saved'.of <= minted' /\ \A w \in Workers : mem'[w].of <= minted'

\* A party goes on to a task that is sound, and no other party moves.
LEMMA BecomesType ==
  ASSUME TypeInv, Growing, NEW u \in Parties, NEW t \in Tasks, Becomes(u, t),
         TaskOK(t, minted', row')
  PROVE  TypeInv'
<1>1. task' \in [Parties -> Tasks] /\ \A v \in Parties : task'[v] = IF v = u THEN t ELSE task[v]
  BY DEF Becomes, TypeInv
<1>2. ASSUME NEW v \in Parties, v # u
      PROVE  TaskOK(task[v], minted', row')
  <2>1. task[v] \in Tasks /\ TaskOK(task[v], minted, row) /\ task[v].scope \in Scopes
        /\ task[v].file \in Nat /\ task[v].of \in Nat
    BY DEF TypeInv, Tasks
  <2>2. minted \in Nat
    BY DEF TypeInv
  <2>3. QED
    BY <2>1, <2>2 DEF TaskOK, Growing
<1>3. \A v \in Parties : TaskOK(task'[v], minted', row')
  BY <1>1, <1>2
<1>4. QED
  BY <1>1, <1>3 DEF TypeInv, Growing

\* What a party resolves to: a row with a credential, or it gives up.
LEMMA Resolved ==
  ASSUME Parameters, TypeInv, NEW t \in Tasks, NEW step \in Steps
  PROVE  LET r == Resolving(t, step) IN
         /\ r \in Tasks /\ r.on = t.on /\ r.of = row[r.scope] /\ r.by = t.by
         /\ r.pc = "idle" \/ (r.pc = step /\ row[r.scope] # 0)
<1>1. Source(t.own) \in Scopes
  BY DEF Source, Parameters
<1>2. row[Source(t.own)] \in Nat /\ "idle" \in Steps
  BY <1>1 DEF TypeInv, Steps
<1>3. QED
  BY <1>1, <1>2 DEF Resolving, Tasks

-----------------------------------------------------------------------------
(* What steps do to who holds what.                                        *)

\* Nobody holds what nobody held: uploads stay apart, and so do the rows.
LEMMA Shrinks ==
  ASSUME TypeInv, CoreInv, spent' = spent, muddled \subseteq muddled',
         \A s \in Scopes : Held(s)' \subseteq Held(s),
         \A p \in Parties : At(p, "put")' => At(p, "put") /\ task'[p] = task[p],
         \A s \in Scopes \ muddled' : row'[s] = row[s] \/ row[s] \notin Held(s)'
  PROVE  /\ Scopes \ muddled' # {} => Fresh'
         /\ \A s \in Scopes \ muddled' : Apart(s)'
         /\ Moves
<1>1. Scopes \ muddled' # {} => Fresh'
  BY DEF CoreInv, Fresh, At
<1>2. \A s \in Scopes \ muddled' : Apart(s)'
  BY DEF CoreInv, Apart
<1>3. ASSUME NEW s \in Scopes \ muddled', NEW n \in Future(s)'
      PROVE  n \in Future(s) /\ (n = row[s] => row'[s] = n)
  <2>1. CASE n \in Held(s)'
    BY <1>3, <2>1 DEF Future
  <2>2. ASSUME NEW p \in Parties, At(p, "put")', task'[p].scope = s, n = task'[p].file
        PROVE  n \in Future(s) /\ (n = row[s] => row'[s] = n)
    <3>1. At(p, "put") /\ task[p].scope = s /\ n = task[p].file
      BY <2>2
    <3>2. n \notin Held(s)
      BY <1>3, <3>1 DEF CoreInv, Fresh
    <3>3. n \in Future(s)
      BY <3>1 DEF Future
    <3>4. QED
      BY <3>2, <3>3 DEF Held
  <2>3. QED
    BY <1>3, <2>1, <2>2 DEF Future, At
<1>4. QED
  BY <1>1, <1>2, <1>3 DEF Moves

\* A row whose HOME, persisted texts and spent credentials stay is as sound.
LEMMA SoundKept ==
  ASSUME TypeInv, NEW s \in Scopes, Sound(s), row'[s] = row[s],
         \A w \in Workers : persisted'[w][s] \in {0, persisted[w][s]},
         spent' \cap Held(s) \subseteq spent,
         \A v \in Parties : \/ task'[v] = task[v]
                            \/ v \notin Users(s) /\ v \notin Users(s)'
  PROVE  Sound(s)' /\ Held(s)' = Held(s)
<1>1. Users(s)' = Users(s) /\ \A u \in Users(s) : task'[u] = task[u]
  BY DEF Users, Staged
<1>2. \A u \in Users(s) : task[u].file \in Held(s) /\ task[u].file # 0
  BY DEF Held, Users, Staged, TypeInv, TaskOK, InHome
<1>3. QED
  BY <1>1, <1>2 DEF Sound, Held, At

\* No HOME and no upload changes hands, or an upload fails.
LEMMA QuietKeeps ==
  ASSUME TypeInv, CoreInv, UNCHANGED <<row, persisted, spent, minted, muddled>>,
         \A v \in Parties :
           task'[v] = task[v]
           \/ (~InHome(task[v]) /\ ~InHome(task'[v]) /\ task'[v].pc # "put")
  PROVE  CoreInv' /\ Moves
<1>1. \A s \in Scopes : Users(s)' = Users(s) /\ \A u \in Users(s) : task'[u] = task[u]
  BY DEF Users, Staged, InHome
<1>2. \A s \in Scopes : Held(s)' = Held(s)
  BY <1>1 DEF Held
<1>3. \A p \in Parties : At(p, "put")' => At(p, "put") /\ task'[p] = task[p]
  BY DEF At
<1>4. \A s \in Scopes \ muddled : Sound(s)'
  BY <1>1 DEF CoreInv, Sound, At
<1>5. QED
  BY <1>2, <1>3, <1>4, Shrinks DEF CoreInv

\* A HOME's credential is stored, or counts as stored, and the HOME lives on or
\* goes; unless it is stored, or stays to be, the row is muddled.
LEMMA HomeKeeps ==
  ASSUME TypeInv, CoreInv, NEW u \in Parties, NEW t \in Tasks, Becomes(u, t), Staged(u),
         \/ InHome(t) /\ t.file = task[u].file /\ t.scope = task[u].scope
         \/ ~InHome(t) /\ t.pc # "put",
         UNCHANGED <<spent, minted>>, muddled \subseteq muddled',
         \A s \in Scopes \ {task[u].scope} :
           row'[s] = row[s] /\ \A w \in Workers : persisted'[w][s] = persisted[w][s],
         row'[task[u].scope] \in {row[task[u].scope], task[u].file},
         \/ task[u].scope \in muddled'
         \/ row'[task[u].scope] = task[u].file
         \/ t.pc \in {"write", "store"}
         \/ t = task[u] /\ persisted' = persisted
  PROVE  CoreInv' /\ Moves
<1>0. PICK z \in Scopes : z = task[u].scope
  BY DEF TypeInv, Tasks
<1>1. /\ task'[u] = t /\ \A v \in Parties \ {u} : task'[v] = task[v]
      /\ task[u].file \in Held(z) /\ u \in Users(z) /\ InHome(task[u])
  BY <1>0 DEF Becomes, TypeInv, Held, Users, Staged, InHome
<1>2. \A s \in Scopes : /\ Users(s)' \subseteq Users(s)
                        /\ \A v \in Users(s)' : task'[v].file = task[v].file
  BY <1>1 DEF Users, Staged, InHome
<1>3. \A s \in Scopes : Held(s)' \subseteq Held(s)
  <2>1. \A s \in Scopes : row'[s] \in Held(s)
    BY <1>0, <1>1 DEF Held
  <2>2. \A s \in Scopes : \A v \in Users(s)' : task'[v].file \in Held(s)
    BY <1>2 DEF Held
  <2>3. QED
    BY <2>1, <2>2 DEF Held
<1>4. \A p \in Parties : At(p, "put")' => At(p, "put") /\ task'[p] = task[p]
  BY <1>1 DEF At, InHome
<1>5. ASSUME z \notin muddled', row'[z] # row[z] PROVE row[z] \notin Held(z)'
  <2>1. Users(z) = {u} /\ row'[z] = task[u].file
    BY <1>0, <1>1, <1>5 DEF CoreInv, Sound
  <2>2. QED
    BY <1>2, <1>5, <2>1 DEF Held
<1>6. \A s \in Scopes \ {z} : s \notin muddled' => Sound(s)'
  <2> SUFFICES ASSUME NEW s \in Scopes \ {z}, s \notin muddled' PROVE Sound(s)'
    OBVIOUS
  <2>1. u \notin Users(s) /\ u \notin Users(s)'
    BY <1>0, <1>1 DEF Users, Staged, InHome
  <2>2. QED
    BY <1>0, <1>1, <2>1, SoundKept DEF CoreInv
<1>7. ASSUME z \notin muddled' PROVE Sound(z)'
  <2>1. Users(z) = {u} /\ task[u].file \notin spent
    BY <1>1, <1>7 DEF CoreInv, Sound
  <2>2. CASE InHome(t)
    <3>1. Users(z)' = {u} /\ task'[u].file \notin spent'
      BY <1>0, <1>1, <1>2, <2>1, <2>2 DEF Users, Staged, InHome
    <3>2. ASSUME NEW w \in Workers, t.pc = "open", persisted'[w][z] = t.file PROVE row'[z] = t.file
      BY <1>0, <1>1, <1>7, <2>1, <2>2, <3>2 DEF CoreInv, Sound, At, InHome
    <3>3. QED
      BY <1>1, <3>1, <3>2 DEF Sound, At
  <2>3. CASE ~InHome(t)
    <3>1. Users(z)' = {}
      BY <1>1, <1>2, <2>1, <2>3 DEF Users, Staged, InHome
    <3>2. row'[z] = task[u].file
      BY <1>0, <1>1, <1>7, <2>3 DEF InHome
    <3>3. QED
      BY <2>1, <3>1, <3>2 DEF Sound
  <2>4. QED
    BY <2>2, <2>3
<1>8. \A s \in Scopes \ muddled' : row'[s] = row[s] \/ row[s] \notin Held(s)'
  BY <1>0, <1>5
<1>9. QED
  BY <1>3, <1>4, <1>6, <1>7, <1>8, Shrinks DEF CoreInv

\* A HOME gets what is stored; beside another one of the row, it muddles it.
LEMMA LoadKeeps ==
  ASSUME TypeInv, CoreInv, NEW u \in Parties, NEW t \in Tasks, Becomes(u, t), At(u, "load"),
         InHome(t), t.scope = task[u].scope, t.file = row[t.scope],
         UNCHANGED <<row, spent, minted, persisted>>, muddled \subseteq muddled',
         Users(t.scope) # {} => t.scope \in muddled'
  PROVE  CoreInv' /\ Moves
<1> DEFINE z == t.scope
<1>1. /\ task'[u] = t /\ \A v \in Parties \ {u} : task'[v] = task[v]
      /\ z \in Scopes /\ ~InHome(task[u])
  BY DEF Becomes, TypeInv, Tasks, At, InHome
<1>2. /\ \A s \in Scopes \ {z} : Users(s)' = Users(s)
      /\ Users(z)' = Users(z) \cup {u} /\ \A s \in Scopes : u \notin Users(s)
  BY <1>1 DEF Users, Staged, InHome
<1>3. \A s \in Scopes : Held(s)' \subseteq Held(s)
  <2>1. \A s \in Scopes : row'[s] \in Held(s)
    BY DEF Held
  <2>2. ASSUME NEW s \in Scopes, NEW v \in Users(s)'
        PROVE  task'[v].file \in Held(s)
    <3>1. CASE v = u
      BY <1>1, <1>2, <2>2, <3>1 DEF Held
    <3>2. CASE v # u
      <4>1. v \in Users(s) /\ task'[v] = task[v]
        BY <1>1, <1>2, <2>2, <3>2 DEF Users
      <4>2. QED
        BY <4>1 DEF Held
    <3>3. QED
      BY <3>1, <3>2
  <2>3. QED
    BY <2>1, <2>2 DEF Held
<1>4. \A p \in Parties : At(p, "put")' => At(p, "put") /\ task'[p] = task[p]
  BY <1>1 DEF At, InHome
<1>5. \A s \in Scopes \ {z} : s \notin muddled' => Sound(s)'
  BY <1>1, <1>2, SoundKept DEF CoreInv
<1>6. ASSUME z \notin muddled' PROVE Sound(z)'
  <2>1. Users(z)' = {u} /\ row[z] \notin spent
    BY <1>1, <1>2, <1>6 DEF CoreInv, Sound
  <2>2. QED
    BY <1>1, <2>1 DEF Sound
<1>7. QED
  BY <1>3, <1>4, <1>5, <1>6, Shrinks DEF CoreInv

\* claude refreshes: the HOME gets a credential that is nobody's, the one it
\* spends is nobody else's.
LEMMA RefreshKeeps ==
  ASSUME TypeInv, CoreInv, NEW u \in Parties, Refresh(u)
  PROVE  CoreInv' /\ Moves
<1>0. PICK z \in Scopes, f \in Nat : z = task[u].scope /\ f = task[u].file
  BY DEF TypeInv, Tasks
<1>1. PICK t \in Tasks : t = [task[u] EXCEPT !.file = minted + 1]
  <2>1. task[u] \in Tasks /\ minted + 1 \in Nat
    BY DEF TypeInv
  <2>2. [task[u] EXCEPT !.file = minted + 1] \in Tasks
    BY <2>1 DEF Tasks
  <2>3. QED
    BY <2>2
<1>2. /\ t.scope = z /\ t.file = minted + 1 /\ t.pc = task[u].pc /\ minted \in Nat
      /\ t.pc \in {"open", "check"} /\ f <= minted /\ u \in Users(z)
      /\ task'[u] = t /\ \A v \in Parties \ {u} : task'[v] = task[v]
      /\ spent' = spent \cup {f} /\ minted' = minted + 1 /\ UNCHANGED <<row, persisted, muddled>>
  BY <1>0, <1>1 DEF Refresh, Becomes, Tasks, TypeInv, TaskOK, InHome, Users, Staged
<1>3. /\ \A s \in Scopes : Users(s)' = Users(s)
      /\ \A s \in Scopes \ {z} : u \notin Users(s)
  BY <1>0, <1>2 DEF Users, Staged
<1>4. \A s \in Scopes : Held(s)' \subseteq Held(s) \cup {minted + 1}
  <2>1. \A s \in Scopes : row'[s] \in Held(s)
    BY <1>2 DEF Held
  <2>2. ASSUME NEW s \in Scopes, NEW v \in Users(s)'
        PROVE  task'[v].file \in Held(s) \cup {minted + 1}
    <3>1. CASE v = u
      BY <1>2, <3>1
    <3>2. CASE v # u
      BY <1>2, <1>3, <2>2, <3>2 DEF Held, Users
    <3>3. QED
      BY <3>1, <3>2
  <2>3. QED
    BY <2>1, <2>2 DEF Held
<1>5. /\ \A s \in Scopes \ {z} : Held(s)' = Held(s)
      /\ \A s \in Scopes : \A n \in Held(s) : n \in Nat /\ n <= minted
  <2>1. \A v \in Parties : Staged(v) => task[v].file \in Nat /\ task[v].file <= minted
    BY <1>2 DEF TypeInv, TaskOK, InHome, Staged
  <2>2. QED
    BY <1>2, <1>3, <2>1 DEF Held, TypeInv, Users
<1>6. f \in Held(z)
  BY <1>0, <1>2 DEF Held
<1>7. \A p \in Parties : /\ At(p, "put")' <=> At(p, "put")
                         /\ At(p, "put") => task'[p] = task[p] /\ task[p].file \in 1..minted
  BY <1>2 DEF At, TypeInv, TaskOK
<1>8. Scopes \ muddled' # {} => Fresh'
  <2> SUFFICES ASSUME NEW r \in Parties, At(r, "put"), Fresh
               PROVE  /\ task[r].file \notin spent' /\ \A s \in Scopes : task[r].file \notin Held(s)'
                      /\ \A p \in Parties \ {r} : At(p, "put") => task[p].file # task[r].file
    BY <1>2, <1>7 DEF Fresh, CoreInv
  <2>1. /\ task[r].file \notin spent /\ \A s \in Scopes : task[r].file \notin Held(s)
        /\ task[r].file # minted + 1
    BY <1>2, <1>7 DEF Fresh
  <2>2. QED
    BY <1>2, <1>4, <1>6, <1>7, <2>1 DEF Fresh
<1>9. \A s \in Scopes \ muddled' : Apart(s)'
  <2> SUFFICES ASSUME NEW s \in Scopes \ muddled, NEW x \in Scopes \ {s},
                      NEW n \in Held(s)', n \in Held(x)'
               PROVE  n = 0
    BY <1>2 DEF Apart
  <2>1. n \in Held(s) /\ n \in Held(x)
    BY <1>2, <1>4, <1>5
  <2>2. QED
    BY <2>1 DEF CoreInv, Apart
<1>10. ASSUME NEW s \in Scopes \ muddled, s # z PROVE Sound(s)'
  <2>1. f \notin Held(s)
    <3>1. f # 0
      BY <1>0, <1>2 DEF TypeInv, TaskOK, InHome
    <3>2. QED
      BY <1>6, <1>10, <3>1 DEF CoreInv, Apart
  <2>2. Sound(s) /\ spent' \cap Held(s) \subseteq spent /\ u \notin Users(s) /\ u \notin Users(s)'
    BY <1>2, <1>3, <1>10, <2>1 DEF CoreInv
  <2>3. QED
    BY <1>2, <2>2, SoundKept DEF TypeInv
<1>11. ASSUME z \notin muddled PROVE Sound(z)'
  <2>1. Users(z) = {u} /\ Users(z)' = {u}
    BY <1>2, <1>3, <1>11 DEF CoreInv, Sound
  <2>2. minted + 1 \notin spent' /\ \A w \in Workers : persisted[w][z] # minted + 1
    BY <1>2 DEF TypeInv
  <2>3. QED
    BY <1>2, <2>1, <2>2 DEF Sound
<1>12. Moves
  <2> SUFFICES ASSUME NEW s \in Scopes \ muddled, NEW n \in Future(s)', n <= minted
               PROVE  n \in Future(s) /\ (n = row[s] => row'[s] = n)
    BY <1>2 DEF Moves
  <2>1. n \in Future(s)
    BY <1>2, <1>4, <1>7 DEF Future
  <2>2. QED
    BY <1>2, <2>1
<1>13. QED
  BY <1>2, <1>8, <1>9, <1>10, <1>11, <1>12 DEF CoreInv

\* What a credential there is, held or to be stored, is bounded by.
LEMMA HeldBound ==
  ASSUME TypeInv
  PROVE  /\ \A s \in Scopes : \A n \in Held(s) : n \in 0..minted
         /\ \A p \in Parties : At(p, "put") => task[p].file \in 1..minted /\ task[p].scope \in Scopes
<1>1. \A v \in Parties : Staged(v) \/ At(v, "put") => task[v].file \in 1..minted
  BY DEF TypeInv, TaskOK, InHome, Staged, At
<1>2. minted \in Nat /\ \A s \in Scopes : row[s] \in 0..minted
  BY DEF TypeInv
<1>3. QED
  BY <1>1, <1>2 DEF Held, Users, TypeInv, Tasks

\* An upload is a credential that comes to be.
LEMMA UploadKeeps ==
  ASSUME TypeInv, CoreInv, NEW u \in Parties, NEW t \in Tasks, Becomes(u, t), At(u, "idle"),
         t.pc = "put", t.file = minted + 1, minted' = minted + 1,
         UNCHANGED <<row, spent, persisted, muddled>>
  PROVE  CoreInv' /\ Moves
<1>1. /\ task'[u] = t /\ \A v \in Parties \ {u} : task'[v] = task[v]
      /\ ~InHome(task[u]) /\ ~InHome(t) /\ minted \in Nat
  BY DEF Becomes, TypeInv, At, InHome
<1>2. \A s \in Scopes : Users(s)' = Users(s) /\ \A v \in Users(s) : task'[v] = task[v]
  BY <1>1 DEF Users, Staged, InHome
<1>3. \A s \in Scopes : Held(s)' = Held(s)
  BY <1>2 DEF Held
<1>4. \A p \in Parties \ {u} : At(p, "put")' <=> At(p, "put")
  BY <1>1 DEF At
<1>5. minted + 1 \notin spent /\ \A s \in Scopes : minted + 1 \notin Held(s)
  BY <1>1, HeldBound DEF TypeInv
<1>6. Scopes \ muddled' # {} => Fresh'
  <2> SUFFICES ASSUME NEW r \in Parties, At(r, "put")', Fresh
               PROVE  /\ task'[r].file \notin spent /\ \A s \in Scopes : task'[r].file \notin Held(s)
                      /\ \A p \in Parties \ {r} : At(p, "put")' => task'[p].file # task'[r].file
    BY <1>3 DEF Fresh, CoreInv
  <2>1. CASE r = u
    BY <1>1, <1>4, <1>5, <2>1, HeldBound
  <2>2. CASE r # u
    <3>1. At(r, "put") /\ task'[r] = task[r] /\ task[r].file \in 1..minted
      BY <1>1, <1>4, <2>2, HeldBound
    <3>2. QED
      BY <1>1, <1>4, <3>1 DEF Fresh
  <2>3. QED
    BY <2>1, <2>2
<1>7. \A s \in Scopes \ muddled : Sound(s)' /\ Apart(s)'
  BY <1>2, <1>3 DEF CoreInv, Sound, Apart, At
<1>8. Moves
  <2> SUFFICES ASSUME NEW s \in Scopes \ muddled, NEW n \in Future(s)', n <= minted
               PROVE  n \in Future(s)
    BY DEF Moves
  <2>1. CASE n \in Held(s)'
    BY <1>3, <2>1 DEF Future
  <2>2. ASSUME NEW p \in Parties, At(p, "put")', task'[p].scope = s, n = task'[p].file
        PROVE  n \in Future(s)
    BY <1>1, <1>4, <2>2 DEF Future
  <2>3. QED
    BY <2>1, <2>2 DEF Future, At
<1>9. QED
  BY <1>6, <1>7, <1>8 DEF CoreInv

\* An upload is stored; beside a HOME of the row, it muddles it.
LEMMA PutKeeps ==
  ASSUME TypeInv, CoreInv, NEW u \in Parties, NEW t \in Tasks, Becomes(u, t), At(u, "put"),
         ~InHome(t), t.pc # "put",
         row' = [row EXCEPT ![task[u].scope] = task[u].file],
         UNCHANGED <<spent, minted, persisted>>, muddled \subseteq muddled',
         Users(task[u].scope) # {} => task[u].scope \in muddled'
  PROVE  CoreInv' /\ Moves
<1>0. PICK z \in Scopes, f \in Nat : z = task[u].scope /\ f = task[u].file
  BY DEF TypeInv, Tasks
<1>1. /\ task'[u] = t /\ \A v \in Parties \ {u} : task'[v] = task[v]
      /\ ~InHome(task[u]) /\ f \in Future(z)
      /\ row'[z] = f /\ \A s \in Scopes \ {z} : row'[s] = row[s]
  BY <1>0 DEF Becomes, TypeInv, At, InHome, Future
<1>2. \A s \in Scopes : Users(s)' = Users(s) /\ \A v \in Users(s) : task'[v] = task[v]
  BY <1>1 DEF Users, Staged, InHome
<1>3. /\ \A s \in Scopes \ {z} : Held(s)' = Held(s)
      /\ Held(z)' \subseteq Held(z) \cup {f}
  BY <1>1, <1>2 DEF Held
<1>4. \A p \in Parties : At(p, "put")' => p # u /\ At(p, "put") /\ task'[p] = task[p]
  BY <1>1 DEF At
<1>5. Scopes \ muddled' # {} =>
        /\ f \notin spent /\ \A s \in Scopes : f \notin Held(s)
        /\ \A p \in Parties : At(p, "put")' => task'[p].file # f
  BY <1>0, <1>4 DEF CoreInv, Fresh
<1>6. Scopes \ muddled' # {} => Fresh'
  <2> SUFFICES ASSUME Scopes \ muddled' # {}, NEW r \in Parties, At(r, "put")', Fresh
               PROVE  /\ task'[r].file \notin spent' /\ \A s \in Scopes : task'[r].file \notin Held(s)'
                      /\ \A p \in Parties \ {r} : At(p, "put")' => task'[p].file # task'[r].file
    BY DEF Fresh, CoreInv
  <2>1. At(r, "put") /\ task'[r] = task[r] /\ task[r].file # f
    BY <1>4, <1>5
  <2>2. QED
    BY <1>3, <1>4, <2>1 DEF Fresh
<1>7. \A s \in Scopes \ muddled' : Apart(s)'
  <2> SUFFICES ASSUME NEW s \in Scopes \ muddled', NEW x \in Scopes \ {s},
                      NEW n \in Held(s)', n \in Held(x)'
               PROVE  n = 0
    BY DEF Apart
  <2>1. n \in Held(s) /\ n \in Held(x)
    BY <1>3, <1>5
  <2>2. QED
    BY <2>1 DEF CoreInv, Apart
<1>8. ASSUME NEW s \in Scopes \ muddled' PROVE Sound(s)'
  <2>1. CASE s = z
    <3>1. Users(s)' = {} /\ row'[s] \notin spent
      BY <1>0, <1>1, <1>2, <1>5, <1>8, <2>1
    <3>2. QED
      BY <3>1 DEF Sound
  <2>2. CASE s # z
    BY <1>1, <1>2, <1>8, <2>2 DEF CoreInv, Sound, At
  <2>3. QED
    BY <2>1, <2>2
<1>9. ASSUME NEW s \in Scopes \ muddled', NEW n \in Future(s)'
      PROVE  n \in Future(s) /\ (n = row[s] => row'[s] = n)
  <2>1. CASE n \in Held(s)'
    <3>1. n \in Future(s)
      BY <1>1, <1>3, <2>1 DEF Future
    <3>2. s = z => Held(s)' = {f}
      BY <1>0, <1>1, <1>2, <1>9 DEF Held
    <3>3. QED
      BY <1>1, <2>1, <3>1, <3>2
  <2>2. ASSUME NEW p \in Parties, At(p, "put")', task'[p].scope = s, n = task'[p].file
        PROVE  n \in Future(s) /\ (n = row[s] => row'[s] = n)
    <3>1. At(p, "put") /\ task[p].scope = s /\ n = task[p].file
      BY <1>4, <2>2
    <3>2. n \notin Held(s)
      BY <1>9, <3>1 DEF CoreInv, Fresh
    <3>3. n \in Future(s)
      BY <3>1 DEF Future
    <3>4. QED
      BY <3>2, <3>3 DEF Held
  <2>3. QED
    BY <1>9, <2>1, <2>2 DEF Future, At
<1>10. QED
  BY <1>6, <1>7, <1>8, <1>9 DEF CoreInv, Moves

\* A worker dies with its HOMEs: what is not stored of them muddles its row.
LEMMA DiesKeeps ==
  ASSUME Parameters, TypeInv, CoreInv, NEW w \in Workers, Dies(w)
  PROVE  CoreInv' /\ Moves
<1> DEFINE On == {u \in Parties : task[u].pc # "idle" /\ task[u].on = w}
<1>1. /\ \A u \in On : task'[u] = Idle /\ (Unsaved(u) => task[u].scope \in muddled')
      /\ \A u \in Parties \ On : task'[u] = task[u]
      /\ UNCHANGED <<row, spent, minted>> /\ muddled \subseteq muddled'
      /\ ~InHome(Idle) /\ Idle.pc = "idle"
  BY IdleTask DEF Dies, Muddle, InHome
<1>2. \A v \in Workers, s \in Scopes : persisted'[v][s] \in {0, persisted[v][s]}
  BY DEF Dies, TypeInv
<1> HIDE DEF On
<1>3. \A s \in Scopes : /\ Users(s)' = Users(s) \ On
                        /\ \A v \in Users(s)' : task'[v] = task[v]
  BY <1>1 DEF Users, Staged, InHome
<1>4. \A s \in Scopes : Held(s)' \subseteq Held(s)
  BY <1>1, <1>3 DEF Held
<1>5. \A p \in Parties : At(p, "put")' => At(p, "put") /\ task'[p] = task[p]
  BY <1>1 DEF At
<1>6. ASSUME NEW s \in Scopes \ muddled' PROVE Sound(s)'
  <2>1. Sound(s)
    BY <1>1, <1>6 DEF CoreInv
  <2>2. CASE Users(s)' = Users(s)
    <3>1. \A u \in Users(s) : task[u].file # 0
      BY DEF Users, Staged, TypeInv, TaskOK, InHome
    <3>2. QED
      BY <1>1, <1>2, <1>3, <2>1, <2>2, <3>1 DEF Sound, At
  <2>3. ASSUME NEW u \in Users(s), u \in On PROVE Sound(s)'
    <3>1. Users(s) = {u} /\ Users(s)' = {}
      BY <1>3, <2>1, <2>3 DEF Sound
    <3>2. row[s] = task[u].file
      BY <1>1, <1>6, <2>3 DEF Unsaved, Users
    <3>3. QED
      BY <1>1, <2>1, <3>1, <3>2 DEF Sound
  <2>4. QED
    BY <1>3, <2>2, <2>3
<1>7. QED
  BY <1>1, <1>4, <1>5, <1>6, Shrinks DEF CoreInv

-----------------------------------------------------------------------------
(* Every step.                                                             *)

Kept == TypeInv' /\ CoreInv' /\ Moves

\* A step that changes nothing but a task, the verdicts and what is counted.
LEMMA TaskOnly ==
  ASSUME Parameters, TypeInv, CoreInv, NEW u \in Parties, NEW t \in Tasks, Becomes(u, t),
         UNCHANGED <<row, persisted, spent, minted, muddled>>,
         mem' \in [Workers -> Verdicts] /\ saved' \in Verdicts,
         saved'.of <= minted /\ \A w \in Workers : mem'[w].of <= minted,
         ~InHome(task[u]), ~InHome(t), t.pc # "put", TaskOK(t, minted, row)
  PROVE  Kept
<1>1. Growing
  BY DEF Growing, TypeInv
<1>2. TypeInv'
  BY <1>1, BecomesType
<1>3. task'[u] = t /\ \A v \in Parties \ {u} : task'[v] = task[v]
  BY DEF Becomes, TypeInv
<1>4. CoreInv' /\ Moves
  BY <1>3, QuietKeeps
<1>5. QED
  BY <1>2, <1>4 DEF Kept

\* Requests and turns that begin, and requests that are answered.
LEMMA AskingSteps ==
  ASSUME Parameters, TypeInv, CoreInv, NEW u \in Parties,
         \/ \E w \in Workers, own \in BOOLEAN : Stage(u, w, own) \/ Ask(u, w, own)
         \/ AskAgain(u) \/ Recall(u) \/ LookUp(u) \/ Note(u) \/ Reply(u)
  PROVE  Kept
<1>0. /\ task[u] \in Tasks /\ TaskOK(task[u], minted, row) /\ minted \in Nat
      /\ \A s \in Scopes : row[s] \in Nat /\ row[s] <= minted
      /\ saved \in Verdicts /\ saved.of <= minted
      /\ \A w \in Workers : mem[w] \in Verdicts /\ mem[w].of <= minted
  BY DEF TypeInv
<1>1. ASSUME NEW w \in Workers, NEW own \in BOOLEAN, Stage(u, w, own) \/ Ask(u, w, own)
      PROVE  Kept
  <2>1. PICK t \in Tasks : t = [Idle EXCEPT !.on = w, !.own = own]
    BY IdleTask DEF Tasks
  <2>2. PICK r \in Tasks :
          /\ r \in {Resolving(t, "load"), Resolving(t, "recall")} /\ Becomes(u, r)
          /\ UNCHANGED <<row, persisted, mem, saved, spent, minted, muddled>>
          /\ At(u, "idle")
    BY <1>1, <2>1, Resolved DEF Stage, Ask, Steps
  <2>3. /\ r.on = w /\ r.of = row[r.scope] /\ r.scope \in Scopes
        /\ r.pc \in {"idle", "load", "recall"} /\ (r.pc # "idle" => row[r.scope] # 0)
    <3>1. t.on = w /\ "load" \in Steps /\ "recall" \in Steps /\ r.scope \in Scopes
      BY <2>1 DEF Steps, Idle, Tasks
    <3>2. CASE r = Resolving(t, "load")
      BY <2>1, <3>1, <3>2, Resolved
    <3>3. CASE r = Resolving(t, "recall")
      BY <2>1, <3>1, <3>3, Resolved
    <3>4. QED
      BY <2>2, <3>2, <3>3
  <2>4. TaskOK(r, minted, row) /\ ~InHome(r) /\ ~InHome(task[u]) /\ r.pc # "put"
    BY <1>0, <2>2, <2>3 DEF TaskOK, InHome, At
  <2>5. QED
    BY <1>0, <2>2, <2>4, TaskOnly DEF TypeInv
<1>2. ASSUME AskAgain(u)
      PROVE  Kept
  <2>1. PICK r \in Tasks : r = Resolving(task[u], "recall")
    BY <1>0, Resolved DEF Steps
  <2>2. /\ r.on = task[u].on /\ r.of = row[r.scope] /\ r.scope \in Scopes
        /\ r.pc \in {"idle", "recall"} /\ (r.pc # "idle" => row[r.scope] # 0)
    BY <1>0, <2>1, Resolved DEF Steps, Tasks
  <2>3. TaskOK(r, minted, row) /\ ~InHome(r) /\ ~InHome(task[u]) /\ r.pc # "put"
    BY <1>0, <1>2, <2>2 DEF TaskOK, InHome, AskAgain, At
  <2>4. QED
    BY <1>0, <1>2, <2>1, <2>3, TaskOnly DEF TypeInv, AskAgain
<1>3. ASSUME NEW v \in Verdicts, Told(u, v), task[u].pc \in {"recall", "note"},
             UNCHANGED <<row, persisted, spent, minted, muddled>>,
             mem' \in [Workers -> Verdicts] /\ saved' \in Verdicts,
             saved'.of <= minted /\ \A w \in Workers : mem'[w].of <= minted
      PROVE  Kept
  <2>1. PICK t \in Tasks : t = [task[u] EXCEPT !.pc = "reply", !.by = v.by]
    BY <1>0 DEF Tasks, Verdicts, Steps
  <2>2. TaskOK(t, minted, row) /\ ~InHome(t) /\ ~InHome(task[u]) /\ t.pc # "put"
    BY <1>0, <1>3, <2>1 DEF TaskOK, InHome, Tasks
  <2>3. QED
    BY <1>3, <2>1, <2>2, TaskOnly DEF Told
<1>4. task[u].pc # "idle" => task[u].on \in Workers
  BY <1>0 DEF TaskOK
<1>5. CASE Recall(u)
  <2>1. mem[task[u].on] \in Verdicts
    BY <1>0, <1>4, <1>5 DEF Recall, At
  <2>2. QED
    BY <1>0, <1>3, <1>5, <2>1 DEF Recall, At, TypeInv
<1>6. CASE LookUp(u) /\ About(saved, u)
  BY <1>0, <1>3, <1>4, <1>6, ZenonT(60) DEF LookUp, At, TypeInv
<1>7. CASE LookUp(u) /\ ~About(saved, u)
  <2>1. PICK t \in Tasks : t = [task[u] EXCEPT !.pc = "load"]
    BY <1>0 DEF Tasks, Steps
  <2>2. TaskOK(t, minted, row) /\ ~InHome(t) /\ ~InHome(task[u]) /\ t.pc # "put"
    BY <1>0, <1>7, <2>1 DEF TaskOK, InHome, Tasks, LookUp, At
  <2>3. QED
    BY <1>0, <1>7, <2>1, <2>2, TaskOnly DEF LookUp, Goto, TypeInv
<1>8. CASE Note(u)
  <2>1. Verdict(u) \in Verdicts /\ Verdict(u).of <= minted
    BY <1>0 DEF Verdict, Verdicts, Tasks, TaskOK
  <2>2. PICK v \in Verdicts : v = Verdict(u)
    BY <2>1
  <2>3. /\ mem' \in [Workers -> Verdicts] /\ saved' \in {v, saved}
        /\ \A w \in Workers : mem'[w] \in {v, mem[w]}
        /\ Told(u, v) /\ At(u, "note") /\ UNCHANGED <<row, persisted, spent, minted, muddled>>
    BY <1>8, <2>2 DEF Note, TypeInv
  <2>4. QED
    BY <1>0, <1>3, <2>1, <2>2, <2>3 DEF At
<1>9. CASE Reply(u)
  <2>1. TaskOK(Idle, minted, row) /\ ~InHome(Idle) /\ ~InHome(task[u]) /\ Idle.pc # "put"
    BY <1>0, <1>9, IdleTask DEF TaskOK, InHome, Reply, At
  <2>2. QED
    BY <1>0, <1>9, <2>1, IdleTask, TaskOnly DEF Reply, TypeInv
<1>10. QED
  BY <1>1, <1>2, <1>5, <1>6, <1>7, <1>8, <1>9

\* A step of a HOME that stores nothing but its credential has the types.
LEMMA HomeTypes ==
  ASSUME TypeInv, NEW u \in Parties, NEW t \in Tasks, Becomes(u, t),
         TaskOK(t, minted, row'),
         UNCHANGED <<spent, minted, mem, saved>>, muddled' \subseteq Scopes,
         persisted' \in [Workers -> [Scopes -> Nat]],
         \A w \in Workers, s \in Scopes : persisted'[w][s] <= minted,
         row' = row \/ (InHome(task[u]) /\ row' = [row EXCEPT ![task[u].scope] = task[u].file])
  PROVE  TypeInv'
<1>1. InHome(task[u]) => task[u].file \in 1..minted
  BY DEF TypeInv, TaskOK
<1>2. /\ row' \in [Scopes -> Nat]
      /\ \A s \in Scopes : row'[s] <= minted /\ (row[s] # 0 => row'[s] # 0)
  <2>1. CASE row' = row
    BY <2>1 DEF TypeInv
  <2>2. CASE InHome(task[u]) /\ row' = [row EXCEPT ![task[u].scope] = task[u].file]
    <3>1. PICK z \in Scopes, f \in 1..minted : z = task[u].scope /\ f = task[u].file
      BY <1>1, <2>2 DEF TypeInv, Tasks
    <3>2. row' = [row EXCEPT ![z] = f] /\ f \in Nat
      BY <2>2, <3>1 DEF TypeInv
    <3>3. QED
      BY <3>1, <3>2 DEF TypeInv
  <2>3. QED
    BY <2>1, <2>2
<1>3. Growing
  BY <1>2 DEF Growing, TypeInv
<1>4. QED
  BY <1>3, BecomesType

\* A HOME gets its credential.
LEMMA LoadStep ==
  ASSUME Parameters, TypeInv, CoreInv, NEW u \in Parties, Load(u)
  PROVE  Kept
<1>0. PICK z \in Scopes, n \in Nat : z = task[u].scope /\ n = row[z]
  BY DEF TypeInv, Tasks
<1>1. /\ task[u] \in Tasks /\ TaskOK(task[u], minted, row)
      /\ n \in 1..minted /\ minted \in Nat /\ At(u, "load")
  BY <1>0 DEF TypeInv, TaskOK, Load, At
<1>2. PICK t \in Tasks :
        /\ Becomes(u, t) /\ t.pc \in {"open", "check"} /\ t.scope = z /\ t.file = n
        /\ t.of <= minted /\ t.on = task[u].on
  <2>1. CASE u \in Chats
    <3>1. PICK t \in Tasks :
            t = [task[u] EXCEPT !.pc = "open", !.file = n, !.own = FALSE, !.of = 0]
      <4>1. [task[u] EXCEPT !.pc = "open", !.file = n, !.own = FALSE, !.of = 0] \in Tasks
        BY <1>1 DEF Tasks, Steps
      <4>2. QED
        BY <4>1
    <3>2. Becomes(u, t)
      BY <1>0, <2>1, <3>1 DEF Load
    <3>3. /\ t.pc = "open" /\ t.file = n /\ t.of = 0
          /\ t.scope = z /\ t.on = task[u].on
      BY <1>0, <1>1, <3>1 DEF Tasks
    <3>4. QED
      BY <1>1, <3>2, <3>3
  <2>2. CASE u \notin Chats
    <3>1. PICK t \in Tasks : t = [task[u] EXCEPT !.pc = "check", !.file = n, !.by = n]
      <4>1. [task[u] EXCEPT !.pc = "check", !.file = n, !.by = n] \in Tasks
        BY <1>1 DEF Tasks, Steps
      <4>2. QED
        BY <4>1
    <3>2. Becomes(u, t)
      BY <1>0, <2>2, <3>1 DEF Load
    <3>3. QED
      BY <1>0, <1>1, <3>1, <3>2 DEF Tasks, TaskOK
  <2>3. QED
    BY <2>1, <2>2
<1>3. /\ muddled \subseteq muddled' /\ muddled' \subseteq Scopes
      /\ Users(t.scope) # {} => t.scope \in muddled'
      /\ UNCHANGED <<row, persisted, mem, saved, minted, spent>>
  BY <1>0, <1>2 DEF Load, Muddle, TypeInv
<1>4. InHome(t) /\ TaskOK(t, minted, row)
  BY <1>0, <1>1, <1>2 DEF InHome, TaskOK, At
<1>5. TypeInv'
  BY <1>2, <1>3, <1>4, HomeTypes DEF TypeInv
<1>6. CoreInv' /\ Moves
  BY <1>0, <1>1, <1>2, <1>3, <1>4, LoadKeeps
<1>7. QED
  BY <1>5, <1>6 DEF Kept

\* claude refreshes a HOME's credential.
LEMMA RefreshStep ==
  ASSUME Parameters, TypeInv, CoreInv, NEW u \in Parties, Refresh(u)
  PROVE  Kept
<1>1. /\ task[u] \in Tasks /\ TaskOK(task[u], minted, row) /\ minted \in Nat
      /\ InHome(task[u])
  BY DEF TypeInv, Refresh, InHome
<1>2. PICK t \in Tasks : t = [task[u] EXCEPT !.file = minted + 1]
  <2>1. [task[u] EXCEPT !.file = minted + 1] \in Tasks
    BY <1>1 DEF Tasks
  <2>2. QED
    BY <2>1
<1>3. TaskOK(t, minted', row') /\ Becomes(u, t)
  BY <1>1, <1>2 DEF Refresh, TaskOK, InHome, Tasks
<1>4. Growing
  <2>1. PICK f \in 1..minted : f = task[u].file
    BY <1>1 DEF TaskOK
  <2>2. spent' = spent \cup {f} /\ minted' = minted + 1
        /\ UNCHANGED <<row, persisted, mem, saved, muddled>>
    BY <2>1 DEF Refresh
  <2>3. spent' \subseteq 1..minted'
    <3>1. \A n \in spent : n \in 1..minted
      BY DEF TypeInv
    <3>2. \A n \in 1..minted : n \in 1..(minted + 1)
      BY <1>1
    <3>3. QED
      BY <2>1, <2>2, <3>1, <3>2
  <2>4. \A m \in Nat : m <= minted => m <= minted'
    BY <1>1, <2>2
  <2>5. /\ \A s \in Scopes : row[s] \in Nat
        /\ \A w \in Workers, s \in Scopes : persisted[w][s] \in Nat
        /\ saved.of \in Nat /\ \A w \in Workers : mem[w].of \in Nat
    BY DEF TypeInv, Verdicts
  <2>6. QED
    BY <1>1, <2>2, <2>3, <2>4, <2>5 DEF Growing, TypeInv
<1>5. QED
  BY <1>3, <1>4, BecomesType, RefreshKeeps DEF Kept

\* A turn ends or a process is stopped, and its credential is to be stored.
LEMMA PersistStep ==
  ASSUME Parameters, TypeInv, CoreInv, NEW u \in Parties, NEW ends \in BOOLEAN,
         Persist(u, ends)
  PROVE  Kept
<1>1. PICK w \in Workers, z \in Scopes, f \in 1..minted :
        w = task[u].on /\ z = task[u].scope /\ f = task[u].file
  BY DEF TypeInv, TaskOK, Tasks, Persist, At, InHome
<1>2. /\ task[u] \in Tasks /\ TaskOK(task[u], minted, row) /\ minted \in Nat
      /\ At(u, "open") /\ Staged(u) /\ InHome(task[u]) /\ f \in Nat
      /\ UNCHANGED <<row, spent, minted, mem, saved, muddled>>
  BY <1>1 DEF TypeInv, Persist, Staged, InHome, At
<1>3. CASE Unchanged(u) /\ ~ends
  <2>1. Becomes(u, task[u]) /\ persisted' = persisted
    BY <1>3 DEF Persist
  <2>2. TypeInv'
    BY <1>2, <2>1, HomeTypes DEF TypeInv
  <2>3. CoreInv' /\ Moves
    BY <1>2, <2>1, HomeKeeps
  <2>4. QED
    BY <2>2, <2>3 DEF Kept
<1>4. CASE Unchanged(u) /\ ends
  <2>1. Becomes(u, Idle) /\ persisted' = persisted /\ persisted[w][z] = f
    BY <1>1, <1>4 DEF Persist, Unchanged
  <2>2. TaskOK(Idle, minted, row) /\ Idle \in Tasks /\ ~InHome(Idle) /\ Idle.pc # "put"
    BY <1>2, IdleTask DEF TaskOK, InHome
  <2>3. TypeInv'
    BY <1>2, <2>1, <2>2, HomeTypes DEF TypeInv
  <2>4. z \in muddled \/ row[z] = f
    BY <1>1, <1>2, <2>1 DEF CoreInv, Sound, Users
  <2>5. CoreInv' /\ Moves
    BY <1>1, <1>2, <2>1, <2>2, <2>4, HomeKeeps
  <2>6. QED
    BY <2>3, <2>5 DEF Kept
<1>5. CASE ~Unchanged(u)
  <2>1. PICK t \in Tasks : t = [task[u] EXCEPT !.pc = "write", !.ends = ends]
    BY <1>2 DEF Tasks, Steps
  <2>2. Becomes(u, t) /\ persisted' = [persisted EXCEPT ![w][z] = f]
    BY <1>1, <1>5, <2>1 DEF Persist
  <2>3. /\ TaskOK(t, minted, row) /\ InHome(t) /\ t.file = task[u].file /\ t.pc = "write"
        /\ t.scope = task[u].scope
    BY <1>2, <2>1 DEF TaskOK, InHome, Tasks, At
  <2>4. /\ persisted' \in [Workers -> [Scopes -> Nat]]
        /\ \A v \in Workers, s \in Scopes : persisted'[v][s] <= minted
        /\ \A v \in Workers : \A s \in Scopes \ {z} : persisted'[v][s] = persisted[v][s]
    BY <1>1, <1>2, <2>2 DEF TypeInv
  <2>5. TypeInv'
    BY <1>2, <2>2, <2>3, <2>4, HomeTypes DEF TypeInv
  <2>6. CoreInv' /\ Moves
    BY <1>1, <1>2, <2>2, <2>3, <2>4, HomeKeeps
  <2>7. QED
    BY <2>5, <2>6 DEF Kept
<1>6. QED
  BY <1>3, <1>4, <1>5

\* A HOME's credential is stored, or the write fails.
LEMMA WriteSteps ==
  ASSUME Parameters, TypeInv, CoreInv, NEW u \in Parties,
         Write(u) \/ WriteFails(u) \/ Store(u) \/ StoreFails(u) \/ Check(u)
  PROVE  Kept
<1>1. PICK z \in Scopes, f \in 1..minted : z = task[u].scope /\ f = task[u].file
  BY DEF TypeInv, TaskOK, Tasks, Write, WriteFails, Store, StoreFails, Check, At, InHome
<1>2. /\ task[u] \in Tasks /\ TaskOK(task[u], minted, row) /\ minted \in Nat
      /\ Staged(u) /\ InHome(task[u]) /\ f \in Nat
      /\ UNCHANGED <<persisted, spent, minted, mem, saved>>
  BY <1>1 DEF TypeInv, Write, WriteFails, Store, StoreFails, Check, Staged, InHome, At
<1>3. ASSUME NEW t \in Tasks, Becomes(u, t),
             row' = row \/ row' = [row EXCEPT ![z] = f],
             muddled \subseteq muddled', muddled' \subseteq Scopes,
             row'[z] = f \/ z \in muddled' \/ t.pc = "store",
             \/ InHome(t) /\ t.file = f /\ t.scope = z
             \/ ~InHome(t) /\ t.pc # "put" /\ t.pc \notin {"load", "recall"},
             t.pc # "idle" => t.on = task[u].on, t.of <= minted
      PROVE  Kept
  <2>1. /\ row' = row \/ row' = [row EXCEPT ![task[u].scope] = task[u].file]
        /\ row[z] # 0 /\ row'[z] # 0 /\ row'[z] \in {row[z], f}
        /\ \A s \in Scopes \ {z} : row'[s] = row[s]
    BY <1>1, <1>2, <1>3 DEF TypeInv, TaskOK
  <2>2. TaskOK(t, minted, row')
    BY <1>1, <1>2, <1>3, <2>1 DEF TaskOK, InHome
  <2>3. TypeInv'
    BY <1>1, <1>2, <1>3, <2>1, <2>2, HomeTypes DEF TypeInv
  <2>4. CoreInv' /\ Moves
    BY <1>1, <1>2, <1>3, <2>1, HomeKeeps
  <2>5. QED
    BY <2>3, <2>4 DEF Kept
<1>4. CASE Write(u) \/ WriteFails(u)
  <2>1. PICK t \in Tasks : t = After(u)
    BY <1>2, IdleTask DEF After, Tasks, Steps
  <2>2. /\ t.pc # "idle" => t.on = task[u].on
        /\ t.of <= minted
        /\ \/ InHome(t) /\ t.file = f /\ t.scope = z
           \/ ~InHome(t) /\ t.pc # "put" /\ t.pc \notin {"load", "recall"}
    BY <1>1, <1>2, <2>1, IdleTask DEF After, Tasks, InHome, TaskOK
  <2>3. Becomes(u, t)
    BY <1>4, <2>1 DEF Write, WriteFails
  <2>4. /\ row' = row \/ row' = [row EXCEPT ![z] = f]
        /\ muddled \subseteq muddled' /\ muddled' \subseteq Scopes
        /\ row'[z] = f \/ z \in muddled'
    BY <1>1, <1>2, <1>4 DEF Write, WriteFails, Muddle, Unsaved, TypeInv
  <2>5. QED
    BY <1>3, <2>2, <2>3, <2>4
<1>5. CASE Store(u) \/ StoreFails(u)
  <2>1. PICK t \in Tasks : t = [task[u] EXCEPT !.pc = "note", !.file = 0]
    BY <1>2 DEF Tasks, Steps
  <2>2. /\ t.on = task[u].on /\ t.of <= minted
        /\ ~InHome(t) /\ t.pc # "put" /\ t.pc \notin {"load", "recall"}
    BY <1>2, <2>1 DEF Tasks, InHome, TaskOK
  <2>3. Becomes(u, t)
    BY <1>5, <2>1 DEF Store, StoreFails
  <2>4. /\ row' = row \/ row' = [row EXCEPT ![z] = f]
        /\ muddled \subseteq muddled' /\ muddled' \subseteq Scopes
        /\ row'[z] = f \/ z \in muddled'
    BY <1>1, <1>2, <1>5 DEF Store, StoreFails, Muddle, Unsaved, TypeInv
  <2>5. QED
    BY <1>3, <2>2, <2>3, <2>4
<1>6. CASE Check(u)
  <2>1. PICK t \in Tasks : t = [task[u] EXCEPT !.pc = "store"]
    BY <1>2 DEF Tasks, Steps
  <2>2. /\ t.on = task[u].on /\ t.of <= minted /\ InHome(t) /\ t.file = f /\ t.scope = z
        /\ t.pc = "store"
    BY <1>1, <1>2, <2>1 DEF Tasks, InHome, TaskOK
  <2>3. Becomes(u, t) /\ row' = row /\ muddled' = muddled
    BY <1>6, <2>1 DEF Check, Goto
  <2>4. QED
    BY <1>3, <2>2, <2>3 DEF TypeInv
<1>7. QED
  BY <1>4, <1>5, <1>6

\* An upload begins: the credential is new, and no verdict is remembered.
LEMMA UploadStep ==
  ASSUME Parameters, TypeInv, CoreInv, NEW u \in Parties, NEW w \in Workers, NEW s \in Scopes,
         Upload(u, w, s)
  PROVE  Kept
<1>1. minted \in Nat /\ At(u, "idle") /\ minted' = minted + 1
      /\ UNCHANGED <<row, persisted, spent, muddled>>
  BY DEF TypeInv, Upload
<1>2. PICK t \in Tasks : t = [Idle EXCEPT !.pc = "put", !.on = w, !.own = s = "user",
                                          !.scope = s, !.file = minted + 1]
  <2>1. PICK own \in BOOLEAN : own = (s = "user")
    BY Zenon
  <2>2. PICK n \in Nat : n = minted + 1
    BY <1>1
  <2>3. [Idle EXCEPT !.pc = "put", !.on = w, !.own = own, !.scope = s, !.file = n] \in Tasks
    BY IdleTask DEF Tasks, Steps
  <2>4. QED
    BY <2>1, <2>2, <2>3
<1>3. Becomes(u, t) /\ t.pc = "put" /\ t.file = minted + 1 /\ t.on = w /\ t.of = 0
  BY <1>2 DEF Upload, Idle
<1>4. TaskOK(t, minted', row')
  BY <1>1, <1>3 DEF TaskOK, InHome
<1>5. Growing
  <2>1. \A m \in Nat : m <= minted => m <= minted'
    BY <1>1
  <2>2. /\ \A x \in Scopes : row[x] \in Nat
        /\ \A v \in Workers, x \in Scopes : persisted[v][x] \in Nat
        /\ \A v \in Workers : mem[v] \in Verdicts /\ mem[v].of \in Nat
    BY DEF TypeInv, Verdicts
  <2>3. /\ mem' \in [Workers -> Verdicts] /\ saved' \in Verdicts
        /\ saved'.of <= minted' /\ \A v \in Workers : mem'[v].of <= minted'
    <3>1. saved' = Blank /\ \A v \in Workers : mem'[v] \in {Blank, mem[v]}
      BY DEF Upload, Forget, TypeInv
    <3>2. QED
      BY <1>1, <2>1, <2>2, <3>1, IdleTask DEF Upload, Forget, TypeInv
  <2>4. spent' \subseteq 1..minted'
    <3>1. \A n \in spent : n \in 1..minted
      BY DEF TypeInv
    <3>2. \A n \in 1..minted : n \in 1..(minted + 1)
      BY <1>1
    <3>3. QED
      BY <1>1, <3>1, <3>2
  <2>5. QED
    BY <1>1, <2>1, <2>2, <2>3, <2>4 DEF Growing, TypeInv
<1>6. QED
  BY <1>1, <1>3, <1>4, <1>5, BecomesType, UploadKeeps DEF Kept

\* A promotion begins: from here on every row may be another one's.
LEMMA PromoteStep ==
  ASSUME Parameters, TypeInv, CoreInv, NEW u \in Parties, NEW w \in Workers, Promote(u, w)
  PROVE  Kept
<1>1. PICK f \in 1..minted : f = row["user"]
  BY DEF TypeInv, Promote
<1>2. minted \in Nat /\ muddled' = Scopes /\ f \in Nat
      /\ UNCHANGED <<row, persisted, minted, spent>>
  BY <1>1 DEF TypeInv, Promote, Muddle
<1>3. PICK t \in Tasks : t = [Idle EXCEPT !.pc = "put", !.on = w, !.file = f]
  <2>1. [Idle EXCEPT !.pc = "put", !.on = w, !.file = f] \in Tasks
    BY <1>2 DEF Idle, Tasks, Steps, Parameters
  <2>2. QED
    BY <2>1
<1>4. Becomes(u, t) /\ t.pc = "put" /\ t.file = f /\ t.on = w /\ t.of = 0
  BY <1>1, <1>3 DEF Promote, Idle
<1>5. TaskOK(t, minted', row')
  BY <1>2, <1>4 DEF TaskOK, InHome
<1>6. Growing
  <2>1. saved' = Blank /\ mem' = [mem EXCEPT ![w] = Blank]
    BY DEF Promote, Forget
  <2>2. QED
    BY <1>2, <2>1, IdleTask DEF Growing, TypeInv
<1>7. CoreInv' /\ Moves
  BY <1>2 DEF CoreInv, Moves
<1>8. QED
  BY <1>4, <1>5, <1>6, <1>7, BecomesType DEF Kept

\* An upload is stored, or fails to be.
LEMMA PutSteps ==
  ASSUME Parameters, TypeInv, CoreInv, NEW u \in Parties, Put(u) \/ PutFails(u)
  PROVE  Kept
<1>1. PICK z \in Scopes, f \in 1..minted : z = task[u].scope /\ f = task[u].file
  BY DEF TypeInv, TaskOK, Tasks, Put, PutFails, At
<1>2. /\ task[u] \in Tasks /\ TaskOK(task[u], minted, row) /\ minted \in Nat
      /\ At(u, "put") /\ ~InHome(task[u]) /\ f \in Nat
      /\ UNCHANGED <<persisted, spent, minted, mem, saved>>
  BY <1>1 DEF TypeInv, Put, PutFails, InHome, At
<1>3. PICK a \in Tasks : a = [task[u] EXCEPT !.pc = "ask", !.file = 0]
  <2>1. [task[u] EXCEPT !.pc = "ask", !.file = 0] \in Tasks
    BY <1>2 DEF Tasks, Steps
  <2>2. QED
    BY <2>1
<1>4. PICK t \in {a, Idle} : Becomes(u, t) /\ (Put(u) => t = a)
  BY <1>3 DEF Put, PutFails
<1>5. t \in Tasks /\ t.pc \in {"ask", "idle"} /\ (t.pc = "ask" => t.on = task[u].on)
      /\ t.of <= minted
  <2>1. a.pc = "ask" /\ a.on = task[u].on /\ a.of = task[u].of /\ a.of <= minted
    BY <1>2, <1>3 DEF Tasks, TaskOK
  <2>2. CASE t = a
    BY <2>1, <2>2
  <2>3. CASE t = Idle
    BY <1>2, <2>3, IdleTask
  <2>4. QED
    BY <1>4, <2>2, <2>3
<1>6. ~InHome(t) /\ t.pc # "put" /\ \A rows : TaskOK(t, minted, rows)
  BY <1>2, <1>5 DEF InHome, TaskOK, At
<1>7. CASE PutFails(u)
  <2>1. UNCHANGED <<row, muddled>>
    BY <1>7 DEF PutFails
  <2>2. QED
    BY <1>2, <1>4, <1>5, <1>6, <2>1, TaskOnly DEF TypeInv
<1>8. CASE Put(u)
  <2>1. /\ row' = [row EXCEPT ![z] = f]
        /\ muddled \subseteq muddled' /\ muddled' \subseteq Scopes
        /\ Users(z) # {} => z \in muddled'
    BY <1>1, <1>8 DEF Put, Muddle, TypeInv
  <2>2. Growing
    BY <1>1, <1>2, <2>1 DEF Growing, TypeInv
  <2>3. TypeInv'
    BY <1>2, <1>4, <1>5, <1>6, <2>2, BecomesType
  <2>4. CoreInv' /\ Moves
    BY <1>1, <1>2, <1>4, <1>5, <1>6, <2>1, PutKeeps
  <2>5. QED
    BY <2>3, <2>4 DEF Kept
<1>9. QED
  BY <1>7, <1>8

\* A worker dies.
LEMMA DiesStep ==
  ASSUME Parameters, TypeInv, CoreInv, NEW w \in Workers, Dies(w)
  PROVE  Kept
<1>1. /\ task' \in [Parties -> Tasks]
      /\ \A u \in Parties : task'[u] \in {Idle, task[u]}
      /\ UNCHANGED <<row, saved, minted, spent>> /\ minted \in Nat
  BY IdleTask DEF Dies, TypeInv
<1>2. TaskOK(Idle, minted, row)
  BY <1>1, IdleTask DEF TaskOK, InHome
<1>3. \A u \in Parties : TaskOK(task'[u], minted', row')
  BY <1>1, <1>2 DEF TypeInv
<1>4. muddled' \subseteq Scopes
  BY DEF Dies, Muddle, TypeInv, Tasks
<1>5. /\ persisted' \in [Workers -> [Scopes -> Nat]]
      /\ \A v \in Workers, s \in Scopes : persisted'[v][s] <= minted
  <2>1. PICK none \in [Scopes -> Nat] : none = [s \in Scopes |-> 0]
    OBVIOUS
  <2>2. persisted' = [persisted EXCEPT ![w] = none]
    BY <2>1 DEF Dies
  <2>3. \A v \in Workers, s \in Scopes : persisted'[v][s] \in {0, persisted[v][s]}
    BY <2>1, <2>2 DEF TypeInv
  <2>4. QED
    BY <1>1, <2>2, <2>3 DEF TypeInv
<1>6. mem' \in [Workers -> Verdicts] /\ \A v \in Workers : mem'[v].of <= minted
  BY <1>1, IdleTask DEF Dies, TypeInv
<1>7. TypeInv'
  BY <1>1, <1>3, <1>4, <1>5, <1>6 DEF TypeInv
<1>8. QED
  BY <1>7, DiesKeeps DEF Kept

LEMMA LapseStep ==
  ASSUME Parameters, TypeInv, CoreInv, Lapse
  PROVE  Kept
<1>1. /\ UNCHANGED <<row, persisted, task, minted, spent, muddled>>
      /\ saved' \in {saved, Blank} /\ \A w \in Workers : mem'[w] \in {mem[w], Blank}
      /\ mem' \in [Workers -> Verdicts]
  BY IdleTask DEF Lapse, TypeInv
<1>2. TypeInv'
  BY <1>1, IdleTask DEF TypeInv
<1>3. CoreInv' /\ Moves
  BY <1>1, QuietKeeps
<1>4. QED
  BY <1>2, <1>3 DEF Kept

LEMMA CoreInit == Parameters /\ Init => CoreInv
<1> SUFFICES ASSUME Parameters, Init PROVE CoreInv
  OBVIOUS
<1>1. \A u \in Parties : task[u].pc = "idle"
  BY IdleTask DEF Init
<1>2. \A s \in Scopes : Users(s) = {}
  BY <1>1 DEF Users, Staged
<1>3. \A s \in Scopes : Held(s) = {row[s]}
  BY <1>2 DEF Held
<1>4. \A s \in Scopes : Sound(s)
  BY <1>2 DEF Sound, Init
<1>5. minted \in {1, 2} /\ \A s \in Scopes : row[s] = IF s = "global" THEN 1 ELSE IF minted = 2 THEN 2 ELSE 0
  BY DEF Init
<1>6. \A s \in Scopes : Apart(s)
  <2> SUFFICES ASSUME NEW s \in Scopes, NEW x \in Scopes \ {s}, row[s] = row[x] PROVE row[s] = 0
    BY <1>3 DEF Apart
  <2>1. QED
    BY <1>5 DEF Parameters
<1>7. Fresh
  BY <1>1 DEF Fresh, At
<1>8. QED
  BY <1>4, <1>6, <1>7 DEF CoreInv

\* Each step.
LEMMA NextKeeps == Parameters /\ TypeInv /\ CoreInv /\ [Next]_vars => Kept
<1> SUFFICES ASSUME Parameters, TypeInv, CoreInv, [Next]_vars PROVE Kept
  OBVIOUS
<1>1. ASSUME NEW c \in Chats, Chatting(c)
      PROVE  Kept
  <2>1. c \in Parties
    BY DEF Parties
  <2>2. QED
    BY <1>1, <2>1, AskingSteps, LoadStep, RefreshStep, PersistStep, WriteSteps DEF Chatting
<1>2. ASSUME NEW r \in Requests, Asking(r)
      PROVE  Kept
  <2>1. r \in Parties
    BY DEF Parties
  <2>2. QED
    BY <1>2, <2>1, AskingSteps, LoadStep, RefreshStep, WriteSteps DEF Asking
<1>3. ASSUME NEW r \in Requests, Uploading(r)
      PROVE  Kept
  <2>1. r \in Parties
    BY DEF Parties
  <2>2. QED
    BY <1>3, <2>1, UploadStep, PromoteStep, PutSteps DEF Uploading
<1>4. CASE UNCHANGED vars
  <2>1. TypeInv'
    BY <1>4 DEF vars, TypeInv
  <2>2. CoreInv' /\ Moves
    BY <1>4, QuietKeeps DEF vars
  <2>3. QED
    BY <2>1, <2>2 DEF Kept
<1>5. QED
  BY <1>1, <1>2, <1>3, <1>4, DiesStep, LapseStep DEF Next

\* _build_refresh_persister, _mark_turn_complete: of any number of workers, chats
\* and requests, as long as one HOME at a time uses a row and no fault takes a
\* refresh along, what is stored, or the HOME of it, can be refreshed.
THEOREM RefreshKept == Parameters => (Spec => []RefreshIsKept)
<1> SUFFICES ASSUME Parameters PROVE Spec => []RefreshIsKept
  OBVIOUS
<1>1. Init => TypeInv /\ CoreInv
  BY TypeInit, CoreInit
<1>2. TypeInv /\ CoreInv /\ [Next]_vars => TypeInv' /\ CoreInv'
  BY NextKeeps DEF Kept
<1>3. TypeInv /\ CoreInv => RefreshIsKept
  BY DEF CoreInv, Sound, RefreshIsKept
<1>4. QED
  BY <1>1, <1>2, <1>3, PTL DEF Spec

-----------------------------------------------------------------------------
(* Verdicts.                                                               *)

\* Tasks and verdicts that stay are as sincere after a step, since credentials
\* that are gone do not come back; t and v are the new ones.
LEMMA VerdictsKept ==
  ASSUME TypeInv, VerdictInv, Moves, muddled \subseteq muddled',
         NEW t, t.of <= minted, Sincere(t), \A p \in Parties : task'[p] \in {task[p], t},
         NEW v, v.of <= minted, Bound(v),
         saved' \in {saved, v}, \A w \in Workers : mem'[w] \in {mem[w], v}
  PROVE  VerdictInv'
<1>1. ASSUME NEW x, x.of <= minted, Bound(x)
      PROVE  \A s \in Scopes \ muddled' : x.scope = s /\ x.of # x.by => x.of \notin Future(s)'
  BY <1>1 DEF Bound, Moves
<1>2. ASSUME NEW x, x.of <= minted, Sincere(x), NEW s \in Scopes \ muddled', x.scope = s
      PROVE  /\ x.pc \in {"recall", "load", "check", "store", "note", "reply"} =>
                  x.of = row'[s] \/ x.of \notin Future(s)'
             /\ x.pc \in {"check", "store", "note", "reply"} /\ x.of # x.by =>
                  x.of \notin Future(s)'
  BY <1>2 DEF Sincere, Moves
<1>3. ASSUME NEW w \in Workers PROVE Bound(mem[w])'
  <2>1. PICK x : x = mem'[w] /\ x.of <= minted /\ Bound(x)
    BY DEF VerdictInv, TypeInv
  <2>2. QED
    BY <1>1, <2>1 DEF Bound
<1>4. Bound(saved)'
  <2>1. PICK x : x = saved' /\ x.of <= minted /\ Bound(x)
    BY DEF VerdictInv, TypeInv
  <2>2. QED
    BY <1>1, <2>1 DEF Bound
<1>5. ASSUME NEW p \in Parties PROVE Sincere(task[p])'
  <2>1. PICK x : x = task'[p] /\ x.of <= minted /\ Sincere(x)
    BY DEF VerdictInv, TypeInv, TaskOK
  <2>2. QED
    BY <1>2, <2>1 DEF Sincere
<1>6. QED
  BY <1>3, <1>4, <1>5 DEF VerdictInv

\* The same for a step of one party.
LEMMA VerdictsStay ==
  ASSUME TypeInv, VerdictInv, Moves, muddled \subseteq muddled', NEW u \in Parties,
         NEW t, Becomes(u, t), t.of <= minted, Sincere(t),
         NEW v, v.of <= minted, Bound(v),
         saved' \in {saved, v}, \A w \in Workers : mem'[w] \in {mem[w], v}
  PROVE  VerdictInv'
<1>1. \A p \in Parties : task'[p] \in {task[p], t}
  BY DEF Becomes, TypeInv
<1>2. QED
  BY <1>1, VerdictsKept

\* A party is given a task that is not about a verdict, or that asks as it did.
LEMMA TaskSincere ==
  ASSUME TypeInv, VerdictInv, NEW u \in Parties, NEW t,
         \/ t.pc \notin {"recall", "load", "check", "store", "note", "reply"}
         \/ /\ t.of = task[u].of /\ t.by = task[u].by /\ t.scope = task[u].scope
            /\ \/ t.pc \in {"recall", "load"} /\ task[u].pc \in {"recall", "load"}
               \/ t.pc \in {"check", "store", "note", "reply"}
                  /\ task[u].pc \in {"check", "store", "note", "reply"}
         \/ t.pc \in {"recall", "load"} /\ t.of = row[t.scope]
  PROVE  Sincere(t)
BY DEF VerdictInv, Sincere

\* No verdict yet, or no more.
LEMMA NoVerdict ==
  ASSUME Parameters, TypeInv
  PROVE  Bound(Blank) /\ Sincere(Idle) /\ Blank.of <= minted /\ Idle.of <= minted
BY IdleTask DEF Bound, Sincere, TypeInv

\* A HOME's steps, and requests that have no answer yet.
LEMMA HomeVerdicts ==
  ASSUME Parameters, TypeInv, VerdictInv, Moves, NEW u \in Parties,
         \/ \E w \in Workers, own \in BOOLEAN : Stage(u, w, own) \/ Ask(u, w, own)
         \/ AskAgain(u) \/ Load(u) \/ Refresh(u) \/ (\E ends \in BOOLEAN : Persist(u, ends))
         \/ Write(u) \/ WriteFails(u) \/ Check(u) \/ Store(u) \/ StoreFails(u)
         \/ (LookUp(u) /\ ~About(saved, u)) \/ Put(u) \/ PutFails(u) \/ Reply(u)
  PROVE  VerdictInv'
<1>1. /\ task[u] \in Tasks /\ task[u].of <= minted /\ minted \in Nat
      /\ Bound(Blank) /\ Sincere(Idle) /\ Blank.of <= minted /\ Idle.of <= minted
      /\ Idle \in Tasks
  BY NoVerdict, IdleTask DEF TypeInv, TaskOK
<1>2. UNCHANGED <<mem, saved>> /\ muddled \subseteq muddled'
  BY DEF Stage, Ask, AskAgain, Load, Refresh, Persist, Write, WriteFails, Check, Store,
         StoreFails, LookUp, Put, PutFails, Reply, Muddle
<1>3. ASSUME NEW t, Becomes(u, t), t.of <= minted, Sincere(t)
      PROVE  VerdictInv'
  BY <1>1, <1>2, <1>3, VerdictsStay
<1>4. ASSUME NEW t \in Tasks, Becomes(u, t), t.of = task[u].of \/ t.of = 0,
             \/ t.pc \notin {"recall", "load", "check", "store", "note", "reply"}
             \/ /\ t.of = task[u].of /\ t.by = task[u].by /\ t.scope = task[u].scope
                /\ \/ t.pc \in {"recall", "load"} /\ task[u].pc \in {"recall", "load"}
                   \/ t.pc \in {"check", "store", "note", "reply"}
                      /\ task[u].pc \in {"check", "store", "note", "reply"}
      PROVE  VerdictInv'
  <2>1. t.of <= minted
    BY <1>1, <1>4
  <2>2. Sincere(t)
    BY <1>4, TaskSincere
  <2>3. QED
    BY <1>3, <1>4, <2>1, <2>2
<1>5. ASSUME NEW t \in Tasks, NEW step \in {"load", "recall"}, Becomes(u, Resolving(t, step))
      PROVE  VerdictInv'
  <2>1. step \in Steps
    BY <1>5 DEF Steps
  <2>2. PICK r \in Tasks : /\ r = Resolving(t, step) /\ r.of = row[r.scope]
                           /\ r.pc \in {"idle", "load", "recall"}
    BY <1>5, <2>1, Resolved
  <2>3. Sincere(r)
    BY <2>2, TaskSincere
  <2>4. r.of <= minted
    BY <2>2 DEF Tasks, TypeInv
  <2>5. QED
    BY <1>3, <1>5, <2>2, <2>3, <2>4
<1>6. ASSUME NEW w \in Workers, NEW own \in BOOLEAN, Stage(u, w, own) \/ Ask(u, w, own)
      PROVE  VerdictInv'
  <2>1. PICK t \in Tasks : t = [Idle EXCEPT !.on = w, !.own = own]
    BY <1>1 DEF Tasks
  <2>2. QED
    BY <1>5, <1>6, <2>1 DEF Stage, Ask
<1>7. CASE AskAgain(u)
  BY <1>1, <1>5, <1>7 DEF AskAgain
<1>8. CASE Load(u)
  <2>1. PICK z \in Scopes, n \in Nat : z = task[u].scope /\ n = row[z]
    BY DEF TypeInv, Tasks
  <2>2. CASE u \in Chats
    <3>1. [task[u] EXCEPT !.pc = "open", !.file = n, !.own = FALSE, !.of = 0] \in Tasks
      BY <1>1 DEF Tasks, Steps
    <3>2. PICK t \in Tasks :
            t = [task[u] EXCEPT !.pc = "open", !.file = n, !.own = FALSE, !.of = 0]
      BY <3>1
    <3>3. t.pc = "open" /\ t.of = 0
      BY <1>1, <3>2 DEF Tasks
    <3>4. Becomes(u, t)
      BY <1>8, <2>1, <2>2, <3>2 DEF Load
    <3>5. QED
      BY <1>4, <3>3, <3>4
  <2>3. CASE u \notin Chats
    <3>1. [task[u] EXCEPT !.pc = "check", !.file = n, !.by = n] \in Tasks
      BY <1>1 DEF Tasks, Steps
    <3>2. PICK t \in Tasks : t = [task[u] EXCEPT !.pc = "check", !.file = n, !.by = n]
      BY <3>1
    <3>3. t.pc = "check" /\ t.by = n /\ t.of = task[u].of /\ t.scope = z
      BY <1>1, <2>1, <3>2 DEF Tasks
    <3>4. Becomes(u, t)
      BY <1>8, <2>1, <2>3, <3>2 DEF Load
    <3>5. Sincere(t)
      BY <1>8, <2>1, <3>3 DEF VerdictInv, Sincere, Load, At
    <3>6. QED
      BY <1>1, <1>3, <3>3, <3>4, <3>5
  <2>4. QED
    BY <2>2, <2>3
<1>9. CASE Refresh(u)
  <2>1. [task[u] EXCEPT !.file = minted + 1] \in Tasks
    BY <1>1 DEF Tasks
  <2>2. PICK t \in Tasks : t = [task[u] EXCEPT !.file = minted + 1]
    BY <2>1
  <2>3. /\ t.pc = task[u].pc /\ t.of = task[u].of /\ t.by = task[u].by
        /\ t.scope = task[u].scope /\ Becomes(u, t) /\ task[u].pc \in {"open", "check"}
    BY <1>1, <1>9, <2>2 DEF Tasks, Refresh
  <2>4. QED
    BY <1>4, <2>3
<1>10. ASSUME NEW ends \in BOOLEAN, Persist(u, ends)
       PROVE  VerdictInv'
  <2>1. PICK t \in Tasks : t = [task[u] EXCEPT !.pc = "write", !.ends = ends]
    BY <1>1 DEF Tasks, Steps
  <2>2. t.pc = "write" /\ t.of = task[u].of /\ task[u].pc = "open"
    BY <1>1, <1>10, <2>1 DEF Tasks, Persist, At
  <2>3. Becomes(u, t) \/ Becomes(u, task[u]) \/ Becomes(u, Idle)
    BY <1>10, <2>1 DEF Persist
  <2>4. CASE Becomes(u, t)
    BY <1>4, <2>2, <2>4
  <2>5. CASE Becomes(u, task[u])
    BY <1>1, <1>4, <2>2, <2>5
  <2>6. CASE Becomes(u, Idle)
    BY <1>1, <1>3, <2>6
  <2>7. QED
    BY <2>3, <2>4, <2>5, <2>6
<1>11. CASE Write(u) \/ WriteFails(u)
  <2>1. PICK t \in Tasks : t = [task[u] EXCEPT !.pc = "open"]
    BY <1>1 DEF Tasks, Steps
  <2>2. t.pc = "open" /\ t.of = task[u].of
    BY <1>1, <2>1 DEF Tasks
  <2>3. Becomes(u, t) \/ Becomes(u, Idle)
    BY <1>11, <2>1 DEF Write, WriteFails, After
  <2>4. QED
    BY <1>1, <1>3, <1>4, <2>2, <2>3
<1>12. CASE Check(u)
  <2>1. PICK t \in Tasks : t = [task[u] EXCEPT !.pc = "store"]
    BY <1>1 DEF Tasks, Steps
  <2>2. /\ t.pc = "store" /\ t.of = task[u].of /\ t.by = task[u].by /\ t.scope = task[u].scope
        /\ Becomes(u, t) /\ task[u].pc = "check"
    BY <1>1, <1>12, <2>1 DEF Tasks, Check, Goto, At
  <2>3. QED
    BY <1>4, <2>2
<1>13. CASE Store(u) \/ StoreFails(u)
  <2>1. PICK t \in Tasks : t = [task[u] EXCEPT !.pc = "note", !.file = 0]
    BY <1>1 DEF Tasks, Steps
  <2>2. /\ t.pc = "note" /\ t.of = task[u].of /\ t.by = task[u].by /\ t.scope = task[u].scope
        /\ Becomes(u, t) /\ task[u].pc = "store"
    BY <1>1, <1>13, <2>1 DEF Tasks, Store, StoreFails, At
  <2>3. QED
    BY <1>4, <2>2
<1>14. CASE LookUp(u) /\ ~About(saved, u)
  <2>1. PICK t \in Tasks : t = [task[u] EXCEPT !.pc = "load"]
    BY <1>1 DEF Tasks, Steps
  <2>2. /\ t.pc = "load" /\ t.of = task[u].of /\ t.by = task[u].by /\ t.scope = task[u].scope
        /\ Becomes(u, t) /\ task[u].pc = "recall"
    BY <1>1, <1>14, <2>1 DEF Tasks, LookUp, Goto, At
  <2>3. QED
    BY <1>4, <2>2
<1>15. CASE Put(u) \/ PutFails(u)
  <2>1. PICK t \in Tasks : t = [task[u] EXCEPT !.pc = "ask", !.file = 0]
    BY <1>1 DEF Tasks, Steps
  <2>2. t.pc = "ask" /\ t.of = task[u].of
    BY <1>1, <2>1 DEF Tasks
  <2>3. Becomes(u, t) \/ Becomes(u, Idle)
    BY <1>15, <2>1 DEF Put, PutFails
  <2>4. QED
    BY <1>1, <1>3, <1>4, <2>2, <2>3
<1>16. CASE Reply(u)
  BY <1>1, <1>3, <1>16 DEF Reply
<1>17. QED
  BY <1>6, <1>7, <1>8, <1>9, <1>10, <1>11, <1>12, <1>13, <1>14, <1>15, <1>16

\* A request is told what was remembered, or what its own check found.
LEMMA ToldVerdicts ==
  ASSUME Parameters, TypeInv, VerdictInv, Moves, NEW u \in Parties,
         Recall(u) \/ (LookUp(u) /\ About(saved, u)) \/ Note(u)
  PROVE  VerdictInv'
<1>1. /\ task[u] \in Tasks /\ task[u].of <= minted /\ muddled' = muddled
      /\ task[u].on \in Workers
  BY DEF TypeInv, TaskOK, Recall, LookUp, Note, At
<1>2. ASSUME NEW v \in Verdicts, Bound(v), About(v, u), Told(u, v),
             task[u].pc \in {"recall", "note"},
             saved' \in {saved, v}, \A w \in Workers : mem'[w] \in {mem[w], v}
      PROVE  VerdictInv'
  <2>1. PICK t \in Tasks : t = [task[u] EXCEPT !.pc = "reply", !.by = v.by]
    BY <1>1 DEF Tasks, Verdicts, Steps
  <2>2. /\ t.pc = "reply" /\ t.of = v.of /\ t.by = v.by /\ t.scope = v.scope
        /\ t.of = task[u].of /\ t.scope = task[u].scope
    BY <1>1, <1>2, <2>1 DEF About, Tasks
  <2>3. Sincere(t)
    BY <1>2, <2>2 DEF Sincere, Bound, VerdictInv
  <2>4. QED
    BY <1>1, <1>2, <2>1, <2>2, <2>3, VerdictsStay DEF Told
<1>3. CASE Recall(u)
  <2>1. PICK v \in Verdicts : v = mem[task[u].on]
    BY <1>1 DEF TypeInv
  <2>2. QED
    BY <1>1, <1>2, <1>3, <2>1 DEF Recall, At, VerdictInv
<1>4. CASE LookUp(u) /\ About(saved, u)
  <2>1. PICK v \in Verdicts : v = saved
    BY DEF TypeInv
  <2>2. mem' = [mem EXCEPT ![task[u].on] = v] /\ saved' = saved /\ Told(u, v) /\ At(u, "recall")
    BY <1>4, <2>1 DEF LookUp
  <2>3. QED
    BY <1>1, <1>2, <1>4, <2>1, <2>2 DEF At, VerdictInv, TypeInv
<1>5. CASE Note(u)
  <2>1. PICK v \in Verdicts : v = Verdict(u)
    BY <1>1 DEF Verdict, Verdicts, Tasks
  <2>2. mem' = [mem EXCEPT ![task[u].on] = v] /\ saved' \in {saved, v} /\ Told(u, v) /\ At(u, "note")
    BY <1>5, <2>1 DEF Note
  <2>3. About(v, u) /\ v.by = task[u].by
    BY <2>1 DEF Verdict, About
  <2>4. Bound(v)
    BY <2>2, <2>3 DEF Bound, VerdictInv, Sincere, About, At
  <2>5. QED
    BY <1>1, <1>2, <2>2, <2>3, <2>4 DEF At, TypeInv
<1>6. QED
  BY <1>3, <1>4, <1>5

\* Verdicts are forgotten: an upload, a promotion, a death, or time.
LEMMA ForgetVerdicts ==
  ASSUME Parameters, TypeInv, VerdictInv, Moves,
         \/ \E u \in Parties, w \in Workers : Promote(u, w) \/ \E s \in Scopes : Upload(u, w, s)
         \/ (\E w \in Workers : Dies(w)) \/ Lapse
  PROVE  VerdictInv'
<1>1. /\ Bound(Blank) /\ Sincere(Idle) /\ Blank.of <= minted /\ Idle.of <= minted
      /\ minted \in Nat
  BY NoVerdict DEF TypeInv
<1>2. /\ muddled \subseteq muddled' /\ saved' \in {saved, Blank}
      /\ \A w \in Workers : mem'[w] \in {mem[w], Blank}
  BY DEF Promote, Upload, Dies, Lapse, Forget, Muddle, TypeInv
<1>3. ASSUME NEW u \in Parties, NEW w \in Workers,
             Promote(u, w) \/ \E s \in Scopes : Upload(u, w, s)
      PROVE  VerdictInv'
  <2>1. PICK t : Becomes(u, t) /\ t.pc = "put" /\ t.of = 0
    <3>1. CASE Promote(u, w)
      <4>1. PICK t : t = [Idle EXCEPT !.pc = "put", !.on = w, !.file = row["user"]]
        OBVIOUS
      <4>2. Becomes(u, t) /\ t.pc = "put" /\ t.of = 0
        BY <3>1, <4>1 DEF Promote, Idle
      <4>3. QED
        BY <4>2
    <3>2. ASSUME NEW s \in Scopes, Upload(u, w, s)
          PROVE  \E t : Becomes(u, t) /\ t.pc = "put" /\ t.of = 0
      <4>1. PICK t : t = [Idle EXCEPT !.pc = "put", !.on = w, !.own = s = "user",
                                      !.scope = s, !.file = minted + 1]
        OBVIOUS
      <4>2. Becomes(u, t) /\ t.pc = "put" /\ t.of = 0
        BY <3>2, <4>1 DEF Upload, Idle
      <4>3. QED
        BY <4>2
    <3>3. QED
      BY <1>3, <3>1, <3>2
  <2>2. Sincere(t)
    BY <2>1, TaskSincere
  <2>3. QED
    BY <1>1, <1>2, <2>1, <2>2, VerdictsStay
<1>4. CASE (\E w \in Workers : Dies(w)) \/ Lapse
  <2>1. \A p \in Parties : task'[p] \in {task[p], Idle}
    BY <1>4 DEF Dies, Lapse
  <2>2. QED
    BY <1>1, <1>2, <2>1, VerdictsKept
<1>5. QED
  BY <1>3, <1>4

\* _hash_token, _invalidate_validation_cache: of any number of workers, chats and
\* requests, a verdict that is given of the credential that is stored comes from a
\* check of this credential, as long as one HOME at a time uses it.
THEOREM VerdictsTheirs == Parameters => (Spec => []VerdictsAreTheirs)
<1> SUFFICES ASSUME Parameters PROVE Spec => []VerdictsAreTheirs
  OBVIOUS
<1>1. Init => TypeInv /\ CoreInv /\ VerdictInv
  <2> SUFFICES ASSUME Init PROVE TypeInv /\ CoreInv /\ VerdictInv
    OBVIOUS
  <2>1. TypeInv /\ CoreInv
    BY TypeInit, CoreInit
  <2>2. saved = Blank /\ (\A w \in Workers : mem[w] = Blank) /\ \A u \in Parties : task[u] = Idle
    BY DEF Init
  <2>3. QED
    BY <2>1, <2>2, NoVerdict DEF VerdictInv
<1>2. TypeInv /\ CoreInv /\ VerdictInv /\ [Next]_vars => TypeInv' /\ CoreInv' /\ VerdictInv'
  <2> SUFFICES ASSUME TypeInv, CoreInv, VerdictInv, [Next]_vars PROVE Kept /\ VerdictInv'
    BY DEF Kept
  <2>1. Kept
    BY NextKeeps
  <2>2. ASSUME NEW c \in Chats, Chatting(c) PROVE VerdictInv'
    <3>1. c \in Parties
      BY DEF Parties
    <3>2. QED
      BY <2>1, <2>2, <3>1, HomeVerdicts DEF Chatting, Kept
  <2>3. ASSUME NEW r \in Requests, Asking(r) PROVE VerdictInv'
    <3>1. r \in Parties
      BY DEF Parties
    <3>2. QED
      BY <2>1, <2>3, <3>1, HomeVerdicts, ToldVerdicts DEF Asking, Kept
  <2>4. ASSUME NEW r \in Requests, Uploading(r) PROVE VerdictInv'
    <3>1. r \in Parties
      BY DEF Parties
    <3>2. QED
      BY <2>1, <2>4, <3>1, HomeVerdicts, ForgetVerdicts DEF Uploading, Kept
  <2>5. CASE UNCHANGED vars
    <3>1. UNCHANGED <<task, mem, saved, muddled>>
      BY <2>5 DEF vars
    <3>2. QED
      BY <2>1, <3>1, NoVerdict, VerdictsKept DEF Kept
  <2>6. QED
    BY <2>1, <2>2, <2>3, <2>4, <2>5, ForgetVerdicts DEF Next, Kept
<1>3. TypeInv /\ VerdictInv => VerdictsAreTheirs
  <2> SUFFICES ASSUME TypeInv, VerdictInv, NEW r \in Requests, At(r, "reply"),
                      task[r].scope \notin muddled, task[r].of = row[task[r].scope]
               PROVE  task[r].by = task[r].of
    BY DEF VerdictsAreTheirs
  <2>1. PICK s \in Scopes \ muddled : s = task[r].scope
    BY DEF TypeInv, Tasks, Parties
  <2>2. row[s] \in Future(s)
    BY DEF Future, Held
  <2>3. QED
    BY <2>1, <2>2 DEF VerdictInv, Sincere, At, Parties
<1>4. QED
  BY <1>1, <1>2, <1>3, PTL DEF Spec

=============================================================================
