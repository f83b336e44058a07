----------------------------- MODULE SpendReports -----------------------------
(***************************************************************************)
(* The two reports on what a session spent, made of one transcript after   *)
(* every turn (ingest/live_ingest.py) and on request (sessions/api.py):    *)
(* CostBreakdown and StructureTree.  claude, which writes the transcript,  *)
(* is external: it appends assistant messages with the tools they use, and *)
(* results in any order; a subagent's messages are a side chain.           *)
(***************************************************************************)
EXTENDS Naturals, Sequences, FiniteSets, SequencesExt

CONSTANTS
  Phases, Unknown,  \* what a skill or a task is of
  MaxLines,         \* bound on assistant messages
  MaxUses           \* bound on uses of tools, by all of them

VARIABLES
  parent,   \* the message that each message answers, 0 for the first
  awaited,  \* uses without a result
  used,     \* how many uses there were
  tree, breakdown,
  nested,   \* dispatches have ended innermost first
  plain,    \* and nothing but known skills, one at a time, has started phases
  due       \* tools whose result came while nothing began or ended since the call

vars == <<parent, awaited, used, tree, breakdown, nested, plain, due>>

T == INSTANCE StructureTree
B == INSTANCE CostBreakdown

Lines == 1..Len(parent)

-----------------------------------------------------------------------------
\* A use of a tool: Skill or Agent, a task that begins a phase, any other.
Uses == [kind : {"dispatch"}, of : Phases \cup {Unknown}]
          \cup [kind : {"begin"}, of : Phases] \cup {[kind |-> "tool", of |-> Unknown]}

Dispatches(uses) == \E k \in DOMAIN uses : uses[k].kind = "dispatch"

\* Events are read in the order of the blocks.
OnTree(t, line, uses, k) ==
  LET use == uses[k] IN
  CASE use.kind = "dispatch" -> T!Dispatch(t, <<line, k>>, use.of)
    [] use.kind = "begin"    -> T!Tool(T!Begin(t, use.of), <<line, k>>)
    [] use.kind = "tool"     -> T!Tool(t, <<line, k>>)

OnBreakdown(c, line, uses, k) ==
  IF uses[k].kind = "dispatch" THEN B!Dispatch(c, <<line, k>>, line, uses[k].of) ELSE c

Places(uses) == [k \in DOMAIN uses |-> k]

\* Side chains exist while a dispatch has no result.
Message(uses, side, after) ==
  LET line    == Len(parent) + 1
      parents == Append(parent, after)
      does    == Dispatches(uses)
  IN
  /\ Len(parent) < MaxLines
  /\ side => breakdown.open # <<>>
  /\ parent' = parents /\ used' = used + Len(uses)
  /\ tree' = FoldLeft(LAMBDA t, k : OnTree(t, line, uses, k), T!Turn(tree, line, does), Places(uses))
  /\ breakdown' = FoldLeft(LAMBDA c, k : OnBreakdown(c, line, uses, k),
                           B!Turn(breakdown, line, does, side, parents), Places(uses))
  /\ awaited' = {[id |-> a.id, clear |-> a.clear /\ \A k \in DOMAIN uses : uses[k].kind = "tool"] :
                   a \in awaited}
                \cup {[id |-> <<line, k>>, clear |-> /\ uses[k].kind # "dispatch"
                                                     /\ \A j \in k + 1..Len(uses) : uses[j].kind = "tool"] :
                        k \in DOMAIN uses}
  /\ plain' = (plain /\ ~side /\ (does => Len(uses) = 1 /\ tree.open = <<>>)
                     /\ \A k \in DOMAIN uses : uses[k].kind # "begin" /\ (uses[k].kind = "dispatch" => uses[k].of # Unknown))
  /\ UNCHANGED <<nested, due>>

Ends(id) == \E i \in DOMAIN tree.open : tree.open[i].id = id

Result(use) ==
  /\ tree' = T!Result(tree, use.id)
  /\ breakdown' = B!Result(breakdown, use.id)
  /\ awaited' = {[id |-> a.id, clear |-> a.clear /\ ~Ends(use.id)] : a \in awaited \ {use}}
  /\ due' = IF use.clear THEN due \cup {use.id} ELSE due
  /\ nested' = (nested /\ (Ends(use.id) => Last(tree.open).id = use.id))
  /\ UNCHANGED <<parent, used, plain>>

Init ==
  /\ parent = <<>> /\ awaited = {} /\ used = 0
  /\ tree = T!Empty /\ breakdown = B!Empty
  /\ nested = TRUE /\ plain = TRUE /\ due = {}

Next ==
  \/ \E uses \in BoundedSeq(Uses, MaxUses - used) :
       \/ Message(uses, FALSE, Len(parent))
       \/ \E after \in Lines : Message(uses, TRUE, after)
  \/ \E use \in awaited : Result(use)

Spec == Init /\ [][Next]_vars

-----------------------------------------------------------------------------
(* Properties.                                                             *)

Count(x, seq) == Cardinality({i \in DOMAIN seq : seq[i] = x})

\* A row says what its subtree spent: its kids' spend is its own, once.
Inclusive(row) ==
  \A k \in DOMAIN row.kids :
    /\ \A i \in DOMAIN row.kids[k].spent :
         /\ Count(row.kids[k].spent[i], row.spent) = 1
         /\ \A j \in DOMAIN row.kids : j # k => Count(row.kids[k].spent[i], row.kids[j].spent) = 0

\* _propagate_to_parent, dispatch_turn_uuids: "the phase rollup sums to the
\* session total": at the end of every line, whatever is still open and however
\* dispatches nest, overlap and end, both reports count each turn in one phase,
\* once; and while phases begin by known skills, one after the other, the tree
\* "mirrors" the breakdown: each phase has the same turns in both.
SpendIsWhole ==
  /\ \A line \in Lines :
       /\ \E b \in T!Buckets : /\ Count(line, T!Spend(tree, b)) = 1
                               /\ \A d \in T!Buckets \ {b} : Count(line, T!Spend(tree, d)) = 0
       /\ \E b \in B!Buckets : /\ Count(line, B!Spend(breakdown, b)) = 1
                               /\ \A d \in B!Buckets \ {b} : Count(line, B!Spend(breakdown, d)) = 0
  /\ \A b \in T!Buckets : \A i \in DOMAIN T!Finished(tree).rows[b] : Inclusive(T!Finished(tree).rows[b][i])
  /\ plain => \A b \in T!Buckets : ToSet(T!Spend(tree, b)) = ToSet(B!Spend(breakdown, b))

Stay ==
  nested' => \A b \in T!Buckets : ToSet(T!Spend(tree, b)) \subseteq ToSet(T!Spend(tree', b))

\* The tree is made again after every turn: a turn stays charged to the phase it
\* was charged to as the transcript grows, unless dispatches overlap.
SpendStays == [][Stay]_vars

\* _find_tool_node: a result reaches its row, with its error, unless a dispatch or a
\* phase began or ended between the two.
ResultsShow == due \subseteq tree.told

\* Both of them: what the reports say of spend and of results.
ReportsHold == SpendIsWhole /\ ResultsShow

=============================================================================
