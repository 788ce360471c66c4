------------------------------ MODULE PlanTree ------------------------------
(***************************************************************************)
(* The plan tree of one session: the `leaf` rows of its database           *)
(* (src/src/JFI/models/leaf.py), the tree queries every phase makes over   *)
(* them (src/src/JFI/planner/nodes.py) and Dev's queue, which is computed  *)
(* from them each time it is asked for (src/src/JFI/imp/queue.py).         *)
(*                                                                         *)
(* A row's id is a positive number handed out in increasing order, so a    *)
(* parent's id is smaller than its children's, and siblings, kept in the   *)
(* order they were added (sort_key), are in the order of their ids.        *)
(***************************************************************************)
EXTENDS Naturals, FiniteSets

CONSTANTS
  MaxNode,    \* bound on the ids a model may hand out
  MaxDepth    \* MAX_LEAF_DEPTH; 5 in the code

ASSUME MaxNodeAssumption == MaxNode \in Nat
ASSUME MaxDepthAssumption == MaxDepth \in 1 .. 5

Root == 0                  \* parent_id = NULL: the goal itself, never a row
Node == 1 .. MaxNode

PlanStatus == {"none", "breakdown", "redo", "good"}
Status == {"todo", "done", "skipped"}
FINISHED == {"done", "skipped"}

VARIABLES
  nodes,         \* the ids that have a row
  parent,        \* parent_id
  depends_on,    \* the nodes each node waits for, as the planner wrote them
  plan_status,   \* the planner's verdict; "none" is unjudged
  paused,        \* set aside until an escalated ancestor is settled
  status         \* Dev's progress

treeVars == <<nodes, parent, depends_on, plan_status, paused, status>>

TreeTypeOK ==
  /\ nodes \subseteq Node
  /\ parent \in [Node -> Node \cup {Root}]
  /\ depends_on \in [Node -> SUBSET Node]
  /\ plan_status \in [Node -> PlanStatus]
  /\ paused \in [Node -> BOOLEAN]
  /\ status \in [Node -> Status]

---------------------------------------------------------------------------
(* Queries over the tree.                                                  *)

Up(n) == IF n = Root THEN Root ELSE parent[n]

\* Every node above n. MAX_LEAF_DEPTH is 5, so four steps up reach the top.
Ancestors(n) ==
  {Up(n), Up(Up(n)), Up(Up(Up(n))), Up(Up(Up(Up(n))))} \ {Root}

Children(n) == {c \in nodes : parent[c] = n}

Under(n) == {m \in nodes : m = n \/ n \in Ancestors(m)}

Depth(n) == 1 + Cardinality(Ancestors(n))

\* The shape every planner operation keeps: parents are rows, older than
\* their children, and no node is deeper than five levels.
WellFormed ==
  \A n \in nodes :
    /\ parent[n] = Root \/ parent[n] \in nodes
    /\ parent[n] < n
    /\ Up(Up(Up(Up(Up(n))))) = Root

Finished(n) == status[n] \in FINISHED

---------------------------------------------------------------------------
(* Dev's queue.                                                            *)

\* a comes before b in post order: it is below b, or below an elder sibling
\* of b or of one of b's ancestors.
Before(a, b) ==
  \/ b \in Ancestors(a)
  \/ \E x \in {a} \cup Ancestors(a), y \in {b} \cup Ancestors(b) :
       parent[x] = parent[y] /\ x < y

DevNodes == {n \in nodes : ~ paused[n] /\ plan_status[n] = "good"}

Todo == {n \in DevNodes : ~ Finished(n)}

FirstIn(n, S) == n \in S /\ \A m \in S \ {n} : ~ Before(m, n)

\* Variant: only what the node itself depends on, not what is above it.
OwnBlockers(n) ==
  (Under(n) \cup UNION {Under(d) : d \in depends_on[n] \cap nodes})
    \ (Ancestors(n) \cup {n})

\* Variant: only dependencies, not the node's own parts.
DependencyBlockers(n) ==
  UNION {Under(d) : d \in UNION {depends_on[a] : a \in {n} \cup Ancestors(n)} \cap nodes}
    \ (Ancestors(n) \cup {n})

\* What a node waits for: everything under it, and everything under what it
\* or an ancestor depends on, never its own ancestors.
Blockers(n) ==
  LET wanted == UNION {depends_on[a] : a \in {n} \cup Ancestors(n)}
      under  == Under(n) \cup UNION {Under(d) : d \in wanted \cap nodes}
  IN  under \ (Ancestors(n) \cup {n})

Ready(n, deferred) ==
  /\ deferred[n] \notin Todo
  /\ Blockers(n) \cap Todo = {}

ReadyNodes(deferred) == {n \in Todo : Ready(n, deferred)}

\* The first unfinished node nothing holds back; when every one is held
\* back, by a cycle across levels, the first unfinished node.
IsNextLeaf(n, deferred) ==
  \/ FirstIn(n, ReadyNodes(deferred))
  \/ ReadyNodes(deferred) = {} /\ FirstIn(n, Todo)

\* Every node above a row that has been added or reopened is checked again.
ReopenAbove(n) ==
  [m \in Node |-> IF m \in Ancestors(n) THEN "todo" ELSE status[m]]
=============================================================================
