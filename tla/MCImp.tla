------------------------------- MODULE MCImp -------------------------------
(***************************************************************************)
(* Small plans for model-checking Imp.                                     *)
(***************************************************************************)
EXTENDS Imp

PlanOf(ids, up, deps, aside, progress) ==
  [nodes |-> ids,
   parent |-> [n \in Node |-> IF n \in DOMAIN up THEN up[n] ELSE Root],
   depends_on |-> [n \in Node |-> IF n \in DOMAIN deps THEN deps[n] ELSE {}],
   paused |-> [n \in Node |-> n \in aside],
   status |-> [n \in Node |-> IF n \in DOMAIN progress THEN progress[n] ELSE "todo"]]

\* Two components with a part each. Part 2 waits for part 4, and component 3
\* waits for component 1: a cycle across levels.
CyclicPlan == PlanOf(1 .. 4, <<Root, 1, Root, 3>>, <<{}, {4}, {1}>>, {}, <<>>)

\* A component with two parts, one finished in an earlier iteration.
LaterPlan == PlanOf(1 .. 3, <<Root, 1, 1>>, <<{}, {}, {2}>>, {},
                    <<"todo", "done", "todo">>)

\* A finished component, and a new one that depends on it, with a part of
\* the first set aside.
AsidePlan == PlanOf(1 .. 3, <<Root, 1, Root>>, <<{}, {}, {1}>>, {2},
                    <<"done", "todo", "todo">>)

\* A single chain three deep.
ChainPlan == PlanOf(1 .. 3, <<Root, 1, 2>>, <<>>, {}, <<>>)

\* One component with one part: room for a split in two.
SplitPlan == PlanOf(1 .. 2, <<Root, 1>>, <<>>, {}, <<>>)

\* Two components: the first, with a part, waits for the second.
WaitingPlan == PlanOf(1 .. 3, <<Root, 1, Root>>, <<{3}>>, {}, <<>>)

AllPlans == {CyclicPlan, LaterPlan, AsidePlan, ChainPlan}
ShortPlans == {LaterPlan, SplitPlan, WaitingPlan}
=============================================================================
