----------------------------- MODULE MCPlanner -----------------------------
(***************************************************************************)
(* Small trees for model-checking Planner.                                 *)
(***************************************************************************)
EXTENDS Planner

TreeOf(ids, up, roles, verdict, progress) ==
  [nodes |-> ids,
   parent |-> [n \in Node |-> IF n \in DOMAIN up THEN up[n] ELSE Root],
   depends_on |-> [n \in Node |-> {}],
   level |-> [n \in Node |-> IF n \in DOMAIN roles THEN roles[n] ELSE "architect"],
   plan_status |-> [n \in Node |-> IF n \in ids THEN verdict ELSE "none"],
   status |-> [n \in Node |-> IF n \in DOMAIN progress THEN progress[n] ELSE "todo"]]

\* Nothing planned yet.
NoTree == TreeOf({}, <<>>, <<>>, "none", <<>>)

\* A later iteration: a finished component with a finished part.
BuiltTree == TreeOf(1 .. 2, <<Root, 1>>, <<"architect", "lead">>, "good", <<"done", "done">>)

\* A run that was stopped after the Architect: two components, unjudged.
DraftTree == TreeOf(1 .. 2, <<Root, Root>>, <<"architect", "architect">>, "none", <<>>)

\* A hosted API, and a local server whose context holds one episode.
SomeServers ==
  {[backend |-> "anthropic", local |-> FALSE, slots |-> 0, context |-> 0],
   [backend |-> "lmstudio", local |-> TRUE, slots |-> 4, context |-> 12]}

AllTrees == {NoTree, BuiltTree, DraftTree}
=============================================================================
