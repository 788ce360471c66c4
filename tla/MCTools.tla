------------------------------- MODULE MCTools ------------------------------
(***************************************************************************)
(* Two episodes of one level: the Lead's on two components, or the Task    *)
(* level's on two tasks in different places of the tree.                   *)
(***************************************************************************)
EXTENDS Tools, TLC

CONSTANTS e1, e2, add, app_py, spec_py, total

Node(level, parent, function, files, cases) ==
  [level |-> level, parent |-> parent, function |-> function, files |-> files,
   cases |-> cases, kind |-> "code"]

\* The runbook puts a test beside its source; these two are in different folders.
Apart == {{app_py, spec_py}}

SomeBatches ==
  {[plan |-> <<Node("architect", 0, NoFunction, {}, {}), Node("architect", 0, NoFunction, {}, {})>>,
    role |-> "lead", scope |-> e1 :> 1 @@ e2 :> 2, ground_truth |-> TRUE],
   [plan |-> <<Node("architect", 0, NoFunction, {}, {}),
               Node("lead", 1, NoFunction, {app_py}, {total}),
               Node("lead", 1, add, {}, {})>>,
    role |-> "task", scope |-> e1 :> 2 @@ e2 :> 3, ground_truth |-> FALSE]}
=============================================================================
