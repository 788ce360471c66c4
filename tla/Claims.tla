------------------------------- MODULE Claims -------------------------------
(***************************************************************************)
(* What the nodes of a plan claim: a function, files and ground-truth      *)
(* cases (src/src/JFI/planner/nodes.py), while the breakdowns of one level *)
(* run side by side (src/src/JFI/planner/loop.py).  The plan tools read    *)
(* the tree, check it and write under one lock (Planner._locked), so a     *)
(* call is one step here.  It is the first time the goal is planned, so    *)
(* nothing is built yet; what the tools do to finished nodes, verdicts and *)
(* dependencies is module Planner's.                                       *)
(*                                                                         *)
(* A description is what the checks read of it: the function it names.     *)
(***************************************************************************)
EXTENDS Batch

CONSTANTS
  MaxNode,      \* bound: ids handed out
  Function,     \* functions descriptions name
  File,         \* paths
  TestNamed,    \* those with "test" in their path
  Misplaced,    \* lists of files whose tests aren't where the runbook's test_dir puts them
  Case,         \* names of ground-truth cases
  Batches       \* the plans, and the episodes on them, a run may start from

NoFunction == "no function"
Id == 1 .. MaxNode

\* A node.  `kind` is "delete" for a deletion, which has nothing to compare.
Row == [level : {"architect", "lead", "task"}, parent : {0} \cup Id,
        function : Function \cup {NoFunction}, files : SUBSET File,
        cases : SUBSET Case, kind : {"code", "delete"}]

\* A plan: a row for each of some ids.
IsPlan(p) == DOMAIN p \subseteq Id /\ p \in [DOMAIN p -> Row]

\* No two nodes have a case in common.
CasesApart(p) == \A m, n \in DOMAIN p : m # n => p[m].cases \cap p[n].cases = {}

ASSUME ClaimsAssumption ==
  /\ MaxNode \in Nat
  /\ TestNamed \subseteq File /\ Misplaced \subseteq SUBSET File
  /\ NoFunction \notin Function
  /\ \A b \in Batches : /\ IsPlan(b.plan) /\ CasesApart(b.plan)
                        /\ b.role \in {"lead", "task"}
                        /\ b.scope \in [Thread -> Id]
                        /\ b.ground_truth \in BOOLEAN

VARIABLES
  plan,       \* the leaf rows
  batch,      \* the level's role, the node of each episode, the design's reference
  captured,   \* cases with an evidence file
  finished    \* episodes whose finish was accepted

claimVars == <<plan, batch, captured, finished>>

ClaimsInit ==
  /\ batch \in Batches /\ plan = batch.plan
  /\ captured = {} /\ finished = {}

---------------------------------------------------------------------------
(* The checks.                                                             *)

Parts(p, n) == {c \in DOMAIN p : p[c].parent = n}

\* _duplicate_of, over the nodes but the one it is added under: a leaf for the same function in one of the same files.
DuplicateOf(p, under, function, files) ==
  LET others == DOMAIN p \ {under}
      parents == {p[m].parent : m \in others}
  IN  {n \in others : /\ function # NoFunction /\ files # {}
                      /\ n \notin parents
                      /\ p[n].function = function
                      /\ p[n].files \cap files # {}}

Sources(files) == files \ TestNamed

\* _test_path_problem finds none: the tests of the list are in their folder,
\* or beside its other files; without a test_dir no place is wrong.
TestsInPlace(files) == files \notin Misplaced

\* The Lead's nodes that have one of these files.
FileOwner(p, files) ==
  {n \in DOMAIN p : p[n].level = "lead" /\ Sources(p[n].files) \cap Sources(files) # {}}

\* Variant: only the nodes under the same parent are looked at.
ClashBeside(p, n, under, cases) ==
  \E m \in Parts(p, under) \ {n} : p[m].cases \cap cases # {}

\* _cases_problem: one of the cases is on a node other than n.
Clash(p, n, under, cases) ==
  \E m \in DOMAIN p \ {n} : p[m].cases \cap cases # {}

\* What a breakdown in a session with a ground truth still lacks.
CaseProblems(p, parts) ==
  \/ \E n \in parts : p[n].cases = {} /\ p[n].kind # "delete"
  \/ \E n \in parts : ~ p[n].cases \subseteq captured

\* The design names a reference to compare with.
HasGroundTruth == batch.ground_truth

UnownedCases(p) == captured \ UNION {p[n].cases : n \in DOMAIN p}

---------------------------------------------------------------------------
(* The tools of an episode t.                                              *)

Under(t) == batch.scope[t]

\* A row's id is new: SQLite hands out the one after the largest.
NextId(p) == IF DOMAIN p = {} THEN 1 ELSE 1 + CHOOSE n \in DOMAIN p : \A m \in DOMAIN p : m <= n

AddClaim(t, function, files, cases, kind) ==
  LET n == NextId(plan)
  IN  /\ t \notin finished /\ Under(t) \in DOMAIN plan /\ n \in Id
      /\ TestsInPlace(files)
      /\ ~ Clash(plan, n, Under(t), cases)
      /\ DuplicateOf(plan, Under(t), function, files) = {}
      /\ batch.role = "lead" => FileOwner(plan, files) = {}
      /\ plan' = [m \in DOMAIN plan \cup {n} |->
                    IF m # n THEN plan[m]
                    ELSE [level |-> batch.role, parent |-> Under(t), function |-> function,
                          files |-> files, cases |-> cases, kind |-> kind]]
      /\ UNCHANGED <<batch, captured, finished>>

\* Any node of the role's level: neither the files' owner nor a duplicate is
\* looked for.  The episode gives the fields it wants changed.
UpdateClaim(t, n, function, files, cases, kind) ==
  /\ t \notin finished /\ n \in DOMAIN plan
  /\ plan[n].level = batch.role
  /\ files # plan[n].files => TestsInPlace(files)
  /\ cases # plan[n].cases => ~ Clash(plan, n, plan[n].parent, cases)
  /\ plan' = [plan EXCEPT ![n] = [@ EXCEPT !.function = function, !.files = files,
                                           !.cases = cases, !.kind = kind]]
  /\ UNCHANGED <<batch, captured, finished>>

DeleteClaim(t, n) ==
  /\ t \notin finished /\ n \in DOMAIN plan
  /\ plan[n].level = batch.role /\ Parts(plan, n) = {}
  /\ plan' = [m \in DOMAIN plan \ {n} |-> plan[m]]
  /\ UNCHANGED <<batch, captured, finished>>

\* capture_evidence; what it does with the files is module Evidence's.
CaptureCase(t, c) ==
  /\ t \notin finished
  /\ captured' = captured \cup {c}
  /\ UNCHANGED <<plan, batch, finished>>

\* _cases_finish: refused while something is missing.
FinishClaims(t) ==
  /\ t \notin finished
  /\ HasGroundTruth => ~ CaseProblems(plan, Parts(plan, Under(t))) /\ UnownedCases(plan) = {}
  /\ finished' = finished \cup {t}
  /\ UNCHANGED <<plan, batch, captured>>

ClaimCall(t) ==
  \/ \E f \in Function \cup {NoFunction}, fs \in SUBSET File, cs \in SUBSET Case,
        k \in {"code", "delete"} : AddClaim(t, f, fs, cs, k)
  \/ \E n \in DOMAIN plan :
       \/ \E f \in Function \cup {NoFunction}, fs \in SUBSET File, cs \in SUBSET Case,
            k \in {"code", "delete"} : UpdateClaim(t, n, f, fs, cs, k)
       \/ DeleteClaim(t, n)
  \/ \E c \in Case : CaptureCase(t, c)
  \/ FinishClaims(t)

ClaimsNext == \E t \in Thread : ClaimCall(t)
ClaimsSpec == ClaimsInit /\ [][ClaimsNext]_claimVars

---------------------------------------------------------------------------

\* "A case belongs to one node": whatever episodes running side by side add
\* and rewrite, no two nodes are compared with the same evidence.
CasesHaveOneOwner == CasesApart(plan)
=============================================================================
