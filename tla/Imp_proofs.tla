----------------------------- MODULE Imp_proofs -----------------------------
(***************************************************************************)
(* Machine-checked theorems about one run of the implementation phase      *)
(* (module Imp), for any plan and any number of nodes: the order it builds *)
(* them in, what it leaves finished and what it takes up again; and about  *)
(* the chores around it (module Chores).                                   *)
(***************************************************************************)
EXTENDS Imp, Chores, FiniteSetTheorems, TLAPS

\* Dev has a node in hand and has not sent it back.
Working == pc \in {"work", "gate", "compare", "compared", "split"}

Replanning == pc \in {"replan", "replanned"}

\* Every node is the queue's business, or set aside.
Settled == \A n \in nodes : paused[n] \/ plan_status[n] = "good"

\* The memory of the run points at rows, and is empty where it is unused.
Pointers ==
  /\ Working \/ Replanning => current \in nodes
  /\ splitting # NoNode => /\ pc = "replan"
                           /\ splitting \in nodes
                           /\ status[splitting] # "done"
  /\ reopening # NoNode => pc \in {"scan", "replan"} /\ reopening \in nodes
  /\ toScan \subseteq nodes

\* A node in hand has no unfinished part.
PartsFinished ==
  Working => \A c \in Children(current) : paused[c] \/ Finished(c)

\* Only the planner's run leaves a node unsettled, and only when stopped.
SettledInv ==
  /\ Working \/ pc \in {"scan", "pick"} => Settled
  /\ pc \in {"top", "replanned"} /\ ~ stop => Settled

\* What is done was settled, and what is to be broken down has no part yet.
VerdictInv ==
  /\ \A n \in nodes : status[n] = "done" => paused[n] \/ plan_status[n] = "good"
  /\ \A n \in nodes : plan_status[n] = "breakdown" /\ Children(n) # {} => n = splitting
  /\ pc \in {"split", "replan"} => status[current] # "done"

\* The attempt in hand is counted.
AttemptCounted ==
  pc \in {"work", "gate", "compare", "compared"} /\ episode = "leaf"
    => attempt_count[current] # 0

\* A run that reported success is over, and left nothing unfinished.
CompleteInv == complete => pc = "over" /\ NothingLost

AtGate == pc \in {"gate", "compare", "compared"}

\* Until somebody edits it the evidence at the gate is what the gate looked at,
\* and a node that is finished while in hand has that hash.
EvidenceInv ==
  /\ (pc = "work" \/ AtGate) /\ ~ accepted => status[current] # "done"
  /\ (pc = "work" \/ AtGate) /\ current \in Cased /\ status[current] = "done"
       => evidence_hash[current] = startHash
  /\ pc \in {"gate", "compare"} /\ current \in Cased /\ ~ touched
       => evidence[current] = startHash
  /\ pc = "compared" /\ current \in Cased /\ current \notin disturbed
       => compared[current] = startHash
  /\ VouchedFor

\* What the queue knew of the order when it handed the node out still holds
\* while the node is worked on: nobody else is finished meanwhile.
InTurn(n) ==
  (\E x \in Todo : MustWait(n, x))
    => FirstIn(n, Todo) /\ \A m \in Todo \ {n} : HeldBack(m)

TakenInTurn ==
  (pc = "work" \/ AtGate) /\ status[current] # "done" => InTurn(current)

\* The row whose ancestors are to be reopened isn't finished.
ReopenedIsTodo == reopening # NoNode => status[reopening] = "todo"

IInv ==
  /\ TypeOK
  /\ WellFormed
  /\ Pointers
  /\ PartsFinished
  /\ SettledInv
  /\ VerdictInv
  /\ AttemptCounted
  /\ ParentLast
  /\ CompleteInv
  /\ EvidenceInv
  /\ TakenInTurn
  /\ ReopenedIsTodo

\* Contents of the evidence files, and the count of their edits.
LEMMA ContentFacts ==
  /\ NoHash \in Content /\ 1 \in Content
  /\ \A e \in 0 .. MaxEdits : e < MaxEdits => e + 1 \in 0 .. MaxEdits
BY BoundsAssumption DEF Content, NoHash

\* The counters stay in their ranges when a guard was checked first.
LEMMA RangeFacts ==
  /\ 0 \in 0 .. MaxAttempts /\ 0 \in 0 .. MaxDeferrals /\ 0 \in 0 .. MaxPlannerEpisodes
  /\ \A k \in 0 .. MaxAttempts : k < MaxAttempts => k + 1 \in 0 .. MaxAttempts
  /\ \A k \in 0 .. MaxAttempts : k # 0 => k - 1 \in 0 .. MaxAttempts
  /\ \A k \in 0 .. MaxDeferrals : k < MaxDeferrals => k + 1 \in 0 .. MaxDeferrals
  /\ \A k \in 0 .. MaxPlannerEpisodes :
       k < MaxPlannerEpisodes => k + 1 \in 0 .. MaxPlannerEpisodes
BY BoundsAssumption

\* No step of the run leaves the types: in particular an attempt is taken
\* back (_work, a deferred node) only after it was counted.
LEMMA TypeStep ==
  TypeOK /\ Pointers /\ AttemptCounted /\ [Next]_vars => TypeOK'
<1> SUFFICES ASSUME TypeOK, Pointers, AttemptCounted, [Next]_vars PROVE TypeOK'
  OBVIOUS
<1> USE ContentFacts, RangeFacts DEF TypeOK, TreeTypeOK, Where, PlanStatus, Status, NoNode, NoHash,
  Root
<1>1. CASE StopAtTop
  BY <1>1 DEF StopAtTop, Forget, LeaveNode, dbVars, fileVars, gateVars, queueVars, planVars,
    runVars, historyVars
<1>2. CASE BeginScan
  BY <1>2 DEF BeginScan, DevNodes, dbVars, fileVars, gateVars, queueVars, planVars, runVars,
    historyVars
<1>3. CASE ReopenAncestors
  BY <1>3 DEF ReopenAncestors, ReopenAbove, FINISHED, Finished, dbVars, fileVars, gateVars,
    queueVars, planVars, runVars, historyVars
<1>4. CASE ScanDone
  BY <1>4 DEF ScanDone, dbVars, fileVars, gateVars, queueVars, planVars, runVars, historyVars
<1>5. CASE PickNone
  BY <1>5 DEF PickNone, Forget, LeaveNode, dbVars, fileVars, gateVars, queueVars, planVars,
    runVars, historyVars
<1>6. CASE EpisodeFinishes
  BY <1>6 DEF EpisodeFinishes, AttemptCounted, Pointers, Working, LeaveNode, dbVars, fileVars,
    gateVars, queueVars, planVars, runVars, historyVars
<1>7. CASE EpisodeRunsOut
  BY <1>7 DEF EpisodeRunsOut, Pointers, Working, dbVars, fileVars, gateVars, queueVars, planVars,
    runVars, historyVars
<1>8. CASE EpisodeStopped
  BY <1>8 DEF EpisodeStopped, LeaveNode, dbVars, fileVars, gateVars, queueVars, planVars, runVars,
    historyVars
<1>9. CASE WrapUpEnds
  BY <1>9 DEF WrapUpEnds, LeaveNode, dbVars, fileVars, gateVars, queueVars, planVars, runVars,
    historyVars
<1>10. CASE GateOpens
  BY <1>10 DEF GateOpens, dbVars, fileVars, gateVars, queueVars, planVars, runVars, historyVars
<1>11. CASE ProofPasses
  BY <1>11 DEF ProofPasses, dbVars, fileVars, gateVars, queueVars, planVars, runVars, historyVars
<1>12. CASE CasesCompared
  <2>1. current \in Node
    BY <1>12 DEF CasesCompared, Pointers, Working
  <2>2. disturbed' \subseteq Node /\ touched' \in BOOLEAN /\ compared' \in [Node -> Content]
    BY <1>12, <2>1 DEF CasesCompared
  <2> QED
    BY <1>12, <2>2 DEF CasesCompared, dbVars, fileVars, gateVars, queueVars, planVars, runVars
<1>13. CASE GateRefuses
  BY <1>13 DEF GateRefuses, dbVars, fileVars, gateVars, queueVars, planVars, runVars, historyVars
<1>14. CASE FinishLeaf
  BY <1>14 DEF FinishLeaf, dbVars, fileVars, gateVars, queueVars, planVars, runVars, historyVars
<1>15. CASE CannotSplit
  BY <1>15 DEF CannotSplit, Skip, LeaveNode, dbVars, fileVars, gateVars, queueVars, planVars,
    runVars, historyVars
<1>16. CASE SendBack
  BY <1>16 DEF SendBack, Pointers, Working, dbVars, fileVars, gateVars, queueVars, planVars,
    runVars, historyVars
<1>17. CASE NothingAdded
  BY <1>17 DEF NothingAdded, Skip, LeaveNode, dbVars, fileVars, gateVars, queueVars, planVars,
    runVars, historyVars
<1>18. CASE PartsAdded
  BY <1>18 DEF PartsAdded, LeaveNode, dbVars, fileVars, gateVars, queueVars, planVars, runVars,
    historyVars
<1>19. CASE ReplanSplitEnds
  BY <1>19 DEF ReplanSplitEnds, planUnchanged, dbVars, fileVars, gateVars, queueVars, planVars,
    runVars, historyVars
<1>20. CASE ReplanSplitStopped
  BY <1>20 DEF ReplanSplitStopped, planUnchanged, dbVars, fileVars, gateVars, queueVars, planVars,
    runVars, historyVars
<1>21. CASE ReplanReturns
  BY <1>21 DEF ReplanReturns, planUnchanged, dbVars, fileVars, gateVars, queueVars, planVars,
    runVars, historyVars
<1>22. CASE RestoreEvidence
  <2>1. touched' \in BOOLEAN
    BY <1>22 DEF RestoreEvidence, Touch
  <2> QED
    BY <1>22, <2>1 DEF RestoreEvidence, dbVars, gateVars, queueVars, planVars, runVars
<1>23. CASE Stop
  BY <1>23 DEF Stop, dbVars, fileVars, gateVars, queueVars, planVars, runVars, historyVars
<1>24. CASE \E n \in nodes : Unchanged(n)
  BY <1>24 DEF Unchanged, dbVars, fileVars, gateVars, queueVars, planVars, runVars, historyVars
<1>25. CASE \E n \in nodes : Requeue(n)
  BY <1>25 DEF Requeue, dbVars, fileVars, gateVars, queueVars, planVars, runVars, historyVars
<1>26. CASE \E n \in nodes : PickOverflow(n)
  BY <1>26 DEF PickOverflow, dbVars, fileVars, gateVars, queueVars, planVars, runVars, historyVars
<1>27. CASE \E n \in nodes : PickWork(n)
  <2>1. PICK n \in nodes : PickWork(n)
    BY <1>27
  <2>2. n \in Node /\ evidence[n] \in Content /\ attempt_count[n] + 1 \in 0 .. MaxAttempts
    BY <2>1 DEF PickWork
  <2>3. attempt_count' \in [Node -> 0 .. MaxAttempts]
    BY <2>1, <2>2 DEF PickWork
  <2>. QED
    BY <2>1, <2>2, <2>3 DEF PickWork, fileVars, planVars, runVars, historyVars
<1>28. CASE \E b \in nodes : Defer(b)
  BY <1>28 DEF Defer, Pointers, Working, Todo, DevNodes, dbVars, fileVars, gateVars, queueVars,
    planVars, runVars, historyVars
<1>29. CASE \E n \in nodes : ReplanRewrite(n)
  BY <1>29 DEF ReplanRewrite, planUnchanged, dbVars, fileVars, gateVars, queueVars, planVars,
    runVars, historyVars
<1>30. CASE \E n \in nodes : ReplanKeep(n)
  BY <1>30 DEF ReplanKeep, planUnchanged, dbVars, fileVars, gateVars, queueVars, planVars, runVars,
    historyVars
<1>31. CASE \E n \in nodes : ReplanBreakdown(n)
  BY <1>31 DEF ReplanBreakdown, planUnchanged, dbVars, fileVars, gateVars, queueVars, planVars,
    runVars, historyVars
<1>32. CASE \E n \in Cased : EditEvidence(n)
  <2>1. PICK n \in Cased : EditEvidence(n)
    BY <1>32
  <2>2. touched' \in BOOLEAN
    BY <2>1 DEF EditEvidence, Touch
  <2>3. edits' \in 0 .. MaxEdits
    BY <2>1 DEF EditEvidence
  <2>4. evidence' \in [Node -> Content]
    BY <2>1 DEF EditEvidence
  <2> QED
    BY <2>1, <2>2, <2>3, <2>4 DEF EditEvidence, dbVars, gateVars, queueVars, planVars, runVars
<1>33. CASE \E n \in nodes, verdict \in {"breakdown", "redo", "good"} : ReplanJudge(n, verdict)
  BY <1>33 DEF ReplanJudge, planUnchanged, dbVars, fileVars, gateVars, queueVars, planVars,
    runVars, historyVars
<1>34. CASE \E m \in Node, deps \in SUBSET nodes : ReplanAdd(m, deps)
  BY <1>34 DEF ReplanAdd, dbVars, fileVars, gateVars, queueVars, planVars, runVars, historyVars
<1>35. CASE UNCHANGED vars
  BY <1>35 DEF vars
<1>36. QED
  BY <1>1, <1>2, <1>3, <1>4, <1>5, <1>6, <1>7, <1>8, <1>9, <1>10, <1>11, <1>12, <1>13, <1>14,
    <1>15, <1>16, <1>17, <1>18, <1>19, <1>20, <1>21, <1>22, <1>23, <1>24, <1>25, <1>26, <1>27,
      <1>28, <1>29, <1>30, <1>31, <1>32, <1>33, <1>34, <1>35 DEF Next, Step, Loop, EpisodeEnds,
        Gate, SplitStep, ReplanStep, Edit, Over

---------------------------------------------------------------------------
(* The shape of the tree.                                                  *)

\* The nodes above a row are rows, older than it, and closed upwards.
LEMMA AncestorsFacts ==
  ASSUME TreeTypeOK, WellFormed, NEW n \in nodes
  PROVE  /\ Ancestors(n) \subseteq nodes
         /\ \A a \in Ancestors(n) : a < n
         /\ parent[n] # Root => parent[n] \in Ancestors(n)
         /\ \A a \in Ancestors(n) : parent[a] \in Ancestors(n) \cup {Root}
<1> USE MaxNodeAssumption DEF Node, Root
<1> DEFINE u1 == Up(n)  u2 == Up(u1)  u3 == Up(u2)  u4 == Up(u3)
<1>1. \A x \in nodes : Up(x) = Root \/ (Up(x) \in nodes /\ Up(x) < x)
  BY DEF WellFormed, Up, TreeTypeOK
<1>2. Up(Root) = Root /\ Root \notin nodes
  BY DEF Up, TreeTypeOK
<1>3. Up(u4) = Root
  BY DEF WellFormed
<1>4. \A x \in nodes : x \in Nat /\ Up(x) = parent[x]
  BY DEF Up, TreeTypeOK
<1>5. Ancestors(n) = {u1, u2, u3, u4} \ {Root}
  BY DEF Ancestors
<1> HIDE DEF u1, u2, u3, u4
<1>6. u1 = Up(n) /\ u2 = Up(u1) /\ u3 = Up(u2) /\ u4 = Up(u3)
  BY DEF u1, u2, u3, u4
<1>7. /\ u1 = Root \/ (u1 \in nodes /\ u1 < n)
      /\ u2 = Root \/ (u2 \in nodes /\ u2 < n)
      /\ u3 = Root \/ (u3 \in nodes /\ u3 < n)
      /\ u4 = Root \/ (u4 \in nodes /\ u4 < n)
  BY <1>1, <1>2, <1>4, <1>6
<1>8. \A a \in Ancestors(n) : parent[a] \in Ancestors(n) \cup {Root}
  BY <1>3, <1>4, <1>5, <1>6, <1>7
<1>9. QED
  BY <1>4, <1>5, <1>6, <1>7, <1>8

\* An element more.
LEMMA OneMore ==
  ASSUME NEW S, IsFiniteSet(S), NEW x, x \notin S, NEW n \in Nat, Cardinality(S) = n
  PROVE  IsFiniteSet(S \cup {x}) /\ Cardinality(S \cup {x}) = n + 1
BY FS_AddElement

\* add_node's depth check is enough to keep every path within five levels.
LEMMA AddKeepsShape ==
  ASSUME TypeOK, WellFormed, Pointers, NEW m \in Node, NEW deps, ReplanAdd(m, deps)
  PROVE  WellFormed'
<1> DEFINE s == splitting
<1>1. s \in nodes /\ s < m /\ m \notin nodes
  BY DEF ReplanAdd, Pointers
<1>2. \A x \in nodes : Up(x)' = Up(x)
  BY <1>1 DEF Up, ReplanAdd, TypeOK, TreeTypeOK, Root, Node
<1>3. Up(Root)' = Root /\ Up(Root) = Root /\ Up(m)' = s
  BY DEF Up, ReplanAdd, TypeOK, TreeTypeOK, Root, Node
<1>4. \A x \in nodes : Up(x) = parent[x] /\ (Up(x) = Root \/ (Up(x) \in nodes /\ Up(x) < x))
  BY DEF WellFormed, Up, TypeOK, TreeTypeOK, Root, Node
<1>5. Up(Up(Up(Up(s)))) = Root
  <2> DEFINE u1 == Up(s)  u2 == Up(u1)  u3 == Up(u2)  u4 == Up(u3)
  <2>1. SUFFICES ASSUME u4 # Root PROVE FALSE
    OBVIOUS
  <2>2. u4 = Up(u3) /\ u3 = Up(u2) /\ u2 = Up(u1) /\ u1 = Up(s)
    OBVIOUS
  <2> HIDE DEF u1, u2, u3, u4
  <2>3. u1 \in nodes /\ u2 \in nodes /\ u3 \in nodes /\ u4 \in nodes
    BY <1>1, <1>3, <1>4, <2>1, <2>2
  <2>4. u4 < u3 /\ u3 < u2 /\ u2 < u1 /\ u1 \in Nat /\ u2 \in Nat /\ u3 \in Nat /\ u4 \in Nat
    <3>1. \A x \in nodes : x \in Nat
      BY MaxNodeAssumption DEF TypeOK, TreeTypeOK, Node
    <3>2. u1 # Root /\ u2 # Root /\ u3 # Root
      BY <1>3, <2>1, <2>2
    <3>3. QED
      BY <1>4, <2>1, <2>2, <2>3, <3>1, <3>2
  <2>5. Ancestors(s) = {u1, u2, u3, u4}
    BY <2>1, <2>2, <2>4 DEF Ancestors, Root
  <2>6. Cardinality({u1, u2, u3, u4}) = 4
    <3>1. Cardinality({u4}) = 1 /\ IsFiniteSet({u4})
      BY FS_Singleton
    <3>2. u3 \notin {u4} /\ u2 \notin {u4} \cup {u3} /\ u1 \notin ({u4} \cup {u3}) \cup {u2}
      BY <2>4
    <3>3. Cardinality({u4} \cup {u3}) = 1 + 1 /\ IsFiniteSet({u4} \cup {u3})
      BY <3>1, <3>2, OneMore
    <3>4. /\ Cardinality(({u4} \cup {u3}) \cup {u2}) = 2 + 1
          /\ IsFiniteSet(({u4} \cup {u3}) \cup {u2})
      BY <3>2, <3>3, OneMore
    <3>5. Cardinality((({u4} \cup {u3}) \cup {u2}) \cup {u1}) = 3 + 1
      BY <3>2, <3>4, OneMore
    <3>6. (({u4} \cup {u3}) \cup {u2}) \cup {u1} = {u1, u2, u3, u4}
      OBVIOUS
    <3>7. QED
      BY <3>5, <3>6
  <2>7. QED
    BY <2>5, <2>6, MaxDepthAssumption DEF ReplanAdd, Depth
<1>6. \A x \in nodes : (Up(Up(Up(Up(Up(x))))))' = Root
  BY <1>2, <1>3, <1>4 DEF WellFormed
<1>7. (Up(Up(Up(Up(Up(m))))))' = Root
  BY <1>1, <1>2, <1>3, <1>4, <1>5
<1>8. \A x \in nodes : parent'[x] = parent[x]
  BY <1>1 DEF ReplanAdd
<1>9. parent'[m] = s /\ nodes' = nodes \cup {m}
  BY DEF ReplanAdd, TypeOK, TreeTypeOK
<1>10. QED
  BY <1>1, <1>4, <1>6, <1>7, <1>8, <1>9 DEF WellFormed

---------------------------------------------------------------------------
(* What the queue hands out.                                               *)

\* next_leaf hands out an unfinished node none of whose parts is in the
\* queue, also when a cycle leaves it no ready node: post order.
LEMMA NextLeafFacts ==
  ASSUME TreeTypeOK, WellFormed, NEW n \in nodes, IsNextLeaf(n, deferred)
  PROVE  n \in Todo /\ \A c \in Children(n) : c \notin Todo
<1>1. n \in Todo
  BY DEF IsNextLeaf, FirstIn, ReadyNodes
<1>2. SUFFICES ASSUME NEW c \in Children(n), c \in Todo PROVE FALSE
  BY <1>1
<1>3. c \in nodes /\ parent[c] = n /\ n < c /\ n # Root /\ n \in Nat /\ c \in Nat
  BY MaxNodeAssumption DEF Children, WellFormed, TreeTypeOK, Node, Root
<1>4. n \in Ancestors(c) /\ c \notin Ancestors(n) /\ c # n
  BY <1>3, AncestorsFacts
<1>5. CASE FirstIn(n, Todo)
  BY <1>2, <1>4, <1>5 DEF FirstIn, Before
<1>6. CASE FirstIn(n, ReadyNodes(deferred))
  <2>1. Blockers(n) \cap Todo = {}
    BY <1>6 DEF FirstIn, ReadyNodes, Ready
  <2>2. c \in Blockers(n)
    BY <1>3, <1>4 DEF Blockers, Under
  <2>3. QED
    BY <1>2, <2>1, <2>2
<1>7. QED
  BY <1>5, <1>6 DEF IsNextLeaf

---------------------------------------------------------------------------
(* Each part of the invariant is kept by every step.                       *)

\* NULL is not the id of a row.
LEMMA RootIsNoNode == TreeTypeOK => Root \notin nodes /\ Root \notin Node
BY DEF TreeTypeOK, Node, Root

\* The tree keeps its shape.
LEMMA ShapeStep ==
  ASSUME TypeOK, WellFormed, Pointers, [Next]_vars
  PROVE  WellFormed'
<1> USE DEF WellFormed, Up
<1>1. CASE
       \/ StopAtTop
       \/ BeginScan
       \/ ReopenAncestors
       \/ ScanDone
       \/ PickNone
       \/ EpisodeFinishes
       \/ EpisodeRunsOut
       \/ EpisodeStopped
       \/ WrapUpEnds
       \/ GateOpens
       \/ ProofPasses
       \/ CasesCompared
       \/ GateRefuses
       \/ FinishLeaf
       \/ CannotSplit
       \/ SendBack
       \/ NothingAdded
       \/ PartsAdded
       \/ ReplanSplitEnds
       \/ ReplanSplitStopped
       \/ ReplanReturns
       \/ RestoreEvidence
       \/ Stop
       \/ (\E n \in nodes : Unchanged(n))
       \/ (\E n \in nodes : Requeue(n))
       \/ (\E n \in nodes : PickOverflow(n))
       \/ (\E n \in nodes : PickWork(n))
       \/ (\E b \in nodes : Defer(b))
       \/ (\E n \in nodes : ReplanRewrite(n))
       \/ (\E n \in nodes : ReplanKeep(n))
       \/ (\E n \in nodes : ReplanBreakdown(n))
       \/ (\E n \in Cased : EditEvidence(n))
       \/ (\E n \in nodes, verdict \in {"breakdown", "redo", "good"} : ReplanJudge(n, verdict))
       \/ UNCHANGED vars
  BY <1>1 DEF StopAtTop, BeginScan, ReopenAncestors, ScanDone, PickNone, EpisodeFinishes,
    EpisodeRunsOut, EpisodeStopped, WrapUpEnds, GateOpens, ProofPasses, CasesCompared, GateRefuses,
    FinishLeaf, CannotSplit, SendBack, NothingAdded, PartsAdded, ReplanSplitEnds,
    ReplanSplitStopped, ReplanReturns, RestoreEvidence, Stop, Unchanged, Requeue, PickOverflow,
    PickWork, Defer, ReplanRewrite, ReplanKeep, ReplanBreakdown, EditEvidence, ReplanJudge, vars,
    Forget, LeaveNode, Skip, planUnchanged, dbVars, fileVars, gateVars, queueVars, planVars,
      runVars, historyVars
<1>2. CASE (\E m \in Node, deps \in SUBSET nodes : ReplanAdd(m, deps))
  BY <1>2, AddKeepsShape
<1>3. QED
  BY <1>1, <1>2 DEF Next, Step, Loop, EpisodeEnds, Gate, SplitStep, ReplanStep, Edit, Over

\* The run only holds rows.
LEMMA PointersStep ==
  ASSUME TypeOK, Pointers, [Next]_vars
  PROVE  Pointers'
<1> USE DEF Pointers, Working, Replanning, TypeOK, TreeTypeOK, NoNode, Root
<1>1. CASE
       \/ StopAtTop
       \/ ScanDone
       \/ PickNone
       \/ EpisodeFinishes
       \/ EpisodeRunsOut
       \/ EpisodeStopped
       \/ WrapUpEnds
       \/ GateOpens
       \/ ProofPasses
       \/ CasesCompared
       \/ GateRefuses
       \/ PartsAdded
       \/ RestoreEvidence
       \/ Stop
       \/ (\E n \in nodes : Unchanged(n))
       \/ (\E b \in nodes : Defer(b))
       \/ (\E n \in Cased : EditEvidence(n))
       \/ UNCHANGED vars
  BY <1>1 DEF StopAtTop, ScanDone, PickNone, EpisodeFinishes, EpisodeRunsOut, EpisodeStopped,
    WrapUpEnds, GateOpens, ProofPasses, CasesCompared, GateRefuses, PartsAdded, RestoreEvidence,
    Stop, Unchanged, Defer, EditEvidence, vars, Forget, LeaveNode, dbVars, fileVars, gateVars,
    queueVars, planVars, runVars, historyVars
<1>2. CASE ReopenAncestors
  BY <1>2 DEF ReopenAncestors, dbVars, fileVars, gateVars, queueVars, planVars, runVars,
    historyVars, ReopenAbove
<1>3. CASE (\E m \in Node, deps \in SUBSET nodes : ReplanAdd(m, deps))
  BY <1>3 DEF ReplanAdd, dbVars, fileVars, gateVars, queueVars, planVars, runVars, historyVars
<1>4. CASE
       \/ (\E n \in nodes : PickOverflow(n))
       \/ (\E n \in nodes : PickWork(n))
  BY <1>4 DEF PickOverflow, PickWork, dbVars, fileVars, gateVars, queueVars, planVars, runVars,
    historyVars
<1>5. CASE BeginScan
  BY <1>5 DEF BeginScan, dbVars, fileVars, gateVars, queueVars, planVars, runVars, historyVars,
    DevNodes
<1>6. CASE
       \/ FinishLeaf
       \/ CannotSplit
       \/ NothingAdded
       \/ (\E n \in nodes : Requeue(n))
  BY <1>6 DEF FinishLeaf, CannotSplit, NothingAdded, Requeue, LeaveNode, Skip, dbVars, fileVars,
    gateVars, queueVars, planVars, runVars, historyVars
<1>7. CASE
       \/ (\E n \in nodes : ReplanBreakdown(n))
       \/ (\E n \in nodes : ReplanRewrite(n))
  BY <1>7 DEF ReplanBreakdown, ReplanRewrite, planUnchanged, dbVars, fileVars, gateVars, queueVars,
    planVars, runVars, historyVars, Unsplit, Live, Deciding
<1>8. CASE
       \/ (\E n \in nodes, verdict \in {"breakdown", "redo", "good"} : ReplanJudge(n, verdict))
       \/ (\E n \in nodes : ReplanKeep(n))
       \/ ReplanSplitEnds
       \/ ReplanSplitStopped
       \/ ReplanReturns
       \/ SendBack
  BY <1>8 DEF ReplanJudge, ReplanKeep, ReplanSplitEnds, ReplanSplitStopped, ReplanReturns, SendBack,
    planUnchanged, dbVars, fileVars, gateVars, queueVars, planVars, runVars, historyVars, Deciding
<1>9. QED
  BY <1>1, <1>2, <1>3, <1>4, <1>5, <1>6, <1>7, <1>8 DEF Next, Step, Loop, EpisodeEnds, Gate,
    SplitStep, ReplanStep, Edit, Over

\* The attempt in hand stays counted.
LEMMA AttemptStep ==
  ASSUME TypeOK, Pointers, AttemptCounted, [Next]_vars
  PROVE  AttemptCounted'
<1> USE DEF AttemptCounted, Pointers, Working, Replanning, TypeOK, TreeTypeOK, NoNode, Root
<1>1. CASE
       \/ StopAtTop
       \/ PickNone
       \/ EpisodeFinishes
       \/ EpisodeStopped
       \/ CannotSplit
       \/ SendBack
       \/ NothingAdded
       \/ PartsAdded
       \/ (\E n \in nodes : PickOverflow(n))
  BY <1>1 DEF StopAtTop, PickNone, EpisodeFinishes, EpisodeStopped, CannotSplit, SendBack,
    NothingAdded, PartsAdded, PickOverflow, Forget, LeaveNode, Skip, dbVars, fileVars, gateVars,
    queueVars, planVars, runVars, historyVars
<1>2. CASE (\E n \in nodes : PickWork(n))
  BY <1>2 DEF PickWork, dbVars, fileVars, gateVars, queueVars, planVars, runVars, historyVars
<1>3. CASE
       \/ (\E n \in Cased : EditEvidence(n))
       \/ RestoreEvidence
       \/ Stop
       \/ UNCHANGED vars
       \/ EpisodeRunsOut
       \/ WrapUpEnds
       \/ GateOpens
  BY <1>3 DEF EditEvidence, RestoreEvidence, Stop, vars, EpisodeRunsOut, WrapUpEnds, GateOpens,
    LeaveNode, dbVars, fileVars, gateVars, queueVars, planVars, runVars, historyVars
<1>4. CASE
       \/ ProofPasses
       \/ CasesCompared
       \/ GateRefuses
       \/ FinishLeaf
       \/ (\E b \in nodes : Defer(b))
  BY <1>4 DEF ProofPasses, CasesCompared, GateRefuses, FinishLeaf, Defer, dbVars, fileVars,
    gateVars, queueVars, planVars, runVars, historyVars
<1>5. CASE
       \/ ReopenAncestors
       \/ (\E n \in nodes : Requeue(n))
       \/ BeginScan
       \/ (\E n \in nodes : Unchanged(n))
       \/ ScanDone
  BY <1>5 DEF ReopenAncestors, Requeue, BeginScan, Unchanged, ScanDone, dbVars, fileVars, gateVars,
    queueVars, planVars, runVars, historyVars
<1>6. CASE
       \/ (\E n \in nodes, verdict \in {"breakdown", "redo", "good"} : ReplanJudge(n, verdict))
       \/ (\E m \in Node, deps \in SUBSET nodes : ReplanAdd(m, deps))
       \/ (\E n \in nodes : ReplanKeep(n))
       \/ (\E n \in nodes : ReplanRewrite(n))
       \/ (\E n \in nodes : ReplanBreakdown(n))
  BY <1>6 DEF ReplanJudge, ReplanAdd, ReplanKeep, ReplanRewrite, ReplanBreakdown, planUnchanged,
    dbVars, fileVars, gateVars, queueVars, planVars, runVars, historyVars, Deciding
<1>7. CASE
       \/ ReplanReturns
       \/ ReplanSplitEnds
       \/ ReplanSplitStopped
  BY <1>7 DEF ReplanReturns, ReplanSplitEnds, ReplanSplitStopped, planUnchanged, dbVars, fileVars,
    gateVars, queueVars, planVars, runVars, historyVars, Deciding
<1>8. QED
  BY <1>1, <1>2, <1>3, <1>4, <1>5, <1>6, <1>7 DEF Next, Step, Loop, EpisodeEnds, Gate, SplitStep,
    ReplanStep, Edit, Over

\* A node in hand keeps all of its parts finished.
LEMMA PartsStep ==
  ASSUME TypeOK, WellFormed, Pointers, PartsFinished, SettledInv, [Next]_vars
  PROVE  PartsFinished'
<1> USE DEF PartsFinished, Pointers, Working, Replanning, Children, Finished, FINISHED
<1>1. CASE
       \/ StopAtTop
       \/ PickNone
       \/ EpisodeFinishes
       \/ EpisodeStopped
       \/ CannotSplit
       \/ SendBack
       \/ NothingAdded
       \/ PartsAdded
  BY <1>1 DEF StopAtTop, PickNone, EpisodeFinishes, EpisodeStopped, CannotSplit, SendBack,
    NothingAdded, PartsAdded, Forget, LeaveNode, Skip, dbVars, fileVars, gateVars, queueVars,
    planVars, runVars, historyVars
<1>2. CASE
       \/ (\E n \in nodes : PickOverflow(n))
       \/ (\E n \in nodes : PickWork(n))
  <2>1. PICK n \in nodes : PickOverflow(n) \/ PickWork(n)
    BY <1>2
  <2>2. /\ pc = "pick" /\ IsNextLeaf(n, deferred) /\ current' = n
        /\ UNCHANGED <<nodes, parent, paused, status>>
    BY <2>1 DEF PickOverflow, PickWork, dbVars
  <2>3. Settled
    BY <2>2 DEF SettledInv
  <2>4. \A c \in Children(n) : c \in nodes /\ c \notin Todo
    BY <2>2, NextLeafFacts DEF TypeOK, Children
  <2>5. \A c \in Children(n) : paused[c] \/ Finished(c)
    BY <2>3, <2>4 DEF Settled, Todo, DevNodes
  <2>6. QED
    BY <2>2, <2>5
<1>3. CASE
       \/ (\E n \in Cased : EditEvidence(n))
       \/ RestoreEvidence
       \/ Stop
       \/ UNCHANGED vars
       \/ EpisodeRunsOut
       \/ WrapUpEnds
       \/ GateOpens
  BY <1>3 DEF EditEvidence, RestoreEvidence, Stop, vars, EpisodeRunsOut, WrapUpEnds, GateOpens,
    LeaveNode, dbVars, fileVars, gateVars, queueVars, planVars, runVars, historyVars
<1>4. CASE
       \/ ProofPasses
       \/ CasesCompared
       \/ GateRefuses
       \/ FinishLeaf
       \/ (\E b \in nodes : Defer(b))
  BY <1>4 DEF ProofPasses, CasesCompared, GateRefuses, FinishLeaf, Defer, dbVars, fileVars,
    gateVars, queueVars, planVars, runVars, historyVars, TypeOK, TreeTypeOK, WellFormed
<1>5. CASE
       \/ ReopenAncestors
       \/ (\E n \in nodes : Requeue(n))
       \/ BeginScan
       \/ (\E n \in nodes : Unchanged(n))
       \/ ScanDone
  BY <1>5 DEF ReopenAncestors, Requeue, BeginScan, Unchanged, ScanDone, dbVars, fileVars, gateVars,
    queueVars, planVars, runVars, historyVars
<1>6. CASE
       \/ (\E n \in nodes, verdict \in {"breakdown", "redo", "good"} : ReplanJudge(n, verdict))
       \/ (\E m \in Node, deps \in SUBSET nodes : ReplanAdd(m, deps))
       \/ (\E n \in nodes : ReplanKeep(n))
       \/ (\E n \in nodes : ReplanRewrite(n))
       \/ (\E n \in nodes : ReplanBreakdown(n))
  BY <1>6 DEF ReplanJudge, ReplanAdd, ReplanKeep, ReplanRewrite, ReplanBreakdown, planUnchanged,
    dbVars, fileVars, gateVars, queueVars, planVars, runVars, historyVars, Deciding
<1>7. CASE
       \/ ReplanReturns
       \/ ReplanSplitEnds
       \/ ReplanSplitStopped
  BY <1>7 DEF ReplanReturns, ReplanSplitEnds, ReplanSplitStopped, planUnchanged, dbVars, fileVars,
    gateVars, queueVars, planVars, runVars, historyVars, Deciding
<1>8. QED
  BY <1>1, <1>2, <1>3, <1>4, <1>5, <1>6, <1>7 DEF Next, Step, Loop, EpisodeEnds, Gate, SplitStep,
    ReplanStep, Edit, Over

\* A planner run that was not stopped leaves every node settled.
LEMMA SettledStep ==
  ASSUME TypeOK, Pointers, SettledInv, VerdictInv, [Next]_vars
  PROVE  SettledInv'
<1> USE DEF SettledInv, Settled, Pointers, Working, Replanning
<1>1. CASE
       \/ StopAtTop
       \/ PickNone
       \/ EpisodeFinishes
       \/ EpisodeStopped
       \/ CannotSplit
       \/ NothingAdded
       \/ PartsAdded
       \/ (\E n \in nodes : PickOverflow(n))
       \/ (\E n \in nodes : PickWork(n))
  BY <1>1 DEF StopAtTop, PickNone, EpisodeFinishes, EpisodeStopped, CannotSplit, NothingAdded,
    PartsAdded, PickOverflow, PickWork, Forget, LeaveNode, Skip, dbVars, fileVars, gateVars,
    queueVars, planVars, runVars, historyVars
<1>2. CASE ReplanReturns
  <2>1. /\ pc = "replan" /\ pc' = "replanned" /\ splitting = NoNode
        /\ UNCHANGED <<nodes, parent, paused, status, stop>>
    BY <1>2 DEF ReplanReturns, Deciding, planUnchanged
  <2>2. SUFFICES ASSUME ~ stop, NEW n \in nodes, ~ paused[n]
                 PROVE  plan_status'[n] = "good"
    BY <2>1
  <2>3. n \in Node /\ n # NoNode /\ plan_status[n] \in PlanStatus
    BY RootIsNoNode DEF TypeOK, TreeTypeOK, NoNode
  <2>4. CASE episodes >= MaxPlannerEpisodes
    BY <1>2, <2>2, <2>3, <2>4, BoundsAssumption DEF ReplanReturns, TypeOK
  <2>5. CASE ~ (episodes >= MaxPlannerEpisodes)
    <3>1. ~ Unjudged(n) /\ ~ ToRedo(n) /\ ~ Unsplit(n) /\ plan_status' = plan_status
      BY <1>2, <2>2, <2>5 DEF ReplanReturns
    <3>2. plan_status[n] = "breakdown" => Children(n) = {}
      BY <2>1, <2>3 DEF VerdictInv
    <3>3. QED
      BY <2>2, <2>3, <3>1, <3>2
         DEF Unjudged, ToRedo, Unsplit, Live, VerdictInv, PlanStatus
  <2>6. QED
    BY <2>4, <2>5
<1>3. CASE
       \/ (\E n \in Cased : EditEvidence(n))
       \/ RestoreEvidence
       \/ Stop
       \/ UNCHANGED vars
       \/ EpisodeRunsOut
       \/ WrapUpEnds
       \/ GateOpens
  BY <1>3 DEF EditEvidence, RestoreEvidence, Stop, vars, EpisodeRunsOut, WrapUpEnds, GateOpens,
    LeaveNode, dbVars, fileVars, gateVars, queueVars, planVars, runVars, historyVars
<1>4. CASE
       \/ ProofPasses
       \/ CasesCompared
       \/ GateRefuses
       \/ FinishLeaf
       \/ (\E b \in nodes : Defer(b))
  BY <1>4 DEF ProofPasses, CasesCompared, GateRefuses, FinishLeaf, Defer, dbVars, fileVars,
    gateVars, queueVars, planVars, runVars, historyVars
<1>5. CASE
       \/ ReopenAncestors
       \/ (\E n \in nodes : Requeue(n))
       \/ BeginScan
       \/ (\E n \in nodes : Unchanged(n))
       \/ ScanDone
  BY <1>5 DEF ReopenAncestors, Requeue, BeginScan, Unchanged, ScanDone, dbVars, fileVars, gateVars,
    queueVars, planVars, runVars, historyVars
<1>6. CASE
       \/ (\E n \in nodes, verdict \in {"breakdown", "redo", "good"} : ReplanJudge(n, verdict))
       \/ (\E m \in Node, deps \in SUBSET nodes : ReplanAdd(m, deps))
       \/ (\E n \in nodes : ReplanKeep(n))
       \/ (\E n \in nodes : ReplanRewrite(n))
       \/ (\E n \in nodes : ReplanBreakdown(n))
  BY <1>6 DEF ReplanJudge, ReplanAdd, ReplanKeep, ReplanRewrite, ReplanBreakdown, planUnchanged,
    dbVars, fileVars, gateVars, queueVars, planVars, runVars, historyVars, Deciding
<1>7. CASE
       \/ ReplanSplitEnds
       \/ ReplanSplitStopped
       \/ SendBack
  BY <1>7 DEF ReplanSplitEnds, ReplanSplitStopped, SendBack, planUnchanged, dbVars, fileVars,
    gateVars, queueVars, planVars, runVars, historyVars, Deciding
<1>8. QED
  BY <1>1, <1>2, <1>3, <1>4, <1>5, <1>6, <1>7 DEF Next, Step, Loop, EpisodeEnds, Gate, SplitStep,
    ReplanStep, Edit, Over

\* A node that has parts leaves BREAKDOWN, and what is done keeps its GOOD.
LEMMA VerdictStep ==
  ASSUME TypeOK, WellFormed, Pointers, SettledInv, VerdictInv, [Next]_vars
  PROVE  VerdictInv'
<1> USE DEF VerdictInv, Pointers, Working, Replanning, Children, TypeOK, TreeTypeOK, NoNode, Root
<1>1. CASE
       \/ StopAtTop
       \/ PickNone
       \/ EpisodeFinishes
       \/ EpisodeStopped
       \/ PartsAdded
  BY <1>1 DEF StopAtTop, PickNone, EpisodeFinishes, EpisodeStopped, PartsAdded, Forget, LeaveNode,
    dbVars, fileVars, gateVars, queueVars, planVars, runVars, historyVars
<1>2. CASE (\E n \in nodes : PickOverflow(n))
  BY <1>2, NextLeafFacts DEF PickOverflow, dbVars, fileVars, gateVars, queueVars, planVars,
    runVars, historyVars,
    Todo, DevNodes, Finished, FINISHED
<1>3. CASE
       \/ (\E n \in nodes : PickWork(n))
       \/ (\E n \in Cased : EditEvidence(n))
       \/ RestoreEvidence
       \/ Stop
       \/ UNCHANGED vars
       \/ EpisodeRunsOut
       \/ WrapUpEnds
       \/ GateOpens
  BY <1>3 DEF PickWork, EditEvidence, RestoreEvidence, Stop, vars, EpisodeRunsOut, WrapUpEnds,
    GateOpens, LeaveNode, dbVars, fileVars, gateVars, queueVars, planVars, runVars, historyVars
<1>4. CASE
       \/ ProofPasses
       \/ CasesCompared
       \/ GateRefuses
       \/ (\E b \in nodes : Defer(b))
  BY <1>4 DEF ProofPasses, CasesCompared, GateRefuses, Defer, dbVars, fileVars, gateVars, queueVars,
    planVars, runVars, historyVars
<1>5. CASE FinishLeaf
  BY <1>5 DEF FinishLeaf, dbVars, fileVars, gateVars, queueVars, planVars, runVars, historyVars,
    SettledInv,
    Settled
<1>6. CASE
       \/ CannotSplit
       \/ NothingAdded
  BY <1>6 DEF CannotSplit, NothingAdded, LeaveNode, Skip, dbVars, fileVars, gateVars, queueVars,
    planVars, runVars, historyVars
<1>7. CASE SendBack
  BY <1>7 DEF SendBack, dbVars, fileVars, gateVars, queueVars, planVars, runVars, historyVars
<1>8. CASE ReopenAncestors
  BY <1>8 DEF ReopenAncestors, dbVars, fileVars, gateVars, queueVars, planVars, runVars,
    historyVars, ReopenAbove
<1>9. CASE
       \/ (\E n \in nodes : Requeue(n))
       \/ BeginScan
       \/ (\E n \in nodes : Unchanged(n))
       \/ ScanDone
  BY <1>9 DEF Requeue, BeginScan, Unchanged, ScanDone, dbVars, fileVars, gateVars, queueVars,
    planVars, runVars, historyVars
<1>10. CASE (\E n \in nodes, verdict \in {"breakdown", "redo", "good"} : ReplanJudge(n, verdict))
  BY <1>10 DEF ReplanJudge, planUnchanged, dbVars, fileVars, gateVars, queueVars, planVars,
    runVars, historyVars,
    Deciding, Unjudged, Live
<1>11. CASE (\E m \in Node, deps \in SUBSET nodes : ReplanAdd(m, deps))
  BY <1>11 DEF ReplanAdd, dbVars, fileVars, gateVars, queueVars, planVars, runVars, historyVars,
    WellFormed
<1>12. CASE (\E n \in nodes : ReplanKeep(n))
  BY <1>12 DEF ReplanKeep, planUnchanged, dbVars, fileVars, gateVars, queueVars, planVars, runVars,
    historyVars,
    Deciding, ToRedo, Live
<1>13. CASE (\E n \in nodes : ReplanRewrite(n))
  BY <1>13 DEF ReplanRewrite, planUnchanged, dbVars, fileVars, gateVars, queueVars, planVars,
    runVars, historyVars, Deciding, ToRedo, Live
<1>14. CASE (\E n \in nodes : ReplanBreakdown(n))
  BY <1>14, RootIsNoNode DEF ReplanBreakdown, planUnchanged, dbVars, fileVars, gateVars, queueVars,
    planVars, runVars, historyVars, Deciding, Unsplit, Live
<1>15. CASE ReplanReturns
  BY <1>15 DEF ReplanReturns, planUnchanged, dbVars, fileVars, gateVars, queueVars, planVars,
    runVars, historyVars, Deciding
<1>16. CASE ReplanSplitEnds
  BY <1>16 DEF ReplanSplitEnds, planUnchanged, dbVars, fileVars, gateVars, queueVars, planVars,
    runVars, historyVars
<1>17. CASE ReplanSplitStopped
  BY <1>17 DEF ReplanSplitStopped, planUnchanged, dbVars, fileVars, gateVars, queueVars, planVars,
    runVars, historyVars
<1>18. QED
  BY <1>1, <1>2, <1>3, <1>4, <1>5, <1>6, <1>7, <1>8, <1>9, <1>10, <1>11, <1>12, <1>13, <1>14, <1>15,
    <1>16, <1>17 DEF Next, Step, Loop, EpisodeEnds, Gate, SplitStep, ReplanStep, Edit, Over

\* No step leaves a finished parent over an unfinished part.
LEMMA ParentLastStep ==
  ASSUME TypeOK, WellFormed, Pointers, PartsFinished, ParentLast, [Next]_vars
  PROVE  ParentLast'
<1> USE DEF ParentLast, Pointers, Working, Replanning, Children, Finished, FINISHED, TypeOK,
  TreeTypeOK, NoNode, Root
<1>1. CASE
       \/ BeginScan
       \/ ScanDone
       \/ ProofPasses
       \/ CasesCompared
       \/ GateRefuses
       \/ SendBack
       \/ PartsAdded
       \/ (\E n \in nodes : Unchanged(n))
       \/ (\E n \in nodes : PickOverflow(n))
       \/ (\E b \in nodes : Defer(b))
  BY <1>1 DEF BeginScan, ScanDone, ProofPasses, CasesCompared, GateRefuses, SendBack, PartsAdded,
    Unchanged, PickOverflow, Defer, LeaveNode, dbVars, fileVars, gateVars, queueVars, planVars,
    runVars, historyVars
<1>2. CASE
       \/ FinishLeaf
       \/ CannotSplit
  BY <1>2 DEF FinishLeaf, CannotSplit, LeaveNode, Skip, dbVars, fileVars, gateVars, queueVars,
    planVars, runVars, historyVars, PartsFinished, WellFormed
<1>3. CASE NothingAdded
  BY <1>3 DEF NothingAdded, LeaveNode, Skip, dbVars, fileVars, gateVars, queueVars, planVars,
    runVars, historyVars
<1>4. CASE ReopenAncestors
  BY <1>4, AncestorsFacts DEF ReopenAncestors, dbVars, fileVars, gateVars, queueVars, planVars,
    runVars, historyVars, ReopenAbove
<1>5. CASE (\E n \in nodes : Requeue(n))
  <2>1. PICK n \in nodes : Requeue(n)
    BY <1>5
  <2>2. /\ reopening = NoNode /\ reopening' = n /\ status' = [status EXCEPT ![n] = "todo"]
        /\ UNCHANGED <<nodes, parent, paused>>
    BY <2>1 DEF Requeue
  <2>3. QED
    BY <2>2, RootIsNoNode DEF WellFormed
<1>6. CASE (\E m \in Node, deps \in SUBSET nodes : ReplanAdd(m, deps))
  <2>1. PICK m \in Node, deps \in SUBSET nodes : ReplanAdd(m, deps)
    BY <1>6
  <2>2. /\ m \notin nodes /\ reopening = NoNode /\ reopening' = m /\ nodes' = nodes \cup {m}
        /\ status' = [status EXCEPT ![m] = "todo"] /\ paused' = [paused EXCEPT ![m] = FALSE]
        /\ parent' = [parent EXCEPT ![m] = splitting]
    BY <2>1 DEF ReplanAdd
  <2>3. QED
    BY <2>2, RootIsNoNode DEF WellFormed
<1>7. CASE (\E n \in nodes : ReplanRewrite(n))
  <2>1. PICK n \in nodes : ReplanRewrite(n)
    BY <1>7
  <2>2. /\ reopening = NoNode /\ reopening' = n /\ status' = [status EXCEPT ![n] = "todo"]
        /\ UNCHANGED <<nodes, parent, paused>>
    BY <2>1 DEF ReplanRewrite, Deciding, planUnchanged
  <2>3. QED
    BY <2>2, RootIsNoNode DEF WellFormed
<1>8. CASE
       \/ (\E n \in nodes : PickWork(n))
       \/ (\E n \in Cased : EditEvidence(n))
       \/ RestoreEvidence
       \/ Stop
       \/ UNCHANGED vars
       \/ EpisodeRunsOut
       \/ WrapUpEnds
       \/ GateOpens
  BY <1>8 DEF PickWork, EditEvidence, RestoreEvidence, Stop, vars, EpisodeRunsOut, WrapUpEnds,
    GateOpens, LeaveNode, dbVars, fileVars, gateVars, queueVars, planVars, runVars, historyVars
<1>9. CASE
       \/ StopAtTop
       \/ PickNone
       \/ EpisodeFinishes
       \/ EpisodeStopped
  BY <1>9 DEF StopAtTop, PickNone, EpisodeFinishes, EpisodeStopped, Forget, LeaveNode, dbVars,
    fileVars, gateVars, queueVars, planVars, runVars, historyVars
<1>10. CASE
       \/ (\E n \in nodes, verdict \in {"breakdown", "redo", "good"} : ReplanJudge(n, verdict))
       \/ (\E n \in nodes : ReplanKeep(n))
       \/ (\E n \in nodes : ReplanBreakdown(n))
  BY <1>10 DEF ReplanJudge, ReplanKeep, ReplanBreakdown, planUnchanged, dbVars, fileVars, gateVars,
    queueVars, planVars, runVars, historyVars, Deciding
<1>11. CASE
       \/ ReplanReturns
       \/ ReplanSplitEnds
       \/ ReplanSplitStopped
  BY <1>11 DEF ReplanReturns, ReplanSplitEnds, ReplanSplitStopped, planUnchanged, dbVars, fileVars,
    gateVars, queueVars, planVars, runVars, historyVars, Deciding
<1>12. QED
  BY <1>1, <1>2, <1>3, <1>4, <1>5, <1>6, <1>7, <1>8, <1>9, <1>10, <1>11 DEF Next, Step, Loop,
    EpisodeEnds, Gate, SplitStep, ReplanStep, Edit, Over

\* Success is reported over finished nodes only, and is the end.
LEMMA CompleteStep ==
  ASSUME Pointers, SettledInv, CompleteInv, [Next]_vars
  PROVE  CompleteInv'
<1> USE DEF CompleteInv, NothingLost, Pointers, Finished, FINISHED
<1>1. CASE
       \/ StopAtTop
       \/ BeginScan
       \/ ReopenAncestors
       \/ ScanDone
       \/ EpisodeFinishes
       \/ EpisodeRunsOut
       \/ EpisodeStopped
       \/ WrapUpEnds
       \/ GateOpens
       \/ ProofPasses
       \/ CasesCompared
       \/ GateRefuses
       \/ FinishLeaf
       \/ CannotSplit
       \/ SendBack
       \/ NothingAdded
       \/ PartsAdded
       \/ (\E n \in nodes : Unchanged(n))
       \/ (\E n \in nodes : Requeue(n))
       \/ (\E n \in nodes : PickOverflow(n))
       \/ (\E n \in nodes : PickWork(n))
       \/ (\E b \in nodes : Defer(b))
  BY <1>1 DEF StopAtTop, BeginScan, ReopenAncestors, ScanDone, EpisodeFinishes, EpisodeRunsOut,
    EpisodeStopped, WrapUpEnds, GateOpens, ProofPasses, CasesCompared, GateRefuses, FinishLeaf,
    CannotSplit, SendBack, NothingAdded, PartsAdded, Unchanged, Requeue, PickOverflow, PickWork,
    Defer, Forget, LeaveNode, Skip, dbVars, fileVars, gateVars, queueVars, planVars, runVars,
      historyVars
<1>2. CASE PickNone
  BY <1>2 DEF PickNone, Forget, LeaveNode, dbVars, fileVars, gateVars, queueVars, planVars,
    runVars, historyVars,
    Todo, DevNodes, SettledInv, Settled
<1>3. CASE
       \/ (\E n \in Cased : EditEvidence(n))
       \/ RestoreEvidence
       \/ Stop
       \/ UNCHANGED vars
  BY <1>3 DEF EditEvidence, RestoreEvidence, Stop, vars, dbVars, fileVars, gateVars, queueVars,
    planVars, runVars, historyVars
<1>4. CASE
       \/ (\E n \in nodes, verdict \in {"breakdown", "redo", "good"} : ReplanJudge(n, verdict))
       \/ (\E m \in Node, deps \in SUBSET nodes : ReplanAdd(m, deps))
       \/ (\E n \in nodes : ReplanKeep(n))
       \/ (\E n \in nodes : ReplanRewrite(n))
       \/ (\E n \in nodes : ReplanBreakdown(n))
  BY <1>4 DEF ReplanJudge, ReplanAdd, ReplanKeep, ReplanRewrite, ReplanBreakdown, planUnchanged,
    dbVars, fileVars, gateVars, queueVars, planVars, runVars, historyVars, Deciding
<1>5. CASE
       \/ ReplanReturns
       \/ ReplanSplitEnds
       \/ ReplanSplitStopped
  BY <1>5 DEF ReplanReturns, ReplanSplitEnds, ReplanSplitStopped, planUnchanged, dbVars, fileVars,
    gateVars, queueVars, planVars, runVars, historyVars, Deciding
<1>6. QED
  BY <1>1, <1>2, <1>3, <1>4, <1>5 DEF Next, Step, Loop, EpisodeEnds, Gate, SplitStep, ReplanStep,
    Edit, Over

\* The recorded hash stays backed by a comparison.
LEMMA EvidenceStep ==
  ASSUME TypeOK, Pointers, EvidenceInv, [Next]_vars
  PROVE  EvidenceInv'
<1> USE DEF EvidenceInv, VouchedFor, AtGate, Pointers, Working, Replanning, TypeOK, TreeTypeOK,
  Content, NoNode, Root, NoHash
<1>1. CASE
       \/ BeginScan
       \/ ScanDone
       \/ SendBack
       \/ PartsAdded
       \/ Stop
       \/ (\E n \in nodes : Unchanged(n))
       \/ UNCHANGED vars
  BY <1>1 DEF BeginScan, ScanDone, SendBack, PartsAdded, Stop, Unchanged, vars, LeaveNode, dbVars,
    fileVars, gateVars, queueVars, planVars, runVars, historyVars
<1>2. CASE (\E n \in Cased : EditEvidence(n)) \/ RestoreEvidence
  <2>1. PICK n \in Node : /\ \E c : evidence' = [evidence EXCEPT ![n] = c]
                          /\ Touch(n)
    BY <1>2, BoundsAssumption DEF EditEvidence, RestoreEvidence
  <2>2. UNCHANGED <<nodes, status, evidence_hash, pc, current, startHash, accepted, compared,
    disturbed>>
    BY <1>2 DEF EditEvidence, RestoreEvidence, dbVars, gateVars
  <2>3. VouchedFor'
    BY <2>2
  <2>4. pc \in {"gate", "compare"} /\ current \in Cased /\ ~ touched'
          => evidence'[current] = startHash
    BY <2>1, BoundsAssumption DEF Touch
  <2> QED
    BY <2>2, <2>3, <2>4
<1>4. CASE
       \/ GateOpens
       \/ ProofPasses
       \/ GateRefuses
  BY <1>4 DEF GateOpens, ProofPasses, GateRefuses, dbVars, fileVars, gateVars, queueVars, planVars,
    runVars, historyVars
<1>5. CASE CasesCompared
  BY <1>5 DEF CasesCompared, dbVars, fileVars, gateVars, queueVars, planVars, runVars, historyVars
<1>6. CASE (\E b \in nodes : Defer(b))
  BY <1>6 DEF Defer, dbVars, fileVars, gateVars, queueVars, planVars, runVars, historyVars, Todo
<1>7. CASE FinishLeaf
  BY <1>7 DEF FinishLeaf, dbVars, fileVars, gateVars, queueVars, planVars, runVars, historyVars
<1>8. CASE (\E n \in nodes : PickWork(n))
  BY <1>8 DEF PickWork, dbVars, fileVars, gateVars, queueVars, planVars, runVars, historyVars,
    Todo, Finished,
    FINISHED, IsNextLeaf, FirstIn, ReadyNodes
<1>9. CASE (\E n \in nodes : PickOverflow(n))
  BY <1>9 DEF PickOverflow, dbVars, fileVars, gateVars, queueVars, planVars, runVars, historyVars
<1>10. CASE
       \/ EpisodeRunsOut
       \/ WrapUpEnds
       \/ EpisodeFinishes
       \/ EpisodeStopped
  BY <1>10 DEF EpisodeRunsOut, WrapUpEnds, EpisodeFinishes, EpisodeStopped, LeaveNode, dbVars,
    fileVars, gateVars, queueVars, planVars, runVars, historyVars
<1>11. CASE ReopenAncestors
  BY <1>11 DEF ReopenAncestors, dbVars, fileVars, gateVars, queueVars, planVars, runVars,
    historyVars,
    ReopenAbove
<1>12. CASE
       \/ (\E n \in nodes : Requeue(n))
       \/ CannotSplit
       \/ NothingAdded
  BY <1>12 DEF Requeue, CannotSplit, NothingAdded, LeaveNode, Skip, dbVars, fileVars, gateVars,
    queueVars, planVars, runVars, historyVars
<1>13. CASE
       \/ StopAtTop
       \/ PickNone
  BY <1>13 DEF StopAtTop, PickNone, Forget, LeaveNode, dbVars, fileVars, gateVars, queueVars,
    planVars, runVars, historyVars
<1>14. CASE
       \/ (\E n \in nodes, verdict \in {"breakdown", "redo", "good"} : ReplanJudge(n, verdict))
       \/ (\E n \in nodes : ReplanKeep(n))
       \/ (\E n \in nodes : ReplanBreakdown(n))
       \/ (\E n \in nodes : ReplanRewrite(n))
  BY <1>14 DEF ReplanJudge, ReplanKeep, ReplanBreakdown, ReplanRewrite, planUnchanged, dbVars,
    fileVars, gateVars, queueVars, planVars, runVars, historyVars, Deciding
<1>15. CASE (\E m \in Node, deps \in SUBSET nodes : ReplanAdd(m, deps))
  BY <1>15 DEF ReplanAdd, dbVars, fileVars, gateVars, queueVars, planVars, runVars, historyVars
<1>16. CASE
       \/ ReplanReturns
       \/ ReplanSplitEnds
       \/ ReplanSplitStopped
  BY <1>16 DEF ReplanReturns, ReplanSplitEnds, ReplanSplitStopped, planUnchanged, dbVars, fileVars,
    gateVars, queueVars, planVars, runVars, historyVars, Deciding
<1>17. QED
  BY <1>1, <1>2, <1>4, <1>5, <1>6, <1>7, <1>8, <1>9, <1>10, <1>11, <1>12, <1>13, <1>14, <1>15,
    <1>16 DEF Next, Step, Loop, EpisodeEnds, Gate, SplitStep, ReplanStep, Edit, Over

---------------------------------------------------------------------------
(* The theorems.                                                           *)

---------------------------------------------------------------------------
(* Order and reopening.                                                    *)

\* What a node must wait for is what next_leaf's blockers are: it comes
\* below the node, or below what the node or one above it depends on.
LEMMA BlockersAreAwaited ==
  ASSUME TreeTypeOK, WellFormed, NEW n \in nodes, NEW x \in Todo
  PROVE  MustWait(n, x) <=> x \in Blockers(n)
<1>1. x \in nodes /\ Ancestors(x) \subseteq nodes
  BY AncestorsFacts DEF Todo, DevNodes
<1> DEFINE wanted == UNION {depends_on[a] : a \in {n} \cup Ancestors(n)}
<1>2. (n \in Ancestors(x) \/ x = n) <=> x \in Under(n)
  BY <1>1 DEF Under
<1>3. (\E a \in {n} \cup Ancestors(n) : depends_on[a] \cap ({x} \cup Ancestors(x)) # {})
        <=> x \in UNION {Under(d) : d \in wanted \cap nodes}
  <2>1. ASSUME NEW a \in {n} \cup Ancestors(n),
               NEW d \in depends_on[a] \cap ({x} \cup Ancestors(x))
        PROVE  x \in UNION {Under(e) : e \in wanted \cap nodes}
    <3>1. d \in wanted \cap nodes
      BY <1>1, <2>1
    <3>2. x \in Under(d)
      BY <1>1, <2>1 DEF Under
    <3>3. QED
      BY <3>1, <3>2
  <2>2. ASSUME NEW d \in wanted \cap nodes, x \in Under(d)
        PROVE  \E a \in {n} \cup Ancestors(n) : depends_on[a] \cap ({x} \cup Ancestors(x)) # {}
    <3>1. PICK a \in {n} \cup Ancestors(n) : d \in depends_on[a]
      BY <2>2
    <3>2. d \in {x} \cup Ancestors(x)
      BY <2>2 DEF Under
    <3>3. QED
      BY <3>1, <3>2
  <2>3. QED
    BY <2>1, <2>2
<1>4. x \in Blockers(n) <=>
        /\ x \in Under(n) \/ x \in UNION {Under(d) : d \in wanted \cap nodes}
        /\ x \notin Ancestors(n) \cup {n}
  BY DEF Blockers
<1>5. QED
  BY <1>2, <1>3, <1>4 DEF MustWait

\* next_leaf hands a node out before what it waits for only when no node of
\* the queue is ready, and then the first one.
LEMMA NextLeafInTurn ==
  ASSUME TreeTypeOK, WellFormed, NEW n \in nodes, IsNextLeaf(n, deferred)
  PROVE  InTurn(n)
<1>1. SUFFICES ASSUME NEW x \in Todo, MustWait(n, x)
               PROVE  FirstIn(n, Todo) /\ \A m \in Todo \ {n} : HeldBack(m)
  BY DEF InTurn
<1>2. x \in Blockers(n)
  BY <1>1, BlockersAreAwaited
<1>3. n \notin ReadyNodes(deferred)
  BY <1>1, <1>2 DEF ReadyNodes, Ready
<1>4. ReadyNodes(deferred) = {} /\ FirstIn(n, Todo)
  BY <1>3 DEF IsNextLeaf, FirstIn
<1>5. ASSUME NEW m \in Todo PROVE HeldBack(m)
  <2>1. deferred[m] \in Todo \/ \E y \in Todo : y \in Blockers(m)
    BY <1>4, <1>5 DEF ReadyNodes, Ready
  <2>2. m \in nodes
    BY DEF Todo, DevNodes
  <2>3. QED
    BY <2>1, <2>2, BlockersAreAwaited DEF HeldBack
<1>6. QED
  BY <1>4, <1>5

\* InTurn is about the plan, its progress and the other nodes' deferrals.
LEMMA InTurnKept ==
  ASSUME UNCHANGED <<nodes, parent, depends_on, plan_status, paused, status>>,
         NEW n, InTurn(n),
         \A m \in Todo \ {n} : deferred'[m] = deferred[m]
  PROVE  InTurn(n)'
<1>1. Todo' = Todo
  BY DEF Todo, DevNodes, Finished
<1>2. \A a, b : Before(a, b)' <=> Before(a, b)
  BY DEF Before, Ancestors, Up
<1>3. \A a, b : MustWait(a, b)' <=> MustWait(a, b)
  BY <1>1 DEF MustWait, Ancestors, Up
<1>4. FirstIn(n, Todo)' <=> FirstIn(n, Todo)
  BY <1>1, <1>2 DEF FirstIn
<1>5. \A m \in Todo \ {n} : HeldBack(m)' <=> HeldBack(m)
  BY <1>1, <1>3 DEF HeldBack
<1>6. QED
  BY <1>1, <1>3, <1>4, <1>5 DEF InTurn

\* A node is worked on in its turn until it is finished.
LEMMA TurnStep ==
  ASSUME TypeOK, WellFormed, Pointers, TakenInTurn, [Next]_vars
  PROVE  TakenInTurn'
<1> DEFINE Held == /\ (pc = "work" \/ AtGate)' => (pc = "work" \/ AtGate) /\ current' = current
                   /\ UNCHANGED <<nodes, parent, depends_on, plan_status, paused, status, deferred>>
<1>1. ASSUME Held PROVE TakenInTurn'
  <2>1. SUFFICES ASSUME (pc = "work" \/ AtGate)', status'[current'] # "done"
                 PROVE  InTurn(current)'
    BY DEF TakenInTurn
  <2>2. InTurn(current)
    BY <1>1, <2>1 DEF TakenInTurn
  <2>3. (InTurn(current))'
    BY <1>1, <2>1, <2>2, InTurnKept
  <2>4. QED
    BY <2>3
<1>2. ASSUME ~ (pc = "work" \/ AtGate)' PROVE TakenInTurn'
  BY <1>2 DEF TakenInTurn
<1> USE DEF AtGate
<1>3. CASE
       \/ EpisodeRunsOut
       \/ GateOpens
       \/ ProofPasses
       \/ CasesCompared
       \/ GateRefuses
       \/ RestoreEvidence
       \/ Stop
       \/ (\E n \in Cased : EditEvidence(n))
       \/ UNCHANGED vars
  BY <1>3, <1>1 DEF EpisodeRunsOut, GateOpens, ProofPasses, CasesCompared, GateRefuses,
    RestoreEvidence, Stop, EditEvidence, vars, dbVars, fileVars, gateVars, queueVars
<1>4. CASE
       \/ StopAtTop
       \/ BeginScan
       \/ ScanDone
       \/ PickNone
       \/ EpisodeFinishes
       \/ EpisodeStopped
       \/ CannotSplit
       \/ SendBack
       \/ NothingAdded
       \/ PartsAdded
       \/ ReplanSplitEnds
       \/ ReplanSplitStopped
       \/ ReplanReturns
       \/ (\E n \in nodes : Unchanged(n))
       \/ (\E n \in nodes : Requeue(n))
       \/ (\E n \in nodes : PickOverflow(n))
       \/ (\E n \in nodes : ReplanRewrite(n))
       \/ (\E n \in nodes : ReplanKeep(n))
       \/ (\E n \in nodes : ReplanBreakdown(n))
       \/ (\E n \in nodes, verdict \in {"breakdown", "redo", "good"} : ReplanJudge(n, verdict))
       \/ (\E m \in Node, deps \in SUBSET nodes : ReplanAdd(m, deps))
  BY <1>4, <1>2 DEF StopAtTop, BeginScan, ScanDone, PickNone, EpisodeFinishes, EpisodeStopped,
    CannotSplit, SendBack, NothingAdded, PartsAdded, ReplanSplitEnds, ReplanSplitStopped,
    ReplanReturns, Unchanged, Requeue, PickOverflow, ReplanRewrite, ReplanKeep, ReplanBreakdown,
    ReplanJudge, ReplanAdd, Forget, Skip, Deciding
<1>5. CASE ReopenAncestors
  BY <1>5, <1>2 DEF ReopenAncestors, Pointers
<1>6. CASE WrapUpEnds
  BY <1>6, <1>2 DEF WrapUpEnds
<1>7. CASE \E n \in nodes : PickWork(n)
  <2>1. PICK n \in nodes : PickWork(n)
    BY <1>7
  <2>2. InTurn(n)
    BY <2>1, NextLeafInTurn DEF PickWork, TypeOK
  <2>3. current' = n /\ \A m \in Todo \ {n} : deferred'[m] = deferred[m]
    BY <2>1 DEF PickWork, TypeOK, Todo, DevNodes, TreeTypeOK
  <2>4. UNCHANGED <<nodes, parent, depends_on, plan_status, paused, status>>
    BY <2>1 DEF PickWork
  <2>5. InTurn(n)'
    BY <2>2, <2>3, <2>4, InTurnKept
  <2>6. InTurn(current)'
    BY <2>3, <2>5
  <2>7. QED
    BY <2>6 DEF TakenInTurn
<1>8. CASE \E b \in nodes : Defer(b)
  <2>1. PICK b \in nodes : Defer(b)
    BY <1>8
  <2>2. current' = current /\ \A m \in Todo \ {current} : deferred'[m] = deferred[m]
    BY <2>1 DEF Defer, TypeOK, Todo, DevNodes, TreeTypeOK
  <2>3. UNCHANGED <<nodes, parent, depends_on, plan_status, paused, status>>
    BY <2>1 DEF Defer, dbVars
  <2>4. SUFFICES ASSUME status'[current'] # "done" PROVE InTurn(current)'
    BY DEF TakenInTurn
  <2>5. InTurn(current)
    BY <2>1, <2>2, <2>3, <2>4 DEF TakenInTurn, Defer
  <2>6. (InTurn(current))'
    BY <2>2, <2>3, <2>5, InTurnKept
  <2>7. QED
    BY <2>6
<1>9. CASE FinishLeaf
  BY <1>9 DEF FinishLeaf, TakenInTurn, Pointers, Working, TypeOK, TreeTypeOK
<1>10. QED
  BY <1>3, <1>4, <1>5, <1>6, <1>7, <1>8, <1>9 DEF Next, Step, Loop, EpisodeEnds, Gate,
    SplitStep, ReplanStep, Edit, Over

\* Nothing comes between the commit of a reopened row and that of its ancestors.
LEMMA ReopenedStep ==
  ASSUME TypeOK, Pointers, ReopenedIsTodo, [Next]_vars
  PROVE  ReopenedIsTodo'
<1> USE DEF ReopenedIsTodo, Pointers, TypeOK, TreeTypeOK, NoNode, Root
<1>1. CASE
       \/ StopAtTop
       \/ BeginScan
       \/ ScanDone
       \/ PickNone
       \/ EpisodeFinishes
       \/ EpisodeRunsOut
       \/ EpisodeStopped
       \/ WrapUpEnds
       \/ GateOpens
       \/ ProofPasses
       \/ CasesCompared
       \/ GateRefuses
       \/ SendBack
       \/ PartsAdded
       \/ ReplanSplitEnds
       \/ ReplanSplitStopped
       \/ ReplanReturns
       \/ RestoreEvidence
       \/ Stop
       \/ (\E n \in nodes : Unchanged(n))
       \/ (\E n \in nodes : PickOverflow(n))
       \/ (\E n \in nodes : PickWork(n))
       \/ (\E b \in nodes : Defer(b))
       \/ (\E n \in nodes : ReplanKeep(n))
       \/ (\E n \in nodes : ReplanBreakdown(n))
       \/ (\E n \in Cased : EditEvidence(n))
       \/ (\E n \in nodes, verdict \in {"breakdown", "redo", "good"} : ReplanJudge(n, verdict))
       \/ UNCHANGED vars
  BY <1>1 DEF StopAtTop, BeginScan, ScanDone, PickNone, EpisodeFinishes, EpisodeRunsOut,
    EpisodeStopped, WrapUpEnds, GateOpens, ProofPasses, CasesCompared, GateRefuses, SendBack,
    PartsAdded, ReplanSplitEnds, ReplanSplitStopped, ReplanReturns, RestoreEvidence, Stop,
    Unchanged, PickOverflow, PickWork, Defer, ReplanKeep, ReplanBreakdown, EditEvidence,
    ReplanJudge, vars, Forget, planUnchanged, dbVars
<1>2. CASE FinishLeaf \/ CannotSplit \/ NothingAdded
  BY <1>2 DEF FinishLeaf, CannotSplit, NothingAdded, Skip
<1>3. CASE ReopenAncestors
  BY <1>3 DEF ReopenAncestors
<1>4. CASE \E n \in nodes : Requeue(n) \/ ReplanRewrite(n)
  BY <1>4 DEF Requeue, ReplanRewrite, planUnchanged
<1>5. CASE \E m \in Node, deps \in SUBSET nodes : ReplanAdd(m, deps)
  BY <1>5 DEF ReplanAdd
<1>6. QED
  BY <1>1, <1>2, <1>3, <1>4, <1>5 DEF Next, Step, Loop, EpisodeEnds, Gate,
    SplitStep, ReplanStep, Edit, Over

\* The invariant holds when the phase starts on a plan the planner left.
LEMMA InitIInv == Init => IInv
<1> SUFFICES ASSUME Init PROVE IInv
  OBVIOUS
<1>1. PICK p \in Plans : /\ nodes = p.nodes /\ parent = p.parent /\ depends_on = p.depends_on
                          /\ paused = p.paused /\ status = p.status
                          /\ plan_status = [n \in Node |-> IF n \in p.nodes THEN "good" ELSE "none"]
                          /\ evidence_hash = [n \in Node |->
                               IF n \in Cased /\ p.status[n] = "done" THEN 1 ELSE NoHash]
                          /\ compared = evidence_hash
  BY DEF Init
<1>2. PlanOK(p)
  BY PlansAssumption
<1>3. TreeTypeOK
  BY <1>1, <1>2 DEF PlanOK, TreeTypeOK, PlanStatus
<1>4. TypeOK
  <2>1. evidence_hash \in [Node -> Content] /\ compared \in [Node -> Content]
    BY <1>1, ContentFacts
  <2>2. /\ edits \in 0 .. MaxEdits /\ runs \in 1 .. MaxRuns
        /\ attempt_count \in [Node -> 0 .. MaxAttempts]
        /\ deferrals \in [Node -> 0 .. MaxDeferrals]
        /\ episodes \in 0 .. MaxPlannerEpisodes
    BY BoundsAssumption, RangeFacts DEF Init
  <2>3. QED
    BY <1>3, <2>1, <2>2, ContentFacts DEF Init, TypeOK, Where
<1>5. WellFormed
  <2>1. SUFFICES ASSUME NEW n \in nodes
                 PROVE  /\ parent[n] = Root \/ parent[n] \in nodes
                        /\ parent[n] < n
                        /\ Up(Up(Up(Up(Up(n))))) = Root
    BY DEF WellFormed
  <2> DEFINE up == [m \in {Root} \cup Node |-> IF m = Root THEN Root ELSE p.parent[m]]
  <2>2. /\ p.parent[n] \in p.nodes \cup {Root} /\ p.parent[n] < n
        /\ up[up[up[up[up[n]]]]] = Root
    BY <1>1, <1>2 DEF PlanOK
  <2>3. \A m \in {Root} \cup Node : up[m] = Up(m) /\ Up(m) \in {Root} \cup Node
    BY <1>1, <1>3 DEF Up, TreeTypeOK
  <2>4. n \in {Root} \cup Node
    BY <1>3 DEF TreeTypeOK
  <2> HIDE DEF up
  <2>5. up[up[up[up[up[n]]]]] = Up(Up(Up(Up(Up(n)))))
    BY <2>3, <2>4
  <2>6. QED
    BY <1>1, <2>2, <2>5
<1>6. Pointers /\ PartsFinished /\ SettledInv /\ VerdictInv /\ AttemptCounted
  <2>1. \A n \in nodes : n \in Node /\ plan_status[n] = "good"
    BY <1>1, <1>3 DEF TreeTypeOK
  <2>2. pc = "top" /\ splitting = NoNode /\ reopening = NoNode /\ toScan = {}
    BY DEF Init
  <2>3. QED
    BY <2>1, <2>2 DEF Pointers, PartsFinished, SettledInv, Settled, VerdictInv,
       AttemptCounted, Working, Replanning
<1>7. ParentLast
  <2>1. SUFFICES ASSUME NEW n \in nodes, ~ paused[n], ~ Finished(n), parent[n] # Root
                 PROVE  ~ Finished(parent[n])
    BY DEF ParentLast
  <2>2. p.status[n] = "todo"
    BY <1>1, <1>3, <2>1 DEF Finished, FINISHED, TreeTypeOK, Status
  <2>3. p.status[p.parent[n]] = "todo"
    BY <1>1, <1>2, <2>1, <2>2 DEF PlanOK
  <2>4. QED
    BY <1>1, <2>3 DEF Finished, FINISHED
<1>8. CompleteInv /\ EvidenceInv
  BY <1>1, <1>3, ContentFacts DEF CompleteInv, EvidenceInv, VouchedFor, AtGate, Init, NoHash,
    TreeTypeOK, Content
<1>9. TakenInTurn /\ ReopenedIsTodo
  BY DEF TakenInTurn, ReopenedIsTodo, AtGate, Init
<1>10. QED
  BY <1>4, <1>5, <1>6, <1>7, <1>8, <1>9 DEF IInv

\* The invariant is inductive.
LEMMA Inductive == IInv /\ [Next]_vars => IInv'
BY TypeStep, ShapeStep, PointersStep, PartsStep, SettledStep, VerdictStep, AttemptStep,
   ParentLastStep, CompleteStep, EvidenceStep, TurnStep, ReopenedStep DEF IInv

\* Every reachable state of one run, stopped or not, whatever the plan, the
\* model's calls and the edits of the evidence, satisfies the invariant.
THEOREM Correct == Spec => []IInv
BY InitIInv, Inductive, PTL DEF Spec

\* D27: a run that reports success has finished every node that is not set
\* aside, also the parts a split added on the way.
THEOREM EveryNodeFinished == Spec => []NothingLost
<1>1. IInv => NothingLost
  BY DEF IInv, CompleteInv, NothingLost
<1>2. QED
  BY <1>1, Correct, PTL

\* The evidence hash of a finished node is the hash of the evidence the node was
\* compared with, however often that was edited and put back before and after the
\* gate; an edit while the gate runs is the exception.
THEOREM EvidenceVouched == Spec => []VouchedFor
<1>1. IInv => VouchedFor
  BY DEF IInv, EvidenceInv
<1>2. QED
  BY <1>1, Correct, PTL

\* Type correctness: the attempts of a node stay between 0 and the limit.
THEOREM TypeCorrect == Spec => []TypeOK
<1>1. IInv => TypeOK
  BY DEF IInv
<1>2. QED
  BY <1>1, Correct, PTL

\* A parent is never left finished over an unfinished part (queue.py, and
\* reopen_with_ancestors in nodes.py), for every plan and every bound.
THEOREM ParentsLast == Spec => []ParentLast
<1>1. IInv => ParentLast
  BY DEF IInv
<1>2. QED
  BY <1>1, Correct, PTL

\* The steps that commit a status.
LEMMA StatusSteps ==
  ASSUME [Next]_vars, status' # status
  PROVE  \/ FinishLeaf \/ CannotSplit \/ NothingAdded \/ ReopenAncestors
         \/ \E k \in nodes : Requeue(k) \/ ReplanRewrite(k)
         \/ \E m \in Node, deps \in SUBSET nodes : ReplanAdd(m, deps)
<1>1. CASE
       \/ StopAtTop
       \/ BeginScan
       \/ ScanDone
       \/ PickNone
       \/ EpisodeFinishes
       \/ EpisodeRunsOut
       \/ EpisodeStopped
       \/ WrapUpEnds
       \/ GateOpens
       \/ ProofPasses
       \/ CasesCompared
       \/ GateRefuses
       \/ SendBack
       \/ PartsAdded
       \/ ReplanSplitEnds
       \/ ReplanSplitStopped
       \/ ReplanReturns
       \/ RestoreEvidence
       \/ Stop
       \/ (\E n \in nodes : Unchanged(n))
       \/ (\E n \in nodes : PickOverflow(n))
       \/ (\E n \in nodes : PickWork(n))
       \/ (\E b \in nodes : Defer(b))
       \/ (\E n \in nodes : ReplanKeep(n))
       \/ (\E n \in nodes : ReplanBreakdown(n))
       \/ (\E n \in Cased : EditEvidence(n))
       \/ (\E n \in nodes, verdict \in {"breakdown", "redo", "good"} : ReplanJudge(n, verdict))
       \/ UNCHANGED vars
  BY <1>1 DEF StopAtTop, BeginScan, ScanDone, PickNone, EpisodeFinishes, EpisodeRunsOut,
    EpisodeStopped, WrapUpEnds, GateOpens, ProofPasses, CasesCompared, GateRefuses, SendBack,
    PartsAdded, ReplanSplitEnds, ReplanSplitStopped, ReplanReturns, RestoreEvidence, Stop,
    Unchanged, PickOverflow, PickWork, Defer, ReplanKeep, ReplanBreakdown, EditEvidence,
    ReplanJudge, vars, planUnchanged, dbVars
<1>2. QED
  BY <1>1 DEF Next, Step, Loop, EpisodeEnds, Gate, SplitStep, ReplanStep, Edit, Over

\* Only the gate finishes a node, and only the one in hand.
LEMMA OnlyFinished ==
  ASSUME TypeOK, Pointers, [Next]_vars, NEW n \in nodes,
         status[n] # "done", status'[n] = "done"
  PROVE  pc = "compared" /\ n = current
<1> USE DEF TypeOK, TreeTypeOK
<1>1. status' # status
  OBVIOUS
<1>2. CASE FinishLeaf
  BY <1>2 DEF FinishLeaf
<1>3. CASE CannotSplit \/ NothingAdded
  BY <1>3 DEF CannotSplit, NothingAdded, Skip
<1>4. CASE ReopenAncestors
  BY <1>4 DEF ReopenAncestors, ReopenAbove
<1>5. CASE \E k \in nodes : Requeue(k) \/ ReplanRewrite(k)
  BY <1>5 DEF Requeue, ReplanRewrite
<1>6. CASE \E m \in Node, deps \in SUBSET nodes : ReplanAdd(m, deps)
  BY <1>6 DEF ReplanAdd
<1>7. QED
  BY <1>1, <1>2, <1>3, <1>4, <1>5, <1>6, StatusSteps

\* A finished node goes back to the queue with its row or an ancestor's.
LEMMA OnlyReopened ==
  ASSUME TypeOK, WellFormed, Pointers, ReopenedIsTodo, [Next]_vars, NEW n \in nodes,
         Finished(n), status'[n] = "todo"
  PROVE  \/ evidence[n] # evidence_hash[n]
         \/ \E m \in Under(n) : m # n /\ ~ Finished(m)
         \/ plan_status[n] = "redo"
<1> USE DEF TypeOK, TreeTypeOK
<1>1. status[n] \in {"done", "skipped"} /\ status' # status
  BY DEF Finished, FINISHED
<1>2. CASE FinishLeaf
  BY <1>1, <1>2 DEF FinishLeaf
<1>3. CASE CannotSplit \/ NothingAdded
  BY <1>1, <1>3 DEF CannotSplit, NothingAdded, Skip
<1>4. CASE ReopenAncestors
  <2>1. n \in Ancestors(reopening)
    BY <1>1, <1>4 DEF ReopenAncestors, ReopenAbove
  <2>2. reopening \in nodes /\ status[reopening] = "todo"
    BY <1>4 DEF ReopenAncestors, Pointers, ReopenedIsTodo
  <2>3. reopening \in Under(n) /\ ~ Finished(reopening)
    BY <2>1, <2>2 DEF Under, Finished, FINISHED
  <2>4. n # reopening
    BY <1>1, <2>2
  <2>5. QED
    BY <2>3, <2>4
<1>5. CASE \E k \in nodes : Requeue(k)
  BY <1>1, <1>5 DEF Requeue
<1>6. CASE \E k \in nodes : ReplanRewrite(k)
  BY <1>1, <1>6 DEF ReplanRewrite, ToRedo
<1>7. CASE \E m \in Node, deps \in SUBSET nodes : ReplanAdd(m, deps)
  BY <1>1, <1>7 DEF ReplanAdd
<1>8. QED
  BY <1>1, <1>2, <1>3, <1>4, <1>5, <1>6, <1>7, StatusSteps

\* A node is finished before something it waits for only if every other
\* unfinished node was held back when it was taken, and still is (queue.py).
THEOREM InOrder == Spec => DependenciesFirst
<1> DEFINE A == \A n \in nodes :
       status[n] # "done" /\ status'[n] = "done" /\ (\E x \in Todo : MustWait(n, x))
         => FirstIn(n, Todo) /\ \A m \in Todo \ {n} : HeldBack(m)
<1>1. IInv /\ [Next]_vars => A
  <2>1. SUFFICES ASSUME IInv, [Next]_vars, NEW n \in nodes,
                        status[n] # "done", status'[n] = "done"
                 PROVE  InTurn(n)
    BY DEF InTurn
  <2>2. pc = "compared" /\ n = current
    BY <2>1, OnlyFinished DEF IInv
  <2>3. QED
    BY <2>1, <2>2 DEF IInv, TakenInTurn, AtGate
<1>2. A => [A]_vars
  OBVIOUS
<1> HIDE DEF A
<1>3. Spec => [][A]_vars
  BY Correct, <1>1, PTL DEF Spec
<1>4. QED
  BY <1>3 DEF DependenciesFirst, A

\* Finished work is taken up again only for one of its three causes.
THEOREM ReopenedForItsCause == Spec => ReopenedForCause
<1> DEFINE A == \A n \in nodes :
       Finished(n) /\ status'[n] = "todo"
         => \/ evidence[n] # evidence_hash[n]
            \/ \E m \in Under(n) : m # n /\ ~ Finished(m)
            \/ plan_status[n] = "redo"
<1>1. IInv /\ [Next]_vars => A
  BY OnlyReopened DEF IInv
<1> HIDE DEF A
<1>2. Spec => [][A]_vars
  BY Correct, <1>1, PTL DEF Spec
<1>3. QED
  BY <1>2 DEF ReopenedForCause, A

-----------------------------------------------------------------------------
(* The setup and the finish-up around the leaves (module Chores).           *)

\* The entries and commands are what they should be.
ChoresTyped ==
  /\ setup \in Entry /\ build \in Entry /\ passing \in SUBSET Command
  /\ DOMAIN ran = {"setup", "build"} /\ DOMAIN verified = {"setup", "build"}

ChoresInv == ChoresTyped /\ ReviewerTold

LEMMA ChoresInvKept == ChoresInv /\ [ChoresNext]_choreVars => ChoresInv'
<1> SUFFICES ASSUME ChoresInv, [ChoresNext]_choreVars PROVE ChoresInv'
  OBVIOUS
<1> USE DEF ChoresInv, ChoresTyped
<1>1. CASE SetupSkipped
  BY <1>1 DEF SetupSkipped, ReviewerTold
<1>2. CASE SetupRuns
  BY <1>2 DEF SetupRuns, ReviewerTold
<1>3. CASE SetupMended
  BY <1>3 DEF SetupMended, ReviewerTold
<1>4. CASE DevWorks
  <2>1. at # "over" /\ at' = at
    BY <1>4 DEF DevWorks
  <2>2. ReviewerTold'
    BY <2>1 DEF ReviewerTold
  <2>3. setup' \in Entry /\ build' \in Entry /\ passing' \in SUBSET Command
    BY <1>4 DEF DevWorks, DevSets, Entry
  <2>4. ran' = ran /\ DOMAIN verified' = {"setup", "build"}
    BY <1>4 DEF DevWorks, DevSets
  <2> QED BY <2>1, <2>2, <2>3, <2>4
<1>5. CASE LeavesDone
  BY <1>5 DEF LeavesDone, ReviewerTold
<1>6. CASE FinishLooks
  <2>1. ChoresTyped'
    BY <1>6 DEF FinishLooks
  <2>2. UNCHANGED <<build, passing, markers, stopped>> /\ Broken' = Broken
    BY <1>6 DEF FinishLooks, Broken
  <2>3. CASE Broken = {}
    <3>1. ~markers
      BY <2>3 DEF Broken
    <3>2. build = NoEntry \/ build \in passing
      BY <2>3 DEF Broken, Entry
    <3>3. ASSUME build # NoEntry PROVE ran'.build = [command |-> build, passed |-> TRUE]
      BY <1>6, <3>2, <3>3 DEF FinishLooks, Ran
    <3> QED BY <2>1, <2>2, <3>1, <3>3 DEF ReviewerTold
  <2>4. CASE Broken # {} /\ stopped /\ at' = "over" /\ cut' = TRUE
    BY <2>1, <2>2, <2>4 DEF ReviewerTold
  <2>5. CASE at' = "mend finish"
    BY <2>1, <2>5 DEF ReviewerTold
  <2> QED BY <1>6, <2>1, <2>3, <2>4, <2>5 DEF FinishLooks
<1>7. CASE FinishMended
  <2>1. ChoresTyped'
    BY <1>7 DEF FinishMended
  <2>2. build' = build /\ markers' = markers
    BY <1>7 DEF FinishMended
  <2>3. markers => "markers" \in notes'
    BY <1>7 DEF FinishMended, Broken
  <2>4. ASSUME build # NoEntry
        PROVE  ran'.build = [command |-> build, passed |-> TRUE] \/ "build" \in notes'
    <3>1. CASE build \in passing
      BY <1>7, <2>4, <3>1 DEF FinishMended, Ran
    <3>2. CASE build \notin passing
      BY <1>7, <2>4, <3>2 DEF FinishMended, Entry, Broken
    <3> QED BY <3>1, <3>2
  <2> QED BY <2>1, <2>2, <2>3, <2>4 DEF ReviewerTold
<1>8. CASE StopPressed
  BY <1>8 DEF StopPressed, ReviewerTold, Broken
<1>9. CASE UNCHANGED choreVars
  BY <1>9 DEF choreVars, ReviewerTold, Broken
<1> QED BY <1>1, <1>2, <1>3, <1>4, <1>5, <1>6, <1>7, <1>8, <1>9 DEF ChoresNext

LEMMA ChoresInvHolds == ChoresSpec => []ChoresInv
<1>1. ChoresInit => ChoresInv
  BY DEF ChoresInit, ChoresInv, ChoresTyped, ReviewerTold
<1> QED BY <1>1, ChoresInvKept, PTL DEF ChoresSpec

\* Whatever Dev's episodes do to the files and the runbook, when Imp's phase ends
\* past its leaves the reviewer knows of a build that fails and of markers that are
\* left, unless a stop kept _finish_up from mending what it found (dev.py:557-558).
THEOREM BrokenIsTold == ChoresSpec => []ReviewerTold
<1> QED BY ChoresInvHolds, PTL DEF ChoresInv

\* The leaves never begin on a setup that failed unnoticed (_setup).
THEOREM SetupBeforeLeaves == ChoresSpec => SetupLookedAt
<1>1. ASSUME ChoresInv, [ChoresNext]_choreVars
      PROVE  [at # "leaves" /\ at' = "leaves" =>
                \/ setup = NoEntry \/ verified'.setup
                \/ "setup" \in notes']_choreVars
  <2> SUFFICES ASSUME ChoresNext, at # "leaves", at' = "leaves"
               PROVE  setup = NoEntry \/ verified'.setup \/ "setup" \in notes'
    BY <1>1
  <2> USE <1>1 DEF ChoresInv, ChoresTyped
  <2>1. CASE SetupSkipped
    BY <2>1 DEF SetupSkipped
  <2>2. CASE SetupRuns
    BY <2>2 DEF SetupRuns
  <2>3. CASE SetupMended
    BY <2>3 DEF SetupMended
  <2>4. CASE DevWorks
    BY <2>4 DEF DevWorks
  <2>5. CASE LeavesDone
    BY <2>5 DEF LeavesDone
  <2>6. CASE FinishLooks \/ FinishMended \/ StopPressed
    BY <2>6 DEF FinishLooks, FinishMended, StopPressed
  <2> QED BY <2>1, <2>2, <2>3, <2>4, <2>5, <2>6 DEF ChoresNext
<1> QED BY <1>1, ChoresInvHolds, PTL DEF ChoresSpec, SetupLookedAt
=============================================================================
