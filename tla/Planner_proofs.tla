--------------------------- MODULE Planner_proofs ---------------------------
(***************************************************************************)
(* Machine-checked theorems about the planner, for any plan, any number of *)
(* nodes, threads and crashes: the verdicts a judge step can give (module  *)
(* Judge), how many episodes run side by side (module Parallel), and what  *)
(* the loop keeps of the tree, of finished work and of its budget (module  *)
(* Planner).  The last follow from one inductive invariant, PlannerInv.    *)
(***************************************************************************)
EXTENDS Planner, FiniteSetTheorems, WellFoundedInduction, TLAPS

---------------------------------------------------------------------------
(* The judge (Judge): batches, answers and replies of any size.            *)

\* The rule and Laya have an opinion on every node, and never REDO.
LEMMA Opinions ==
  ASSUME NEW node, NEW a
  PROVE  FallbackStatus(node) \in Opinion /\ LayaStatus(a) \in Opinion
BY DEF FallbackStatus, LayaStatus, Opinion

\* Of some lines of a reply one is the last.
LEMMA LastLine ==
  ASSUME NEW reply \in Seq(Line), NEW S \in SUBSET DOMAIN reply, S # {}
  PROVE  \E k \in S : \A j \in S : j <= k
<1> DEFINE after == {Len(reply) - k : k \in S}
<1>1. Len(reply) \in Nat /\ S \subseteq 1 .. Len(reply)
  OBVIOUS
<1>2. after \in SUBSET Nat /\ after # {}
  BY <1>1
<1> DEFINE less == OpToRel(<, Nat)
<1>3. IsWellFoundedOn(less, Nat)
  BY NatLessThanWellFounded, Zenon
<1>4. \A x, y \in Nat : <<y, x>> \in less <=> y < x
  BY SMT DEF OpToRel
<1> HIDE DEF less
<1>5. \E a \in after : \A b \in after : ~ (<<b, a>> \in less)
  <2> HIDE DEF after
  <2> QED
    BY <1>2, <1>3, WFMin, Zenon
<1>6. PICK a \in after : \A b \in after : a <= b
  <2> HIDE DEF after
  <2>1. PICK a \in after : \A b \in after : ~ (<<b, a>> \in less)
    BY <1>5
  <2>2. ASSUME NEW b \in after
        PROVE  a <= b
    <3>1. a \in Nat /\ b \in Nat
      BY <1>2
    <3>2. ~ (b < a)
      BY <2>1, <1>4, <3>1
    <3> QED
      BY <3>1, <3>2
  <2> QED
    BY <2>2
<1>7. PICK k \in S : a = Len(reply) - k
  OBVIOUS
<1>8. ASSUME NEW j \in S
      PROVE  j <= k
  <2>1. Len(reply) - k <= Len(reply) - j
    BY <1>6, <1>7
  <2>2. j \in Nat /\ k \in Nat
    BY <1>1
  <2> QED
    BY <2>1, <2>2, <1>1
<1> QED
  BY <1>8

\* A dispute that a reply settles is settled by one of its lines about it.
LEMMA SettledByLine ==
  ASSUME NEW scores, NEW reply \in Seq(Line), NEW i \in DOMAIN scores,
         scores[i] \in [status : Opinion, rule : Opinion, laya : Opinion,
                        decided_by : {"agree", "llm", "rule"}],
         Picking(scores, reply, i) # {}, scores[i].decided_by = "llm"
  PROVE  \E k \in Picking(scores, reply, i) :
           Settle(scores, reply, i) = [scores[i] EXCEPT !.status = reply[k].status]
<1> DEFINE lines == Picking(scores, reply, i)
           last == CHOOSE k \in lines : \A j \in lines : j <= k
<1>1. lines \in SUBSET DOMAIN reply
  BY DEF Picking
<1>2. last \in lines
  BY <1>1, LastLine
<1>3. Settle(scores, reply, i) = [scores[i] EXCEPT !.status = reply[last].status]
  BY DEF Settle
<1> QED
  BY <1>2, <1>3

\* What a score is.
LEMMA ScoreType ==
  ASSUME NEW node, NEW a
  PROVE  LET s == Score(node, a)
         IN  /\ s \in [status : Opinion, rule : Opinion, laya : Opinion,
                       decided_by : {"agree", "llm", "rule"}]
             /\ s.status = s.rule /\ s.rule = FallbackStatus(node)
             /\ s.laya = LayaStatus(a)
             /\ s.decided_by = "agree" <=> s.laya = s.rule
             /\ s.decided_by = "llm" => Confident(a) /\ s.laya # s.rule
<1>1. FallbackStatus(node) \in Opinion /\ LayaStatus(a) \in Opinion
  BY Opinions
<1>2. CASE LayaStatus(a) = FallbackStatus(node)
  BY <1>1, <1>2 DEF Score
<1>3. CASE LayaStatus(a) # FallbackStatus(node)
  BY <1>1, <1>3 DEF Score
<1> QED
  BY <1>2, <1>3

\* "the judge never says REDO": whatever Laya answers and the LLM replies, a
\* verdict is GOOD or BREAKDOWN.  Where it isn't the rule's, Laya was sure of
\* the other one and a line of the reply numbered for this node picked it
\* (LayaJudge.judge, _tiebreak).
THEOREM VerdictsAreOpinions ==
  ASSUME NEW rows \in Seq(JudgeNode), NEW laya,
         NEW reply \in Seq(Line), NEW i \in DOMAIN rows
  PROVE  LET v == JudgeStep(rows, laya, reply)[i]
             scores == [j \in DOMAIN rows |-> Score(rows[j], laya.answers[j])]
         IN  /\ v.status \in Opinion
             /\ v.status # FallbackStatus(rows[i]) =>
                  /\ Confident(laya.answers[i])
                  /\ v.status = LayaStatus(laya.answers[i])
                  /\ \E k \in DOMAIN reply : /\ reply[k].item = ItemOf(scores, i)
                                             /\ reply[k].status = v.status
<1> DEFINE scores == [j \in DOMAIN rows |-> Score(rows[j], laya.answers[j])]
           v == JudgeStep(rows, laya, reply)[i]
<1>1. CASE laya.state # "ok"
  <2>1. v.status = FallbackStatus(rows[i])
    BY <1>1 DEF JudgeStep, RuleVerdict
  <2> QED
    BY <2>1, Opinions
<1>2. CASE laya.state = "ok"
  <2>1. v = Settle(scores, reply, i)
    BY <1>2 DEF JudgeStep
  <2>2. i \in DOMAIN scores /\ scores[i] = Score(rows[i], laya.answers[i])
    OBVIOUS
  <2> DEFINE s == scores[i]
  <2>3. /\ s \in [status : Opinion, rule : Opinion, laya : Opinion,
                  decided_by : {"agree", "llm", "rule"}]
        /\ s.status = s.rule /\ s.rule = FallbackStatus(rows[i])
        /\ s.laya = LayaStatus(laya.answers[i])
        /\ s.decided_by = "llm" => Confident(laya.answers[i]) /\ s.laya # s.rule
    BY <2>2, ScoreType
  <2> HIDE DEF scores, s
  <2>4. CASE s.decided_by # "llm" \/ Picking(scores, reply, i) = {}
    <3>1. v.status = s.status
      BY <2>1, <2>3, <2>4 DEF Settle, s
    <3> QED
      BY <3>1, <2>3 DEF scores
  <2>5. CASE s.decided_by = "llm" /\ Picking(scores, reply, i) # {}
    <3>1. PICK k \in Picking(scores, reply, i) : v = [s EXCEPT !.status = reply[k].status]
      BY <2>1, <2>2, <2>3, <2>5, SettledByLine DEF s
    <3>2. v.status = reply[k].status
      BY <3>1, <2>3
    <3>3. /\ k \in DOMAIN reply /\ reply[k].item = ItemOf(scores, i)
          /\ reply[k].status \in {s.rule, s.laya}
      BY DEF Picking, s
    <3> QED
      BY <3>2, <3>3, <2>3, <2>5 DEF scores
  <2> QED
    BY <2>4, <2>5
<1> QED
  BY <1>1, <1>2

\* A line of the reply never speaks for two nodes: different disputed nodes
\* of a step have different numbers (_tiebreak's enumerate).
THEOREM ItemsAreDistinct ==
  ASSUME NEW n \in Nat, NEW scores, DOMAIN scores = 1 .. n,
         NEW i \in Disputed(scores), NEW j \in Disputed(scores), i < j
  PROVE  ItemOf(scores, i) < ItemOf(scores, j)
<1> DEFINE I == {k \in Disputed(scores) : k <= i}
           J == {k \in Disputed(scores) : k <= j}
<1>1. i \in 1 .. n /\ j \in 1 .. n /\ Disputed(scores) \subseteq 1 .. n
  BY DEF Disputed
<1>2. I \subseteq J /\ j \in J /\ j \notin I
  BY <1>1
<1>3. IsFiniteSet(1 .. n)
  BY FS_Interval
<1>4. IsFiniteSet(J)
  BY <1>1, <1>3, FS_Subset
<1>5. Cardinality(I) <= Cardinality(J) /\ Cardinality(I) # Cardinality(J)
  BY <1>2, <1>4, FS_Subset
<1>6. Cardinality(I) \in Nat /\ Cardinality(J) \in Nat
  BY <1>2, <1>4, FS_Subset, FS_CardinalityType
<1> QED
  BY <1>5, <1>6 DEF ItemOf
---------------------------------------------------------------------------
(* How many episodes run side by side (Parallel).                          *)

\* Cutting a number of slots keeps it between one and that number, and what
\* is left of more than one fits the context.
LEMMA FitsInContext ==
  ASSUME NEW slots \in Nat, slots >= 1, NEW context \in Nat,
         NEW window \in Nat, window >= 1
  PROVE  LET f == Fits(slots, context, window)
         IN  /\ f \in 1 .. slots
             /\ context # 0 /\ f > 1 => f * window <= context
<1> DEFINE whole == context \div window
           f == Fits(slots, context, window)
<1>1. whole \in Nat /\ whole * window <= context
  OBVIOUS
<1> HIDE DEF whole
<1>2. f = IF context = 0 \/ whole >= slots THEN slots
          ELSE IF whole < 1 THEN 1 ELSE whole
  BY DEF Fits, whole
<1>3. f \in 1 .. slots
  BY <1>1, <1>2
<1>4. ASSUME context # 0, f > 1
      PROVE  f * window <= context
  <2>1. f <= whole
    BY <1>1, <1>2, <1>4
  <2>2. f * window <= whole * window
    BY <2>1, <1>1, <1>3
  <2>3. f * window \in Nat /\ whole * window \in Nat
    BY <1>1, <1>3
  <2> QED
    BY <2>2, <2>3, <1>1
<1> QED
  BY <1>3, <1>4

\* PARALLEL_LLM is never exceeded, nor what the server serves at once; and
\* episodes that run side by side on a server with one context for its slots
\* fit that context together, each grown to the whole of CONTEXT_SIZE ("four
\* at once failed with 'Context size has been exceeded'").
THEOREM EpisodesFit ==
  ASSUME NEW setting \in Nat, NEW server \in Server,
         NEW window \in Nat, window >= 1
  PROVE  LET w == EffectiveParallel(setting, server, window)
         IN  /\ w \in 1 .. RequestedParallel(setting)
             /\ w <= MAX_PARALLEL_LLM
             /\ w > 1 /\ ~ Hosted(server) =>
                  /\ server.backend # "ollama"
                  /\ w <= server.slots
                  /\ server.context # 0 => w * window <= server.context
<1> DEFINE wanted == RequestedParallel(setting)
           slots == ServerParallel(server, window)
           w == EffectiveParallel(setting, server, window)
<1>1. wanted \in 1 .. MAX_PARALLEL_LLM
  BY DEF RequestedParallel, MAX_PARALLEL_LLM
<1>2. server.slots \in Nat /\ server.context \in Nat
  BY DEF Server
<1>3. CASE server.backend = "ollama" \/ server.slots = 0
  <2>1. slots = 1
    BY <1>3 DEF ServerParallel
  <2>2. w = IF wanted = 1 THEN 1
            ELSE IF Hosted(server) \/ wanted <= slots THEN wanted ELSE slots
    BY DEF EffectiveParallel
  <2> HIDE DEF wanted, slots, w
  <2>3. w \in 1 .. wanted
    BY <1>1, <2>1, <2>2
  <2>4. w > 1 => Hosted(server)
    BY <1>1, <2>1, <2>2
  <2>5. w <= MAX_PARALLEL_LLM
    BY <1>1, <2>3 DEF MAX_PARALLEL_LLM
  <2> QED
    BY <2>3, <2>4, <2>5 DEF wanted, w
<1>4. CASE server.backend # "ollama" /\ server.slots # 0
  <2>1. slots = Fits(server.slots, server.context, window)
    BY <1>4 DEF ServerParallel
  <2>2. w = IF wanted = 1 THEN 1
            ELSE IF Hosted(server) \/ wanted <= slots THEN wanted ELSE slots
    BY DEF EffectiveParallel
  <2>3. server.slots >= 1
    BY <1>2, <1>4
  <2>4. slots \in 1 .. server.slots
    BY <1>2, <2>1, <2>3, FitsInContext
  <2>5. server.context # 0 /\ slots > 1 => slots * window <= server.context
    BY <1>2, <2>1, <2>3, FitsInContext
  <2> HIDE DEF wanted, slots, w
  <2>6. w \in 1 .. wanted
    BY <1>1, <1>2, <2>2, <2>4
  <2>7. w <= MAX_PARALLEL_LLM
    BY <1>1, <2>6 DEF MAX_PARALLEL_LLM
  <2>8. ASSUME w > 1, ~ Hosted(server)
        PROVE  /\ w <= server.slots
               /\ server.context # 0 => w * window <= server.context
    <3>1. w <= slots
      BY <1>1, <1>2, <2>2, <2>4, <2>8
    <3>2. w \in Nat /\ slots \in Nat /\ slots > 1
      BY <1>1, <1>2, <2>4, <2>6, <2>8, <3>1
    <3>3. w * window <= slots * window
      BY <3>1, <3>2
    <3>4. w * window \in Nat /\ slots * window \in Nat
      BY <3>2
    <3> QED
      BY <1>2, <2>4, <2>5, <3>1, <3>2, <3>3, <3>4
  <2> QED
    BY <1>4, <2>6, <2>7, <2>8 DEF wanted, w
<1> QED
  BY <1>3, <1>4
---------------------------------------------------------------------------
(* The tree: what every edit has to know of it.                            *)

LEMMA Sizes ==
  /\ MaxNode \in Nat /\ MaxDepth \in 1 .. 5 /\ Root \notin Node /\ Root = 0
  /\ RedoCap \in Nat /\ EscalationCap \in Nat
  /\ MaxEpisodes \in Nat /\ 1 <= MaxEpisodes
  /\ Continuations \in Nat /\ MaxRuns \in Nat /\ 1 <= MaxRuns
  /\ MaxWorkers \in Nat /\ 1 <= MaxWorkers
BY MaxNodeAssumption, MaxDepthAssumption, CapsAssumption
   DEF Root, Node, MaxWorkers, RequestedParallel, MAX_PARALLEL_LLM

\* A tool that reopens a node and those above it stops at the goal.
LEMMA UpClosed ==
  ASSUME TreeTypeOK, WellFormed, NEW n \in nodes, NEW x \in {n} \cup Ancestors(n)
  PROVE  parent[x] = Root \/ parent[x] \in Ancestors(n)
<1>1. Up(Up(Up(Up(Up(n))))) = Root
  BY DEF WellFormed
<1>2. x # Root
  BY Sizes DEF Ancestors, TreeTypeOK
<1>3. parent[x] = Up(x)
  BY <1>2 DEF Up
<1>4. x \in {n, Up(n), Up(Up(n)), Up(Up(Up(n))), Up(Up(Up(Up(n))))}
  BY DEF Ancestors
<1> QED
  BY <1>1, <1>3, <1>4 DEF Ancestors

LEMMA AncestorsAreNodes ==
  ASSUME WellFormed, NEW n \in nodes
  PROVE  Ancestors(n) \subseteq nodes
<1>1. \A x \in nodes \cup {Root} : Up(x) \in nodes \cup {Root}
  BY DEF WellFormed, Up
<1> QED
  BY <1>1 DEF Ancestors

\* Whatever is above a node has a part.
LEMMA AncestorsHaveChildren ==
  ASSUME WellFormed, NEW n \in nodes, NEW x \in Ancestors(n)
  PROVE  Children(x) # {}
<1>1. \A y \in nodes \cup {Root} : Up(y) \in nodes \cup {Root}
  BY DEF WellFormed, Up
<1>2. \E y \in nodes \cup {Root} : x = Up(y) /\ x # Root
  BY <1>1 DEF Ancestors
<1>3. PICK y \in nodes : x = parent[y]
  BY <1>2 DEF Up
<1> QED
  BY <1>3 DEF Children

LEMMA FourAreFour ==
  ASSUME NEW a, NEW b, NEW c, NEW d, a # b, a # c, a # d, b # c, b # d, c # d
  PROVE  Cardinality({a, b, c, d}) = 4
<1>1. IsFiniteSet({}) /\ Cardinality({}) = 0
  BY FS_EmptySet
<1>2. IsFiniteSet({a}) /\ Cardinality({a}) = 1
  BY FS_Singleton
<1>3. IsFiniteSet({a} \cup {b}) /\ Cardinality({a} \cup {b}) = 2
  BY <1>2, FS_AddElement
<1>4. IsFiniteSet({a} \cup {b} \cup {c}) /\ Cardinality({a} \cup {b} \cup {c}) = 3
  BY <1>3, FS_AddElement
<1>5. Cardinality({a} \cup {b} \cup {c} \cup {d}) = 4
  BY <1>4, FS_AddElement
<1>6. {a} \cup {b} \cup {c} \cup {d} = {a, b, c, d}
  OBVIOUS
<1> QED
  BY <1>5, <1>6

\* MAX_LEAF_DEPTH leaves room for one more level.
LEMMA RoomBelow ==
  ASSUME TreeTypeOK, WellFormed, NEW n \in nodes, Depth(n) < MaxDepth
  PROVE  Up(Up(Up(Up(n)))) = Root
<1> DEFINE a == Up(n)
           b == Up(a)
           c == Up(b)
           d == Up(c)
<1>1. \A x \in nodes \cup {Root} :
        /\ Up(x) \in nodes \cup {Root} /\ x \in Nat /\ Up(x) \in Nat
        /\ x # Root => Up(x) < x
        /\ x = Root => Up(x) = Root
  BY Sizes DEF WellFormed, Up, TreeTypeOK, Node
<1> SUFFICES ASSUME d # Root PROVE FALSE
  OBVIOUS
<1>2. n \in nodes \cup {Root} /\ n # Root
  BY Sizes DEF TreeTypeOK
<1> HIDE DEF a, b, c, d
<1>3. a \in nodes \cup {Root} /\ b \in nodes \cup {Root} /\ c \in nodes \cup {Root}
      /\ d \in nodes \cup {Root}
  BY <1>1 DEF a, b, c, d
<1>4. c # Root
  BY <1>1, <1>3 DEF d
<1>5. b # Root
  BY <1>1, <1>3, <1>4 DEF c
<1>6. a # Root
  BY <1>1, <1>3, <1>5 DEF b
<1>7. d < c /\ c < b /\ b < a
  BY <1>1, <1>3, <1>4, <1>5, <1>6 DEF b, c, d
<1>8. a # b /\ a # c /\ a # d /\ b # c /\ b # d /\ c # d
  <2>1. a \in Nat /\ b \in Nat /\ c \in Nat /\ d \in Nat
    BY <1>1, <1>3
  <2> QED
    BY <1>7, <2>1
<1>9. Ancestors(n) = {a, b, c, d}
  BY <1>4, <1>5, <1>6 DEF Ancestors, a, b, c, d
<1>10. Cardinality({a, b, c, d}) = 4
  BY <1>8, FourAreFour, Zenon
<1> QED
  BY <1>9, <1>10, MaxDepthAssumption DEF Depth

\* What the judge may say is a verdict.
LEMMA VerdictsFit ==
  ASSUME NEW l \in Level
  PROVE  MayJudge[l] \subseteq Opinion
<1> DEFINE verdict(node, s, a, r) ==
             JudgeStep(<<node>>, [state |-> s, answers |-> <<a>>], r)[1].status
<1>1. ASSUME NEW node \in SomeNodes(l), NEW s, NEW a, NEW r \in SomeReplies
      PROVE  verdict(node, s, a, r) \in Opinion
  <2>1. node \in JudgeNode
    BY DEF SomeNodes, JudgeNode
  <2>2. <<node>> \in Seq(JudgeNode) /\ 1 \in DOMAIN <<node>>
    BY <2>1
  <2>3. r \in Seq(Line)
    <3>1. ASSUME NEW line \in [item : 0 .. 1, status : {"good", "breakdown", "redo"}]
          PROVE  <<line>> \in Seq(Line)
      <4>1. line \in Line
        BY DEF Line
      <4> QED
        BY <4>1
    <3>2. <<>> \in Seq(Line)
      OBVIOUS
    <3> QED
      BY <3>1, <3>2 DEF SomeReplies
  <2> QED
    BY <2>2, <2>3, VerdictsAreOpinions
<1>2. MayJudge[l] = {verdict(node, s, a, r) : node \in SomeNodes(l), s \in {"off", "failed", "ok"},
                                              a \in SomeAnswers, r \in SomeReplies}
  BY DEF MayJudge
<1> HIDE DEF verdict
<1> QED
  BY <1>1, <1>2

---------------------------------------------------------------------------
(* The loop's inductive invariant.                                         *)

\* Threads that may open another episode, two more, three more.
Opening1 == {n \in Node : work[n] \in {"start", "first", "again", "second", "retry"}}
Opening2 == {n \in Node : work[n] \in {"start", "first", "again"}}
Opening3 == {n \in Node : work[n] = "start"}

\* What each place of the loop leaves for the next.
Places ==
  /\ pc # "judge" => unpausing = NoNode
  /\ pc \notin {"judge", "breakdown"} => batch = {}
  /\ pc # "architect" => work[Root] = "idle"
  /\ pc \notin {"redo", "breakdown"} => Active = {}
  /\ pc = "redo" => \A m, n \in Active : m = n
  /\ pc = "over" => episodes = 0 /\ left = Continuations
  /\ batch \cap Active = {}

\* Episodes opened, and those that may still be without another look at the
\* budget.
Counting ==
  /\ pc = "architect" =>
       /\ episodes + left <= 1 + Continuations
       /\ AboutToOpen(Root) => episodes + left <= Continuations
  /\ pc \in {"redo", "breakdown"} =>
       episodes + Cardinality(Opening1) + Cardinality(Opening2) + Cardinality(Opening3)
         <= MaxEpisodes - 1 + 3 * MaxWorkers

\* The nodes of one batch of breakdowns are of one level.  Above the tasks
\* nobody but their own episode can take their verdict.
Splits ==
  pc = "breakdown" =>
    \A n \in batch \cup Active :
      /\ \A m \in batch \cup Active : level[m] = level[n]
      /\ level[n] # "task" => n \in nodes /\ plan_status[n] \in {"breakdown", "redo"}

\* A call reopens what is above a node of the plan.
CallsKnown == \A s \in Node \cup {Root} : reopening[s] # NoNode => reopening[s] \in nodes

PlannerInv ==
  /\ TypeOK /\ WellFormed
  /\ DependenciesSound /\ ParentsReopened /\ CallsKnown
  /\ Places /\ Counting /\ EpisodesBounded /\ Splits

---------------------------------------------------------------------------
(* The tools that change the tree.                                         *)

TreeInv == WellFormed /\ DependenciesSound /\ ParentsReopened /\ CallsKnown

\* A call has the plan to itself.
LEMMA CallsAlone ==
  ASSUME TypeOK, NEW scope, MayCall(scope)
  PROVE  Halfway = torn \cup {NoNode}
<1>1. reopening \in [Node \cup {Root} -> Node \cup {NoNode}]
  BY DEF TypeOK
<1>2. \A s \in Node \cup {Root} : reopening[s] = NoNode
  BY <1>1 DEF MayCall
<1>3. {reopening[s] : s \in DOMAIN reopening} = {NoNode}
  BY <1>1, <1>2
<1> QED
  BY <1>3 DEF Halfway

\* The second commit of a call leaves nothing finished above its node.
LEMMA ReopenKeeps ==
  ASSUME TypeOK, TreeInv, NEW scope \in Node \cup {Root}, Reopen(scope)
  PROVE  TreeInv' /\ \A n \in nodes : DoneLeaf(n) => DoneLeaf(n)'
<1> DEFINE n == reopening[scope]
<1>1. /\ n # NoNode /\ UNCHANGED <<nodes, parent, depends_on>>
      /\ reopening' = [reopening EXCEPT ![scope] = NoNode] /\ torn' = torn
      /\ status' = [m \in Node |-> IF m \in Ancestors(n) THEN "todo" ELSE status[m]]
  BY DEF Reopen
<1>2. WellFormed /\ DependenciesSound /\ ParentsReopened /\ CallsKnown
  BY DEF TreeInv
<1>3. /\ reopening \in [Node \cup {Root} -> Node \cup {NoNode}]
      /\ nodes \subseteq Node /\ status \in [Node -> Status] /\ TreeTypeOK
  BY DEF TypeOK, TreeTypeOK
<1>4. n \in nodes
  BY <1>1, <1>2 DEF CallsKnown
<1>5. Halfway \subseteq Halfway' \cup {n}
  BY <1>1, <1>3 DEF Halfway
<1>6. CallsKnown'
  BY <1>1, <1>2, <1>3 DEF CallsKnown
<1> HIDE DEF n
<1>7. WellFormed' /\ DependenciesSound'
  BY <1>1, <1>2 DEF WellFormed, Up, DependenciesSound, Acyclic
<1>8. ParentsReopened'
  <2> SUFFICES ASSUME NEW m \in nodes, m \notin Halfway', status'[m] = "todo", parent[m] # Root
               PROVE  status'[parent[m]] = "todo"
    BY <1>1 DEF ParentsReopened
  <2>1. m \in Node /\ parent[m] \in nodes /\ parent[m] \in Node
    BY <1>2, <1>3 DEF WellFormed
  <2>2. CASE m \in {n} \cup Ancestors(n)
    <3>1. parent[m] \in Ancestors(n)
      BY <1>2, <1>3, <1>4, <2>2, UpClosed
    <3> QED
      BY <1>1, <2>1, <3>1
  <2>3. CASE m \notin {n} \cup Ancestors(n)
    <3>1. status[m] = "todo" /\ m \notin Halfway
      BY <1>1, <1>5, <2>1, <2>3
    <3>2. status[parent[m]] = "todo"
      BY <1>2, <3>1 DEF ParentsReopened
    <3> QED
      BY <1>1, <2>1, <3>2
  <2> QED
    BY <2>2, <2>3
<1>9. ASSUME NEW m \in nodes, DoneLeaf(m)
      PROVE  DoneLeaf(m)'
  <2>1. status[m] = "done" /\ Children(m) = {} /\ m \in Node
    BY <1>3, <1>9 DEF DoneLeaf
  <2>2. m \notin Ancestors(n)
    BY <1>2, <1>3, <1>4, <2>1, AncestorsHaveChildren
  <2>3. status'[m] = "done"
    BY <1>1, <2>1, <2>2
  <2> QED
    BY <1>1, <2>1, <2>3 DEF DoneLeaf, Children
<1> QED
  BY <1>6, <1>7, <1>8, <1>9 DEF TreeInv

LEMMA AddKeeps ==
  ASSUME TypeOK, TreeInv, NEW scope \in Node \cup {Root}, NEW m \in Node,
         NEW under \in nodes \cup {Root}, NEW deps \in SUBSET nodes, AddNode(scope, m, under, deps)
  PROVE  TreeInv' /\ \A n \in nodes : DoneLeaf(n) => DoneLeaf(n)'
<1>0. nodes \subseteq Node /\ m \in Nat
  <2>1. nodes \subseteq Node
    BY DEF TypeOK, TreeTypeOK
  <2>2. m \in Nat
    BY MaxNodeAssumption DEF Node
  <2> QED
    BY <2>1, <2>2
<1>1. /\ nodes' = nodes \cup {m} /\ m \notin nodes
      /\ parent' = [parent EXCEPT ![m] = under]
      /\ depends_on' = [depends_on EXCEPT ![m] = deps]
      /\ status' = [status EXCEPT ![m] = "todo"]
      /\ reopening' = [reopening EXCEPT ![scope] = m] /\ torn' = torn
      /\ ~ DoneLeaf(under) /\ MayCall(scope)
      /\ \A x \in nodes : x < m
      /\ under # Root => under \in nodes /\ Depth(under) < MaxDepth
  <2>1. \A x \in nodes : x < m
    BY DEF AddNode, NewId
  <2>2. m \notin nodes
    BY <1>0, <2>1
  <2> QED
    BY <2>1, <2>2 DEF AddNode, Insert, MayAdd
<1>2. TreeTypeOK /\ WellFormed /\ DependenciesSound /\ ParentsReopened
  BY DEF TypeOK, TreeInv
<1>3. nodes \subseteq Node /\ m # Root /\ m # under /\ under \in Nat
  BY <1>1, <1>2, Sizes DEF TreeTypeOK, Node
<1>4. \A n \in nodes : /\ parent'[n] = parent[n] /\ parent[n] # m
                       /\ depends_on'[n] = depends_on[n]
                       /\ (Up(n))' = Up(n) /\ n # m
  BY <1>1, <1>2, <1>3 DEF TreeTypeOK, WellFormed, Up
<1>5. parent'[m] = under /\ depends_on'[m] = deps /\ (Up(m))' = under
  BY <1>1, <1>2, <1>3 DEF TreeTypeOK, Up
<1>6. \A x \in nodes \cup {Root} : (Up(x))' = Up(x) /\ Up(x) \in nodes \cup {Root}
  BY <1>2, <1>4 DEF WellFormed, Up
<1>7. WellFormed'
  <2> SUFFICES ASSUME NEW n \in nodes'
               PROVE  /\ parent'[n] = Root \/ parent'[n] \in nodes'
                      /\ parent'[n] < n
                      /\ (Up(Up(Up(Up(Up(n))))) = Root)'
    BY DEF WellFormed
  <2>1. CASE n \in nodes
    <3>1. (Up(Up(Up(Up(Up(n))))))' = Up(Up(Up(Up(Up(n)))))
      BY <1>6, <2>1
    <3> QED
      BY <1>1, <1>2, <1>4, <2>1, <3>1 DEF WellFormed
  <2>2. CASE n = m
    <3>1. (Up(Up(Up(Up(under)))))' = Up(Up(Up(Up(under))))
      BY <1>6
    <3>2. Up(Up(Up(Up(under)))) = Root
      <4>1. CASE under = Root
        BY <4>1 DEF Up
      <4>2. CASE under # Root
        BY <1>1, <1>2, <4>2, RoomBelow
      <4> QED
        BY <4>1, <4>2
    <3>3. under < m
      BY <1>1, <1>3, Sizes DEF Node
    <3>4. (Up(Up(Up(Up(Up(m))))))' = (Up(Up(Up(Up(under)))))'
      BY <1>5 DEF Up
    <3> QED
      BY <1>1, <1>5, <2>2, <3>1, <3>2, <3>3, <3>4
  <2> QED
    BY <1>1, <2>1, <2>2
<1>8. DependenciesSound'
  <2>1. \A n \in nodes' : depends_on'[n] \subseteq nodes'
    BY <1>1, <1>2, <1>4, <1>5 DEF DependenciesSound
  <2>2. (Acyclic(depends_on))'
    <3> SUFFICES ASSUME NEW ring \in SUBSET nodes', ring # {},
                        \A n \in ring : depends_on'[n] \cap ring # {}
                 PROVE  FALSE
      BY DEF Acyclic
    <3>1. \A n \in ring : depends_on'[n] \cap (ring \ {m}) # {}
      BY <1>1, <1>2, <1>4, <1>5 DEF DependenciesSound
    <3>2. ring \ {m} \in (SUBSET nodes) \ {{}}
      BY <1>1, <3>1
    <3>3. \A n \in ring \ {m} : depends_on[n] \cap (ring \ {m}) # {}
      BY <1>1, <1>4, <3>1
    <3> QED
      BY <1>2, <3>2, <3>3 DEF DependenciesSound, Acyclic
  <2> QED
    BY <2>1, <2>2 DEF DependenciesSound
<1>9. /\ reopening \in [Node \cup {Root} -> Node \cup {NoNode}] /\ status \in [Node -> Status]
      /\ \A s \in Node \cup {Root} : reopening[s] = NoNode
  BY <1>1, <1>2 DEF TypeOK, TreeTypeOK, MayCall
<1>10. CallsKnown'
  BY <1>1, <1>9 DEF CallsKnown
<1>11. torn \cup {m, NoNode} \subseteq Halfway' \cup {NoNode} /\ Halfway = torn \cup {NoNode}
  <2>1. Halfway = torn \cup {NoNode}
    BY <1>1, CallsAlone
  <2>2. scope \in DOMAIN reopening' /\ reopening'[scope] = m
    BY <1>1, <1>9
  <2> QED
    BY <1>1, <2>1, <2>2 DEF Halfway
<1>12. ParentsReopened'
  <2> SUFFICES ASSUME NEW n \in nodes', n \notin Halfway', status'[n] = "todo", parent'[n] # Root
               PROVE  status'[parent'[n]] = "todo"
    BY DEF ParentsReopened
  <2>1. n \in nodes /\ n # m /\ n # NoNode
    BY <1>1, <1>3, <1>11, Sizes DEF NoNode
  <2>2. n \notin Halfway /\ status[n] = "todo" /\ parent'[n] = parent[n] /\ parent[n] # m
    BY <1>1, <1>4, <1>9, <1>11, <2>1
  <2>3. status[parent[n]] = "todo"
    BY <1>2, <2>1, <2>2 DEF ParentsReopened
  <2> QED
    BY <1>1, <1>9, <2>2, <2>3
<1>13. ASSUME NEW n \in nodes, DoneLeaf(n)
       PROVE  DoneLeaf(n)'
  <2>1. status[n] = "done" /\ Children(n) = {} /\ n # under
    BY <1>1, <1>13 DEF DoneLeaf
  <2>2. status'[n] = "done"
    BY <1>1, <1>4, <1>9, <2>1
  <2>3. (Children(n))' = {}
    BY <1>1, <1>4, <1>5, <2>1 DEF Children
  <2> QED
    BY <1>1, <2>2, <2>3 DEF DoneLeaf
<1> QED
  BY <1>7, <1>8, <1>10, <1>12, <1>13 DEF TreeInv

LEMMA UpdateKeeps ==
  ASSUME TypeOK, TreeInv, NEW scope \in Node \cup {Root}, NEW n \in nodes, NEW deps,
         UpdateNode(scope, n, deps)
  PROVE  TreeInv' /\ \A m \in nodes : DoneLeaf(m) => DoneLeaf(m)'
<1>1. /\ depends_on' = [depends_on EXCEPT ![n] = deps] /\ deps \subseteq nodes
      /\ Acyclic([depends_on EXCEPT ![n] = deps]) /\ ~ DoneLeaf(n)
      /\ status' = [status EXCEPT ![n] = "todo"]
      /\ reopening' = [reopening EXCEPT ![scope] = n] /\ torn' = torn
      /\ MayCall(scope) /\ UNCHANGED <<nodes, parent>>
  BY DEF UpdateNode
<1>2. TypeOK /\ WellFormed /\ DependenciesSound /\ ParentsReopened
  BY DEF TreeInv
<1>3. nodes \subseteq Node /\ depends_on \in [Node -> SUBSET Node]
  BY DEF TypeOK, TreeTypeOK
<1>4. WellFormed'
  BY <1>1, <1>2 DEF WellFormed, Up
<1>5. DependenciesSound'
  <2>1. \A m \in nodes : depends_on'[m] \subseteq nodes
    BY <1>1, <1>2, <1>3 DEF DependenciesSound
  <2>2. (Acyclic(depends_on))'
    BY <1>1 DEF Acyclic
  <2> QED
    BY <1>1, <2>1, <2>2 DEF DependenciesSound
<1>6. /\ reopening \in [Node \cup {Root} -> Node \cup {NoNode}] /\ status \in [Node -> Status]
      /\ \A s \in Node \cup {Root} : reopening[s] = NoNode
  BY <1>1 DEF TypeOK, TreeTypeOK, MayCall
<1>7. CallsKnown'
  BY <1>1, <1>6 DEF CallsKnown
<1>8. Halfway \subseteq Halfway' \cup {NoNode} /\ n \in Halfway'
  <2>1. Halfway = torn \cup {NoNode}
    BY <1>1, CallsAlone
  <2>2. scope \in DOMAIN reopening' /\ reopening'[scope] = n
    BY <1>1, <1>3, <1>6
  <2> QED
    BY <1>1, <2>1, <2>2 DEF Halfway
<1>9. ParentsReopened'
  <2> SUFFICES ASSUME NEW m \in nodes, m \notin Halfway', status'[m] = "todo", parent[m] # Root
               PROVE  status'[parent[m]] = "todo"
    BY <1>1 DEF ParentsReopened
  <2>1. m # n /\ m \notin Halfway /\ m \in Node
    BY <1>3, <1>8, Sizes DEF NoNode
  <2>2. status[m] = "todo"
    BY <1>1, <1>6, <2>1
  <2>3. status[parent[m]] = "todo"
    BY <1>2, <2>1, <2>2 DEF ParentsReopened
  <2> QED
    BY <1>1, <1>6, <2>3
<1>10. ASSUME NEW m \in nodes, DoneLeaf(m)
       PROVE  DoneLeaf(m)'
  <2>1. status[m] = "done" /\ Children(m) = {} /\ m # n
    BY <1>1, <1>10 DEF DoneLeaf
  <2>2. status'[m] = "done"
    BY <1>1, <1>6, <2>1
  <2> QED
    BY <1>1, <2>1, <2>2 DEF DoneLeaf, Children
<1> QED
  BY <1>4, <1>5, <1>7, <1>9, <1>10 DEF TreeInv

LEMMA DeleteKeeps ==
  ASSUME TypeOK, TreeInv, NEW scope, NEW n \in nodes, DeleteNode(scope, n)
  PROVE  TreeInv' /\ \A m \in nodes : DoneLeaf(m) => DoneLeaf(m)'
<1>1. /\ nodes' = nodes \ {n} /\ status[n] # "done" /\ Children(n) = {}
      /\ parent' = [parent EXCEPT ![n] = Root]
      /\ depends_on' = [m \in Node |-> IF m = n THEN {} ELSE depends_on[m] \ {n}]
      /\ status' = [status EXCEPT ![n] = "todo"]
      /\ reopening' = reopening /\ torn' = torn \ {n} /\ MayCall(scope)
  BY DEF DeleteNode
<1>2. WellFormed /\ DependenciesSound /\ ParentsReopened /\ CallsKnown
  BY DEF TreeInv
<1>3. nodes \subseteq Node /\ Root \notin nodes /\ TreeTypeOK
  BY Sizes DEF TypeOK, TreeTypeOK
<1>4. \A m \in nodes \ {n} :
        /\ parent'[m] = parent[m] /\ parent[m] # n /\ status'[m] = status[m]
        /\ depends_on'[m] = depends_on[m] \ {n}
  BY <1>1, <1>3 DEF TreeTypeOK, Children
<1>5. WellFormed'
  <2>1. \A x \in (nodes \ {n}) \cup {Root} :
          (Up(x))' = Up(x) /\ Up(x) \in (nodes \ {n}) \cup {Root}
    BY <1>2, <1>3, <1>4 DEF WellFormed, Up
  <2>2. \A m \in nodes \ {n} : (Up(Up(Up(Up(Up(m))))) = Root)'
    BY <1>2, <2>1 DEF WellFormed
  <2>3. \A m \in nodes \ {n} : /\ parent'[m] = Root \/ parent'[m] \in nodes \ {n}
                               /\ parent'[m] < m
    BY <1>2, <1>4 DEF WellFormed
  <2> QED
    BY <1>1, <2>2, <2>3 DEF WellFormed
<1>6. DependenciesSound'
  <2>1. \A m \in nodes' : depends_on'[m] \subseteq nodes'
    BY <1>1, <1>2, <1>4 DEF DependenciesSound
  <2>2. (Acyclic(depends_on))'
    <3> SUFFICES ASSUME NEW ring \in SUBSET nodes', ring # {},
                        \A m \in ring : depends_on'[m] \cap ring # {}
                 PROVE  FALSE
      BY DEF Acyclic
    <3>1. ring \in (SUBSET nodes) \ {{}} /\ \A m \in ring : m \in nodes \ {n}
      BY <1>1
    <3>2. \A m \in ring : depends_on[m] \cap ring # {}
      BY <1>4, <3>1
    <3> QED
      BY <1>2, <3>1, <3>2 DEF DependenciesSound, Acyclic
  <2> QED
    BY <2>1, <2>2 DEF DependenciesSound
<1>7. ParentsReopened'
  <2> SUFFICES ASSUME NEW m \in nodes \ {n}, m \notin Halfway',
                      status'[m] = "todo", parent'[m] # Root
               PROVE  status'[parent'[m]] = "todo"
    BY <1>1 DEF ParentsReopened
  <2>0. m \notin Halfway
    <3>1. Halfway' = (torn \ {n}) \cup {reopening[s] : s \in DOMAIN reopening}
      BY <1>1 DEF Halfway
    <3> QED
      BY <3>1 DEF Halfway
  <2>1. parent[m] \in nodes \ {n} /\ status[m] = "todo" /\ parent[m] # Root
    BY <1>2, <1>4 DEF WellFormed
  <2>2. status[parent[m]] = "todo"
    BY <1>2, <2>0, <2>1 DEF ParentsReopened
  <2> QED
    BY <1>4, <2>1, <2>2
<1>8. ASSUME NEW m \in nodes, DoneLeaf(m)
      PROVE  DoneLeaf(m)'
  <2>1. m \in nodes \ {n} /\ status[m] = "done" /\ Children(m) = {}
    BY <1>1, <1>8 DEF DoneLeaf
  <2>2. (Children(m))' = {}
    BY <1>1, <1>4, <2>1 DEF Children
  <2> QED
    BY <1>1, <1>4, <2>1, <2>2 DEF DoneLeaf
<1>9. CallsKnown'
  <2>1. \A s \in Node \cup {Root} : reopening[s] = NoNode
    BY <1>1 DEF TypeOK, MayCall
  <2> QED
    BY <1>1, <2>1 DEF CallsKnown
<1> QED
  BY <1>5, <1>6, <1>7, <1>8, <1>9 DEF TreeInv
---------------------------------------------------------------------------
(* Types.                                                                  *)

LEMMA WorkersFit ==
  ASSUME NEW w \in Workers
  PROVE  w \in 1 .. MaxWorkers
<1>1. PICK server \in Servers : w = EffectiveParallel(PARALLEL_LLM, server, CONTEXT_SIZE)
  BY DEF Workers
<1> QED
  BY <1>1, EpisodesFit, CapsAssumption DEF MaxWorkers

\* The rows of the database, and what a run holds in memory.
RowsTyped ==
  /\ TreeTypeOK
  /\ level \in [Node -> Level]
  /\ redo_count \in [Node -> 0 .. RedoCap]
  /\ escalation_count \in [Node -> 0 .. EscalationCap]

RunTyped ==
  /\ pc \in {"top", "architect", "judge", "redo", "breakdown", "over"}
  /\ batch \subseteq Node
  /\ work \in [Node \cup {Root} -> Stage]
  /\ unpausing \in Node \cup {NoNode}
  /\ episodes \in Nat
  /\ left \in 0 .. Continuations
  /\ workers \in 1 .. MaxWorkers
  /\ stop \in BOOLEAN /\ failed \in BOOLEAN /\ raised \in BOOLEAN
  /\ result \in {"none", "stopped", "failed", "budget", "complete", "no plan", "raised"}
  /\ runs \in 1 .. MaxRuns
  /\ reopening \in [Node \cup {Root} -> Node \cup {NoNode}]
  /\ torn \subseteq Node

LEMMA TypeParts == TypeOK <=> RowsTyped /\ RunTyped
BY DEF TypeOK, RowsTyped, RunTyped

\* What a run starts with is in bounds.
LEMMA Starting == Continuations \in 0 .. Continuations /\ 1 \in 1 .. MaxWorkers
BY Sizes

LEMMA RowsUnchanged ==
  ASSUME RowsTyped, UNCHANGED dbVars
  PROVE  RowsTyped'
BY DEF RowsTyped, TreeTypeOK, dbVars

\* However run() returns, what it held in memory is gone.
LEMMA ReturnTyped ==
  ASSUME RunTyped, NEW why \in {"stopped", "failed", "budget", "complete", "no plan", "raised"},
         Return(why)
  PROVE  RunTyped'
<1>1. stop' \in BOOLEAN /\ failed' \in BOOLEAN /\ raised' \in BOOLEAN
  BY DEF Return, RunTyped
<1>2. work' \in [Node \cup {Root} -> Stage]
  BY DEF Return, Idle, Stage
<1>3. runs' \in 1 .. MaxRuns
  BY DEF Return, RunTyped
<1>4. left' \in 0 .. Continuations /\ workers' \in 1 .. MaxWorkers /\ episodes' \in Nat
  <2>1. left' = Continuations /\ workers' = 1 /\ episodes' = 0
    BY DEF Return
  <2> QED
    BY <2>1, Starting
<1>5. batch' \subseteq Node /\ unpausing' \in Node \cup {NoNode}
  BY DEF Return
<1>6. /\ pc' \in {"top", "architect", "judge", "redo", "breakdown", "over"}
      /\ result' \in {"none", "stopped", "failed", "budget", "complete", "no plan", "raised"}
  BY DEF Return
<1>7. reopening' \in [Node \cup {Root} -> Node \cup {NoNode}]
  BY DEF Return, NoCall
<1>8. torn' \subseteq Node
  BY DEF Return, RunTyped
<1> QED
  BY <1>1, <1>2, <1>3, <1>4, <1>5, <1>6, <1>7, <1>8 DEF RunTyped

\* The tools leave what the run holds in memory alone.
Tool ==
  \E scope \in Node \cup {Root} :
    \/ \E m \in Node, under \in nodes \cup {Root}, d \in Deps : AddNode(scope, m, under, d)
    \/ \E n \in nodes : \/ \E d \in Deps \cup {depends_on[n]} : UpdateNode(scope, n, d)
                        \/ DeleteNode(scope, n)
    \/ Reopen(scope) \/ Escalate(scope)

LEMMA ToolsOnlyWrite == Tool => UNCHANGED memory
BY DEF Tool, AddNode, UpdateNode, Reopen, DeleteNode, Escalate

LEMMA ToolsTyped ==
  ASSUME TypeOK, Tool
  PROVE  reopening' \in [Node \cup {Root} -> Node \cup {NoNode}] /\ torn' \subseteq Node
<1>1. /\ reopening \in [Node \cup {Root} -> Node \cup {NoNode}] /\ torn \subseteq Node
      /\ nodes \subseteq Node
  BY DEF TypeOK, TreeTypeOK
<1>2. \/ reopening' = reopening
      \/ \E scope, n \in Node \cup {NoNode} : reopening' = [reopening EXCEPT ![scope] = n]
  <2>1. ASSUME NEW scope \in Node \cup {Root}, Reopen(scope)
        PROVE  reopening' = [reopening EXCEPT ![scope] = NoNode]
    BY <2>1 DEF Reopen
  <2> QED
    BY <1>1, <2>1 DEF Tool, AddNode, UpdateNode, DeleteNode, Escalate, toolVars, NoNode
<1>3. torn' \subseteq torn
  BY DEF Tool, AddNode, UpdateNode, Reopen, DeleteNode, Escalate, toolVars
<1> QED
  BY <1>1, <1>2, <1>3

\* Nobody else touches what a call has yet to do, unless it ends with the run.
LEMMA OthersLeaveCalls ==
  ASSUME [InterruptedNext]_vars
  PROVE  Tool \/ UNCHANGED toolVars \/ \E why : Return(why)
<1>1. CASE ReturnEarly \/ OutOfEpisodes \/ NothingLeft \/ Crash
  BY <1>1 DEF ReturnEarly, OutOfEpisodes, NothingLeft, Crash
<1>2. CASE BatchDone \/ \E r \in Reasons : CloseArchitect(r)
  BY <1>2 DEF BatchDone, CloseArchitect, endVars
<1>3. ASSUME NEW l \in Level, Take(l)
      PROVE  UNCHANGED toolVars
  BY <1>3 DEF Take, TakeJudge, TakeRedo, TakeFirst, TakeAll, endVars
<1>4. CASE Judging
  BY <1>4 DEF Judging, JudgeOne, Unpause, JudgeDone, endVars
<1>5. ASSUME NEW n \in Node \cup {Root}, Start(n) \/ Open(n) \/ Continue(n) \/ Retry(n)
      PROVE  UNCHANGED toolVars
  BY <1>5 DEF Start, Open, Continue, Retry, others
<1>6. ASSUME NEW n \in Node, Close(n)
      PROVE  UNCHANGED toolVars
  BY <1>6 DEF Close, CloseBreakdown, CloseRedo, others
<1>7. CASE ContinueArchitect \/ Stop \/ Restart
  BY <1>7 DEF ContinueArchitect, Stop, Restart, endVars
<1>8. CASE UNCHANGED vars
  BY <1>8 DEF vars, toolVars
<1> QED
  BY <1>1, <1>2, <1>3, <1>4, <1>5, <1>6, <1>7, <1>8
     DEF InterruptedNext, Next, Step, Loop, Episodes, Call, Tool, Over

LEMMA RunTypeKept ==
  ASSUME TypeOK, [InterruptedNext]_vars
  PROVE  RunTyped'
<1>0. RowsTyped /\ RunTyped
  BY TypeParts
<1> USE DEF toolVars
<1>1. CASE ReturnEarly \/ OutOfEpisodes \/ NothingLeft
  BY <1>0, <1>1, ReturnTyped DEF ReturnEarly, OutOfEpisodes, NothingLeft
<1>2. CASE BatchDone
  <2>1. CASE raised
    BY <1>0, <1>2, <2>1, ReturnTyped DEF BatchDone
  <2>2. CASE ~ raised
    <3>1. workers' \in 1 .. MaxWorkers /\ pc' = "top"
      BY <1>2, <2>2, Sizes DEF BatchDone
    <3> QED
      BY <1>0, <1>2, <2>2, <3>1 DEF BatchDone, RunTyped, endVars
  <2> QED
    BY <2>1, <2>2
<1>3. ASSUME NEW l \in Level, TakeJudge(l)
      PROVE  RunTyped'
  BY <1>0, <1>3 DEF TakeJudge, Pending, RunTyped, RowsTyped, TreeTypeOK,
     endVars
<1>4. ASSUME NEW l \in Level, NEW n \in nodes, TakeRedo(l, n)
      PROVE  RunTyped'
  BY <1>0, <1>4 DEF TakeRedo, RunTyped, Stage, endVars, RowsTyped, TreeTypeOK
<1>5. ASSUME NEW l \in Level, NEW n \in nodes, TakeFirst(l, n)
      PROVE  RunTyped'
  <2>1. workers' \in 1 .. MaxWorkers
    BY <1>5, Sizes DEF TakeFirst
  <2>2. n \in Node
    BY <1>0 DEF RowsTyped, TreeTypeOK
  <2> QED
    BY <1>0, <1>5, <2>1, <2>2 DEF TakeFirst, RunTyped, Stage, endVars
<1>6. ASSUME NEW l \in Level, NEW w \in Workers, TakeAll(l, w)
      PROVE  RunTyped'
  BY <1>0, <1>6, WorkersFit DEF TakeAll, Pending, RunTyped, endVars,
     RowsTyped, TreeTypeOK
<1>7. ASSUME NEW n \in batch, NEW v, JudgeOne(n, v)
      PROVE  RunTyped'
  BY <1>0, <1>7 DEF JudgeOne, RunTyped, endVars
<1>8. CASE Unpause
  BY <1>0, <1>8 DEF Unpause, RunTyped, loopVars, endVars
<1>9. CASE JudgeDone
  BY <1>0, <1>9 DEF JudgeDone, RunTyped, endVars
<1>10. ASSUME NEW n \in Node, Start(n)
      PROVE  RunTyped'
  BY <1>0, <1>10 DEF Start, RunTyped, Stage, others
<1>11. ASSUME NEW n \in Node \cup {Root}, Open(n)
      PROVE  RunTyped'
  <2>1. Opened[work[n]] \in Stage
    BY <1>11 DEF Open, AboutToOpen, Opened, Stage
  <2>2. work' \in [Node \cup {Root} -> Stage]
    BY <1>0, <1>11, <2>1 DEF Open, RunTyped
  <2>3. episodes \in Nat /\ episodes' = episodes + 1
    BY <1>0, <1>11 DEF Open, RunTyped
  <2>4. episodes' \in Nat
    BY <2>3
  <2> QED
    BY <1>0, <1>11, <2>2, <2>4 DEF Open, RunTyped, others
<1>12. ASSUME NEW n \in Node, Continue(n) \/ Retry(n)
      PROVE  RunTyped'
  BY <1>0, <1>12 DEF Continue, Retry, RunTyped, Stage, others
<1>13. ASSUME NEW n \in Node, NEW r \in Reasons, CloseBreakdown(n, r)
      PROVE  RunTyped'
  BY <1>0, <1>13 DEF CloseBreakdown, AfterBreakdown, RunTyped, Stage, others
<1>14. ASSUME NEW n \in Node, CloseRedo(n)
      PROVE  RunTyped'
  BY <1>0, <1>14 DEF CloseRedo, AfterRedo, RunTyped, Stage, others
<1>15. CASE ContinueArchitect
  <2>1. left' \in 0 .. Continuations
    <3>1. left \in 0 .. Continuations /\ left > 0 /\ left' = left - 1
      BY <1>0, <1>15 DEF ContinueArchitect, RunTyped
    <3> QED
      BY <3>1, Sizes
  <2> QED
    BY <1>0, <1>15, <2>1 DEF ContinueArchitect, RunTyped, Stage, loopVars, endVars
<1>16. ASSUME NEW r \in Reasons, CloseArchitect(r)
      PROVE  RunTyped'
  <2>1. CASE nodes = {}
    BY <1>0, <1>16, <2>1, ReturnTyped DEF CloseArchitect
  <2>2. CASE nodes # {}
    <3>1. left' \in 0 .. Continuations /\ pc' = "top" /\ work' = Idle
      BY <1>16, <2>2, Starting DEF CloseArchitect
    <3>2. work' \in [Node \cup {Root} -> Stage]
      BY <3>1 DEF Idle, Stage
    <3> QED
      BY <1>0, <1>16, <2>2, <3>1, <3>2 DEF CloseArchitect, RunTyped, endVars
  <2> QED
    BY <2>1, <2>2
<1>17. CASE Tool
  BY <1>0, <1>17, ToolsOnlyWrite, ToolsTyped DEF memory, RunTyped, loopVars
<1>18. CASE Stop
  BY <1>0, <1>18 DEF Stop, RunTyped, loopVars
<1>19. CASE Crash
  BY <1>0, <1>19, ReturnTyped DEF Crash
<1>20. CASE Restart
  <2>1. runs' \in 1 .. MaxRuns
    <3>1. runs \in 1 .. MaxRuns /\ runs < MaxRuns /\ runs' = runs + 1
      BY <1>0, <1>20 DEF Restart, RunTyped
    <3> QED
      BY <3>1, Sizes
  <2>2. work' \in [Node \cup {Root} -> Stage]
    BY <1>20 DEF Restart, Idle, Stage
  <2>3. /\ pc' \in {"top", "architect", "judge", "redo", "breakdown", "over"}
        /\ result' \in {"none", "stopped", "failed", "budget", "complete", "no plan", "raised"}
        /\ stop' \in BOOLEAN
    BY <1>20 DEF Restart
  <2> QED
    BY <1>0, <1>20, <2>1, <2>2, <2>3 DEF Restart, RunTyped
<1>21. CASE UNCHANGED vars
  BY <1>0, <1>21 DEF vars, RunTyped
<1> QED
  BY <1>1, <1>2, <1>3, <1>4, <1>5, <1>6, <1>7, <1>8, <1>9, <1>10, <1>11,
     <1>12, <1>13, <1>14, <1>15, <1>16, <1>17, <1>18, <1>19, <1>20, <1>21
     DEF InterruptedNext, Next, Step, Loop, Take, Judging,
     Episodes, Close, Call, Tool, Over

\* The steps that write to the database.
Writes ==
  \/ OutOfEpisodes \/ Unpause \/ Tool
  \/ \E n \in batch : \E v \in MayJudge[level[n]] : JudgeOne(n, v)
  \/ \E n \in Node : (\E r \in Reasons : CloseBreakdown(n, r)) \/ CloseRedo(n)

LEMMA OthersOnlyRead ==
  ASSUME [InterruptedNext]_vars
  PROVE  Writes \/ UNCHANGED dbVars
<1>1. CASE ReturnEarly \/ NothingLeft \/ BatchDone
  BY <1>1 DEF ReturnEarly, NothingLeft, BatchDone
<1>2. ASSUME NEW l \in Level, Take(l)
      PROVE  UNCHANGED dbVars
  BY <1>2 DEF Take, TakeJudge, TakeRedo, TakeFirst, TakeAll
<1>3. CASE JudgeDone \/ ContinueArchitect \/ \E r \in Reasons : CloseArchitect(r)
  BY <1>3 DEF JudgeDone, ContinueArchitect, CloseArchitect
<1>4. ASSUME NEW n \in Node \cup {Root}, Start(n) \/ Open(n) \/ Continue(n) \/ Retry(n)
      PROVE  UNCHANGED dbVars
  BY <1>4 DEF Start, Open, Continue, Retry, others, dbVars
<1>5. CASE Stop \/ Crash \/ Restart
  BY <1>5 DEF Stop, Crash, Restart
<1>6. CASE UNCHANGED vars
  BY <1>6 DEF vars, dbVars
<1> QED
  BY <1>1, <1>2, <1>3, <1>4, <1>5, <1>6
     DEF InterruptedNext, Next, Step, Loop, Judging, Episodes, Close, Call, Tool, Over, Writes

LEMMA BumpTyped ==
  ASSUME RowsTyped, NEW n \in Node
  PROVE  Bump(n) \in [Node -> 0 .. RedoCap]
<1>1. redo_count[n] \in 0 .. RedoCap
  BY DEF RowsTyped
<1>2. (IF redo_count[n] < RedoCap THEN redo_count[n] + 1 ELSE redo_count[n]) \in 0 .. RedoCap
  BY <1>1, Sizes
<1> QED
  BY <1>2 DEF Bump, RowsTyped

LEMMA RowsTypeKept ==
  ASSUME TypeOK, [InterruptedNext]_vars
  PROVE  RowsTyped'
<1>0. RowsTyped /\ RunTyped
  BY TypeParts
<1> USE DEF RowsTyped, TreeTypeOK, countVars, PlanStatus, Status
<1>1. CASE OutOfEpisodes
  BY <1>0, <1>1 DEF OutOfEpisodes
<1>2. CASE Unpause
  BY <1>0, <1>2 DEF Unpause
<1>3. ASSUME NEW n \in batch, NEW v \in MayJudge[level[n]], JudgeOne(n, v)
      PROVE  RowsTyped'
  <2>1. n \in Node /\ level[n] \in Level
    BY <1>0 DEF RunTyped
  <2>2. v \in Opinion
    BY <2>1, VerdictsFit
  <2>3. Settled(n, v) \in PlanStatus
    BY <2>2 DEF Settled, Opinion
  <2>4. redo_count' \in [Node -> 0 .. RedoCap]
    BY <1>0, <1>3, <2>1, BumpTyped DEF JudgeOne
  <2> QED
    BY <1>0, <1>3, <2>3, <2>4 DEF JudgeOne
<1>4. ASSUME NEW n \in Node, NEW r \in Reasons, CloseBreakdown(n, r)
      PROVE  RowsTyped'
  <2>1. plan_status' \in [Node -> PlanStatus]
    BY <1>0, <1>4 DEF CloseBreakdown, AfterBreakdown
  <2>2. redo_count' \in [Node -> 0 .. RedoCap]
    BY <1>0, <1>4, BumpTyped DEF CloseBreakdown, AfterBreakdown
  <2> QED
    BY <1>0, <1>4, <2>1, <2>2 DEF CloseBreakdown, others
<1>5. ASSUME NEW n \in Node, CloseRedo(n)
      PROVE  RowsTyped'
  <2>1. plan_status' \in [Node -> PlanStatus]
    BY <1>0, <1>5 DEF CloseRedo, AfterRedo
  <2>2. redo_count' \in [Node -> 0 .. RedoCap]
    BY <1>0, <1>5, BumpTyped DEF CloseRedo, AfterRedo
  <2> QED
    BY <1>0, <1>5, <2>1, <2>2 DEF CloseRedo, others
<1>6. ASSUME NEW scope \in Node \cup {Root}, NEW m \in Node, NEW under \in nodes \cup {Root},
             NEW deps \in Deps, AddNode(scope, m, under, deps)
      PROVE  RowsTyped'
  <2>1. Role(scope) \in Level
    BY <1>0 DEF Role, NextRole, Level
  <2>2. deps \in SUBSET Node /\ under \in Node \cup {Root}
    BY <1>0 DEF Deps
  <2>3. [status EXCEPT ![m] = "todo"] \in [Node -> Status]
    BY <1>0
  <2>4. 0 \in 0 .. RedoCap /\ 0 \in 0 .. EscalationCap
    BY Sizes
  <2> QED
    BY <1>0, <1>6, <2>1, <2>2, <2>3, <2>4 DEF AddNode, Insert
<1>7. ASSUME NEW scope, NEW n \in nodes, NEW deps, UpdateNode(scope, n, deps)
      PROVE  RowsTyped'
  <2>1. [status EXCEPT ![n] = "todo"] \in [Node -> Status]
    BY <1>0
  <2> QED
    BY <1>0, <1>7, <2>1 DEF UpdateNode
<1>8. ASSUME NEW scope, NEW n \in nodes, DeleteNode(scope, n)
      PROVE  RowsTyped'
  <2>1. 0 \in 0 .. RedoCap /\ 0 \in 0 .. EscalationCap
    BY Sizes
  <2> QED
    BY <1>0, <1>8, <2>1 DEF DeleteNode
<1>9. ASSUME NEW scope \in Node \cup {Root}, Escalate(scope)
      PROVE  RowsTyped'
  <2>1. PICK back \in Node :
          /\ escalation_count[back] < EscalationCap
          /\ plan_status' = [plan_status EXCEPT ![back] = "redo"]
          /\ escalation_count' = [escalation_count EXCEPT ![back] = @ + 1]
          /\ paused' = [m \in Node |-> paused[m] \/ m \in Under(back) \ {back}]
    <3> DEFINE b == IF level[scope] # Role(scope) THEN scope ELSE parent[scope]
    <3>1. scope \in Node /\ b # Root
      BY <1>0, <1>9, Sizes DEF Escalate
    <3>2. b \in Node
      BY <1>0, <3>1
    <3> QED
      BY <1>9, <3>2 DEF Escalate
  <2>2. escalation_count' \in [Node -> 0 .. EscalationCap]
    <3>1. escalation_count[back] + 1 \in 0 .. EscalationCap
      BY <1>0, <2>1, Sizes
    <3> QED
      BY <1>0, <2>1, <3>1
  <2>3. paused' \in [Node -> BOOLEAN]
    BY <1>0, <2>1
  <2> QED
    BY <1>0, <1>9, <2>1, <2>2, <2>3 DEF Escalate
<1>10. ASSUME NEW scope, Reopen(scope)
       PROVE  RowsTyped'
  <2>1. status' \in [Node -> Status]
    BY <1>0, <1>10 DEF Reopen
  <2> QED
    BY <1>0, <1>10, <2>1 DEF Reopen
<1> HIDE DEF RowsTyped, TreeTypeOK
<1>11. CASE Tool
  BY <1>6, <1>7, <1>8, <1>9, <1>10, <1>11 DEF Tool
<1> QED
  BY <1>0, <1>1, <1>2, <1>3, <1>4, <1>5, <1>11, OthersOnlyRead, RowsUnchanged DEF Writes

---------------------------------------------------------------------------
(* What every step does to the tree.                                       *)

LEMMA TreeKept ==
  ASSUME TypeOK, TreeInv, [InterruptedNext]_vars
  PROVE  TreeInv' /\ \A n \in nodes : DoneLeaf(n) => DoneLeaf(n)'
<1>1. ASSUME UNCHANGED <<nodes, parent, depends_on, status>>,
             UNCHANGED toolVars \/ \E why : Return(why)
      PROVE  TreeInv' /\ \A n \in nodes : DoneLeaf(n) => DoneLeaf(n)'
  <2>1. CallsKnown'
    <3>1. CASE UNCHANGED toolVars
      BY <1>1, <3>1 DEF TreeInv, CallsKnown, toolVars
    <3>2. CASE \E why : Return(why)
      BY <3>2 DEF Return, NoCall, CallsKnown
    <3> QED
      BY <1>1, <3>1, <3>2
  <2>2. \A n \in nodes : n \in Halfway => n \in Halfway'
    <3>1. CASE UNCHANGED toolVars
      BY <3>1 DEF Halfway, toolVars
    <3>2. CASE \E why : Return(why)
      <4>1. torn' = torn \cup ({reopening[s] : s \in DOMAIN reopening} \ {NoNode})
        BY <3>2 DEF Return
      <4>2. NoNode \notin nodes
        BY Sizes DEF TypeOK, TreeTypeOK, NoNode
      <4> QED
        BY <4>1, <4>2 DEF Halfway
    <3> QED
      BY <1>1, <3>1, <3>2
  <2>3. ParentsReopened'
    BY <1>1, <2>2 DEF TreeInv, ParentsReopened
  <2> QED
    BY <1>1, <2>1, <2>3
    DEF TreeInv, WellFormed, Up, DependenciesSound, Acyclic, DoneLeaf, Children
<1>2. CASE UNCHANGED dbVars /\ ~ Tool
  BY <1>1, <1>2, OthersLeaveCalls DEF dbVars
<1>3. CASE OutOfEpisodes \/ Unpause
  BY <1>1, <1>3 DEF OutOfEpisodes, Unpause, endVars
<1>4. ASSUME NEW n, NEW v, JudgeOne(n, v)
      PROVE  UNCHANGED <<nodes, parent, depends_on, status, toolVars>>
  BY <1>4 DEF JudgeOne, endVars
<1>5. ASSUME NEW n, NEW r, CloseBreakdown(n, r) \/ CloseRedo(n)
      PROVE  UNCHANGED <<nodes, parent, depends_on, status, toolVars>>
  BY <1>5 DEF CloseBreakdown, CloseRedo, others
<1>6. ASSUME NEW scope, Escalate(scope)
      PROVE  UNCHANGED <<nodes, parent, depends_on, status, toolVars>>
  BY <1>6 DEF Escalate
<1>7. CASE Tool
  BY <1>1, <1>6, <1>7, AddKeeps, UpdateKeeps, ReopenKeeps, DeleteKeeps DEF Tool, Deps
<1> QED
  BY <1>1, <1>2, <1>3, <1>4, <1>5, <1>7, OthersOnlyRead DEF Writes

---------------------------------------------------------------------------
(* The loop: where its episodes are, how many it opens.                    *)

LoopInv == Places /\ Counting /\ EpisodesBounded

LEMMA Counted ==
  ASSUME NEW S \in SUBSET Node
  PROVE  IsFiniteSet(S) /\ Cardinality(S) \in Nat
<1>1. IsFiniteSet(Node)
  BY MaxNodeAssumption, FS_Interval DEF Node
<1> QED
  BY <1>1, FS_Subset, FS_CardinalityType

LEMMA Smaller ==
  ASSUME NEW S \in SUBSET Node, NEW T \in SUBSET S
  PROVE  Cardinality(T) <= Cardinality(S)
BY Counted, FS_Subset

LEMMA OneFewer ==
  ASSUME NEW S \in SUBSET Node, NEW n \in S
  PROVE  Cardinality(S \ {n}) = Cardinality(S) - 1
BY Counted, FS_RemoveElement

LEMMA OpeningsCounted ==
  /\ Opening1 \in SUBSET Node /\ Opening2 \in SUBSET Node /\ Opening3 \in SUBSET Node
  /\ Opening1' \in SUBSET Node /\ Opening2' \in SUBSET Node /\ Opening3' \in SUBSET Node
  /\ Active \in SUBSET Node /\ Active' \in SUBSET Node
  /\ Cardinality(Opening1) \in Nat /\ Cardinality(Opening1') \in Nat
  /\ Cardinality(Opening2) \in Nat /\ Cardinality(Opening2') \in Nat
  /\ Cardinality(Opening3) \in Nat /\ Cardinality(Opening3') \in Nat
  /\ Cardinality(Active) \in Nat /\ Cardinality(Active') \in Nat
<1>1. /\ Opening1 \in SUBSET Node /\ Opening2 \in SUBSET Node /\ Opening3 \in SUBSET Node
      /\ Opening1' \in SUBSET Node /\ Opening2' \in SUBSET Node /\ Opening3' \in SUBSET Node
      /\ Active \in SUBSET Node /\ Active' \in SUBSET Node
  BY DEF Opening1, Opening2, Opening3, Active
<1> QED
  BY <1>1, Counted

\* What the loop's own counts are.
LEMMA LoopNumbers ==
  ASSUME TypeOK
  PROVE  /\ episodes \in Nat /\ left \in Nat
         /\ workers \in Nat /\ 1 <= workers /\ workers <= MaxWorkers
<1>1. episodes \in Nat /\ left \in 0 .. Continuations /\ workers \in 1 .. MaxWorkers
  BY DEF TypeOK
<1> QED
  BY <1>1, Sizes

\* The bound follows from what may still be opened.
LEMMA CountingBounds ==
  ASSUME RunTyped', Counting'
  PROVE  pc' \in {"architect", "redo", "breakdown"} => EpisodesBounded'
<1>1. episodes' \in Nat /\ left' \in Nat
  <2>1. episodes' \in Nat /\ left' \in 0 .. Continuations
    BY DEF RunTyped
  <2> QED
    BY <2>1, Sizes
<1>2. CASE pc' = "architect"
  <2>1. episodes' + left' <= 1 + Continuations
    BY <1>2 DEF Counting
  <2>2. \A e, l \in Nat : e + l <= 1 + Continuations => e <= 1 + Continuations
    BY Sizes
  <2>3. episodes' <= 1 + Continuations
    BY <1>1, <2>1, <2>2
  <2> QED
    BY <2>3 DEF EpisodesBounded
<1>3. CASE pc' \in {"redo", "breakdown"}
  <2>1. episodes' + Cardinality(Opening1') + Cardinality(Opening2') + Cardinality(Opening3')
          <= MaxEpisodes - 1 + 3 * MaxWorkers
    BY <1>3 DEF Counting
  <2>2. episodes' <= MaxEpisodes - 1 + 3 * MaxWorkers
    BY <1>1, <2>1, OpeningsCounted, Sizes
  <2> QED
    BY <2>2 DEF EpisodesBounded
<1> QED
  BY <1>2, <1>3

LEMMA ReturnKeepsLoop ==
  ASSUME NEW why, Return(why)
  PROVE  LoopInv'
<1>1. /\ pc' = "over" /\ batch' = {} /\ work' = Idle /\ unpausing' = NoNode
      /\ episodes' = 0 /\ left' = Continuations
  BY DEF Return
<1>2. Active' = {} /\ work'[Root] = "idle"
  BY <1>1 DEF Active, Idle
<1>3. EpisodesBounded'
  BY <1>1, Sizes DEF EpisodesBounded
<1> QED
  BY <1>1, <1>2, <1>3 DEF LoopInv, Places, Counting

\* Steps that leave the episodes as they are, and where the loop is.
LEMMA SameLoop ==
  ASSUME LoopInv, UNCHANGED <<pc, work, episodes, left>>, batch' \subseteq batch,
         unpausing' \in {unpausing, NoNode} \/ pc = "judge"
  PROVE  LoopInv'
<1>1. /\ Opening1' = Opening1 /\ Opening2' = Opening2 /\ Opening3' = Opening3
      /\ Active' = Active
  BY DEF Opening1, Opening2, Opening3, Active
<1>2. EpisodesBounded'
  BY DEF LoopInv, EpisodesBounded
<1>3. Counting'
  BY <1>1 DEF LoopInv, Counting, AboutToOpen
<1>4. Places'
  BY <1>1 DEF LoopInv, Places
<1> QED
  BY <1>2, <1>3, <1>4 DEF LoopInv

\* A run looks at the budget, then takes up at most one episode or a batch.
LEMMA TakeKeepsLoop ==
  ASSUME TypeOK, RunTyped', LoopInv, AtTop,
         UNCHANGED <<unpausing, episodes, left>>,
         pc' \in {"redo", "breakdown"},
         pc' = "redo" => batch' = {},
         batch' \in SUBSET Node,
         \/ work' = work
         \/ batch' = {} /\ \E n \in Node : work' = [work EXCEPT ![n] = "start"]
  PROVE  LoopInv'
<1>1. /\ pc = "top" /\ episodes < MaxEpisodes /\ episodes \in Nat
      /\ work \in [Node \cup {Root} -> Stage]
  BY DEF AtTop, TypeOK
<1>2. Active = {} /\ work[Root] = "idle" /\ unpausing = NoNode
  BY <1>1 DEF LoopInv, Places
<1>3. CASE work' = work
  <2>1. Active' = {} /\ Opening1' = {} /\ Opening2' = {} /\ Opening3' = {}
    BY <1>2, <1>3 DEF Active, Opening1, Opening2, Opening3
  <2>2. Places'
    BY <1>2, <1>3, <2>1 DEF Places
  <2>3. episodes' + Cardinality(Opening1') + Cardinality(Opening2') + Cardinality(Opening3')
          <= MaxEpisodes - 1 + 3 * MaxWorkers
    BY <1>1, <2>1, FS_EmptySet, Sizes
  <2>4. Counting'
    BY <2>3 DEF Counting
  <2> QED
    BY <2>2, <2>4, CountingBounds DEF LoopInv
<1>4. ASSUME NEW n \in Node, work' = [work EXCEPT ![n] = "start"], batch' = {}
      PROVE  LoopInv'
  <2>1. Active' = {n} /\ Opening1' = {n} /\ Opening2' = {n} /\ Opening3' = {n}
        /\ work'[Root] = "idle"
    BY <1>1, <1>2, <1>4, Sizes DEF Active, Opening1, Opening2, Opening3
  <2>2. Places'
    BY <1>2, <1>4, <2>1 DEF Places
  <2>3. Cardinality({n}) = 1
    BY FS_Singleton
  <2>4. episodes' + Cardinality(Opening1') + Cardinality(Opening2') + Cardinality(Opening3')
          <= MaxEpisodes - 1 + 3 * MaxWorkers
    BY <1>1, <2>1, <2>3, Sizes
  <2>5. Counting'
    BY <2>4 DEF Counting
  <2> QED
    BY <2>2, <2>5, CountingBounds DEF LoopInv
<1> QED
  BY <1>3, <1>4

\* A thread that has looked at the budget may open three episodes, and there
\* are no more threads than MaxWorkers.
LEMMA StartKeepsLoop ==
  ASSUME TypeOK, RunTyped', LoopInv, NEW n \in Node, Start(n)
  PROVE  LoopInv'
<1>1. /\ pc = "breakdown" /\ n \in batch /\ batch' = batch \ {n}
      /\ UNCHANGED <<pc, unpausing, episodes, left>>
      /\ Cardinality(Active) < workers
      /\ work \in [Node \cup {Root} -> Stage]
  BY DEF Start, Eldest, others, TypeOK
<1>2. CASE work' = work
  BY <1>1, <1>2, SameLoop
<1>3. CASE work' # work
  <2>1. work' = [work EXCEPT ![n] = "start"] /\ episodes < MaxEpisodes
    <3>1. work' = [work EXCEPT ![n] = "start"] /\ ~ (episodes >= MaxEpisodes)
      BY <1>3 DEF Start
    <3> QED
      BY <3>1, LoopNumbers, Sizes
  <2>2. n \notin Active /\ work[Root] = "idle"
    BY <1>1 DEF LoopInv, Places
  <2>3. Active' = Active \cup {n} /\ work'[Root] = "idle"
    BY <1>1, <2>1, <2>2, Sizes DEF Active
  <2>4. Cardinality(Active') = Cardinality(Active) + 1
    BY <2>2, <2>3, Counted, OpeningsCounted, FS_AddElement
  <2>5. Cardinality(Active') <= MaxWorkers
    BY <1>1, <2>4, OpeningsCounted, LoopNumbers, Sizes
  <2>6. Opening1' \subseteq Active' /\ Opening2' \subseteq Active' /\ Opening3' \subseteq Active'
    BY DEF Opening1, Opening2, Opening3, Active
  <2>7. /\ Cardinality(Opening1') <= Cardinality(Active')
        /\ Cardinality(Opening2') <= Cardinality(Active')
        /\ Cardinality(Opening3') <= Cardinality(Active')
    BY <2>6, Smaller, OpeningsCounted
  <2>8. episodes' + Cardinality(Opening1') + Cardinality(Opening2') + Cardinality(Opening3')
          <= MaxEpisodes - 1 + 3 * MaxWorkers
    BY <1>1, <2>1, <2>5, <2>7, OpeningsCounted, LoopNumbers, Sizes
  <2>9. Counting'
    BY <1>1, <2>8 DEF Counting
  <2>10. Places'
    BY <1>1, <2>2, <2>3 DEF LoopInv, Places
  <2> QED
    BY <1>1, <2>9, <2>10, CountingBounds DEF LoopInv
<1> QED
  BY <1>2, <1>3

LEMMA OpenKeepsLoop ==
  ASSUME TypeOK, RunTyped', LoopInv, NEW n \in Node \cup {Root}, Open(n)
  PROVE  LoopInv'
<1>1. /\ AboutToOpen(n) /\ episodes' = episodes + 1
      /\ work' = [work EXCEPT ![n] = Opened[work[n]]]
      /\ UNCHANGED <<pc, batch, unpausing, left>>
      /\ work \in [Node \cup {Root} -> Stage]
  BY DEF Open, others, TypeOK
<1>2. work[n] \in {"start", "again", "retry"}
  BY <1>1 DEF AboutToOpen
<1>3. CASE n = Root
  <2>1. pc = "architect" /\ Active = {} /\ unpausing = NoNode /\ batch = {}
    BY <1>2, <1>3 DEF LoopInv, Places
  <2>2. Active' = {}
    BY <1>1, <1>3, <2>1, Sizes DEF Active
  <2>3. Places'
    BY <1>1, <2>1, <2>2 DEF Places
  <2>4. episodes + left <= Continuations
    BY <1>1, <1>3, <2>1 DEF LoopInv, Counting
  <2>5. ~ AboutToOpen(Root)'
    BY <1>1, <1>2, <1>3 DEF AboutToOpen, Opened
  <2>6. episodes' + left' <= 1 + Continuations
    BY <1>1, <2>4, LoopNumbers, Sizes
  <2>7. Counting'
    BY <1>1, <2>1, <2>5, <2>6 DEF Counting
  <2> QED
    BY <1>1, <2>1, <2>3, <2>7, CountingBounds DEF LoopInv
<1>4. CASE n # Root
  <2>1. n \in Active /\ n \in Node
    BY <1>2, <1>4 DEF Active
  <2>2. pc \in {"redo", "breakdown"}
    BY <2>1 DEF LoopInv, Places, TypeOK
  <2>3. Active' = Active /\ work'[Root] = work[Root]
    BY <1>1, <1>2, <1>4, <2>1 DEF Active, Opened
  <2>4. Places'
    BY <1>1, <2>2, <2>3 DEF LoopInv, Places
  <2>5. \/ Opening1' = Opening1 \ {n} /\ n \in Opening1 /\ Opening2' = Opening2 /\ Opening3' = Opening3
        \/ Opening2' = Opening2 \ {n} /\ n \in Opening2 /\ Opening1' = Opening1 /\ Opening3' = Opening3
        \/ Opening3' = Opening3 \ {n} /\ n \in Opening3 /\ Opening1' = Opening1 /\ Opening2' = Opening2
    <3>1. CASE work[n] = "start"
      BY <1>1, <2>1, <3>1 DEF Opening1, Opening2, Opening3, Opened
    <3>2. CASE work[n] = "again"
      BY <1>1, <2>1, <3>2 DEF Opening1, Opening2, Opening3, Opened
    <3>3. CASE work[n] = "retry"
      BY <1>1, <2>1, <3>3 DEF Opening1, Opening2, Opening3, Opened
    <3> QED
      BY <1>2, <3>1, <3>2, <3>3
  <2>6. Cardinality(Opening1') + Cardinality(Opening2') + Cardinality(Opening3')
          = Cardinality(Opening1) + Cardinality(Opening2) + Cardinality(Opening3) - 1
    BY <2>5, OneFewer, OpeningsCounted
  <2>7. episodes' + Cardinality(Opening1') + Cardinality(Opening2') + Cardinality(Opening3')
          = episodes + Cardinality(Opening1) + Cardinality(Opening2) + Cardinality(Opening3)
    BY <1>1, <2>6, OpeningsCounted, LoopNumbers
  <2>8. Counting'
    BY <1>1, <2>2, <2>7 DEF LoopInv, Counting
  <2> QED
    BY <1>1, <2>2, <2>4, <2>8, CountingBounds DEF LoopInv
<1> QED
  BY <1>3, <1>4

\* Episodes that go on, or close, open no more than they could.
LEMMA FewerKeepsLoop ==
  ASSUME TypeOK, RunTyped', LoopInv, NEW n \in Node, pc = "breakdown",
         UNCHANGED <<pc, batch, unpausing, episodes, left>>,
         NEW stage \in Stage, work' = [work EXCEPT ![n] = stage],
         \/ stage = "idle"
         \/ stage = "again" /\ work[n] = "first"
         \/ stage = "retry" /\ work[n] \in {"first", "second"}
  PROVE  LoopInv'
<1>1. work \in [Node \cup {Root} -> Stage]
  BY DEF TypeOK
<1>2. Active' \subseteq Active /\ work'[Root] = work[Root]
  BY <1>1, Sizes DEF Active
<1>3. Opening1' \subseteq Opening1 /\ Opening2' \subseteq Opening2 /\ Opening3' \subseteq Opening3
  BY <1>1 DEF Opening1, Opening2, Opening3
<1>4. Places'
  BY <1>2 DEF LoopInv, Places
<1>5. /\ Cardinality(Opening1') <= Cardinality(Opening1)
      /\ Cardinality(Opening2') <= Cardinality(Opening2)
      /\ Cardinality(Opening3') <= Cardinality(Opening3)
  BY <1>3, Smaller, OpeningsCounted
<1>6. episodes + Cardinality(Opening1) + Cardinality(Opening2) + Cardinality(Opening3)
        <= MaxEpisodes - 1 + 3 * MaxWorkers
  BY DEF LoopInv, Counting
<1>7. episodes' + Cardinality(Opening1') + Cardinality(Opening2') + Cardinality(Opening3')
        <= MaxEpisodes - 1 + 3 * MaxWorkers
  BY <1>5, <1>6, OpeningsCounted, LoopNumbers, Sizes
<1>8. Counting'
  BY <1>7 DEF Counting
<1> QED
  BY <1>4, <1>8, CountingBounds DEF LoopInv

LEMMA CloseRedoKeepsLoop ==
  ASSUME TypeOK, LoopInv, NEW n \in Node, CloseRedo(n)
  PROVE  LoopInv'
<1>1. /\ pc = "redo" /\ pc' = "top" /\ work' = [work EXCEPT ![n] = "idle"]
      /\ UNCHANGED <<batch, unpausing, episodes, left>>
      /\ work \in [Node \cup {Root} -> Stage] /\ work[n] # "idle"
  BY DEF CloseRedo, InEpisode, others, TypeOK
<1>2. \A m \in Active : m = n
  BY <1>1 DEF LoopInv, Places, Active
<1>3. Active' = {} /\ work'[Root] = "idle"
  BY <1>1, <1>2, Sizes DEF LoopInv, Places, Active
<1>4. Places'
  BY <1>1, <1>3 DEF LoopInv, Places
<1>5. Counting'
  BY <1>1 DEF Counting
<1>6. EpisodesBounded'
  BY <1>1 DEF LoopInv, EpisodesBounded
<1> QED
  BY <1>4, <1>5, <1>6 DEF LoopInv

LEMMA ArchitectKeepsLoop ==
  ASSUME TypeOK, RunTyped', LoopInv, ContinueArchitect \/ \E r \in Reasons : CloseArchitect(r)
  PROVE  LoopInv'
<1>0. pc = "architect" /\ work \in [Node \cup {Root} -> Stage]
  BY DEF ContinueArchitect, CloseArchitect, TypeOK
<1>1. Active = {} /\ unpausing = NoNode /\ batch = {}
  BY <1>0 DEF LoopInv, Places
<1>2. CASE ContinueArchitect
  <2>1. /\ left > 0 /\ left' = left - 1 /\ work' = [work EXCEPT ![Root] = "again"]
        /\ UNCHANGED <<pc, batch, unpausing, episodes>>
    BY <1>2 DEF ContinueArchitect, loopVars
  <2>2. Active' = {}
    BY <1>0, <1>1, <2>1, Sizes DEF Active
  <2>3. Places'
    BY <1>0, <1>1, <2>1, <2>2 DEF Places
  <2>4. episodes + left <= 1 + Continuations
    BY <1>0 DEF LoopInv, Counting
  <2>5. episodes' + left' <= Continuations
    BY <2>1, <2>4, LoopNumbers, Sizes
  <2>6. episodes' + left' <= 1 + Continuations
    BY <2>1, <2>4, LoopNumbers, Sizes
  <2>7. Counting'
    BY <1>0, <2>1, <2>5, <2>6 DEF Counting
  <2> QED
    BY <1>0, <2>1, <2>3, <2>7, CountingBounds DEF LoopInv
<1>3. ASSUME NEW r \in Reasons, CloseArchitect(r)
      PROVE  LoopInv'
  <2>1. CASE nodes = {}
    BY <1>3, <2>1, ReturnKeepsLoop DEF CloseArchitect
  <2>2. CASE nodes # {}
    <3>1. pc' = "top" /\ work' = Idle /\ UNCHANGED <<batch, unpausing, episodes>>
      BY <1>3, <2>2 DEF CloseArchitect
    <3>2. Active' = {} /\ work'[Root] = "idle"
      BY <3>1 DEF Active, Idle
    <3>3. Places' /\ Counting'
      BY <1>1, <3>1, <3>2 DEF Places, Counting
    <3>4. EpisodesBounded'
      BY <3>1 DEF LoopInv, EpisodesBounded
    <3> QED
      BY <3>3, <3>4 DEF LoopInv
  <2> QED
    BY <2>1, <2>2
<1> QED
  BY <1>2, <1>3

LEMMA LoopKept ==
  ASSUME TypeOK, LoopInv, [InterruptedNext]_vars
  PROVE  LoopInv'
<1>0. RunTyped' /\ nodes \subseteq Node /\ batch \subseteq Node
  BY RunTypeKept DEF TypeOK, TreeTypeOK
<1>1. CASE ReturnEarly \/ OutOfEpisodes \/ NothingLeft \/ Crash
  BY <1>1, ReturnKeepsLoop DEF ReturnEarly, OutOfEpisodes, NothingLeft, Crash
<1>2. CASE BatchDone
  <2>1. CASE raised
    BY <1>2, <2>1, ReturnKeepsLoop DEF BatchDone
  <2>2. CASE ~ raised
    <3>1. /\ pc = "breakdown" /\ batch = {} /\ Active = {}
          /\ pc' = "top" /\ UNCHANGED <<batch, work, unpausing, episodes>>
      BY <1>2, <2>2 DEF BatchDone
    <3>2. Active' = {}
      BY <3>1 DEF Active
    <3>3. Places' /\ Counting'
      BY <3>1, <3>2 DEF LoopInv, Places, Counting
    <3>4. EpisodesBounded'
      BY <3>1 DEF LoopInv, EpisodesBounded
    <3> QED
      BY <3>3, <3>4 DEF LoopInv
  <2> QED
    BY <2>1, <2>2
<1>3. ASSUME NEW l \in Level, TakeJudge(l)
      PROVE  LoopInv'
  <2>1. pc = "top" /\ pc' = "judge" /\ UNCHANGED <<work, unpausing, episodes, left>>
    BY <1>3 DEF TakeJudge, AtTop
  <2>2. Active' = {}
    BY <2>1 DEF LoopInv, Places, Active
  <2>3. Places' /\ Counting'
    BY <2>1, <2>2 DEF LoopInv, Places, Counting
  <2>4. EpisodesBounded'
    BY <2>1 DEF LoopInv, EpisodesBounded
  <2> QED
    BY <2>3, <2>4 DEF LoopInv
<1>4. ASSUME NEW l \in Level, NEW n \in nodes, TakeRedo(l, n) \/ TakeFirst(l, n)
      PROVE  LoopInv'
  <2>1. /\ AtTop /\ UNCHANGED <<batch, unpausing, episodes, left>>
        /\ pc' \in {"redo", "breakdown"} /\ work' = [work EXCEPT ![n] = "start"]
    BY <1>4 DEF TakeRedo, TakeFirst
  <2>2. batch' = {} /\ n \in Node
    BY <1>0, <2>1 DEF LoopInv, Places, AtTop
  <2> QED
    BY <1>0, <2>1, <2>2, TakeKeepsLoop
<1>5. ASSUME NEW l \in Level, NEW w \in Workers, TakeAll(l, w)
      PROVE  LoopInv'
  <2>1. /\ AtTop /\ UNCHANGED <<work, unpausing, episodes, left>>
        /\ pc' = "breakdown" /\ batch' \in SUBSET Node
    BY <1>0, <1>5 DEF TakeAll, Pending
  <2> QED
    BY <1>0, <2>1, TakeKeepsLoop
<1>6. ASSUME NEW n, NEW v, JudgeOne(n, v)
      PROVE  LoopInv'
  BY <1>6, SameLoop DEF JudgeOne
<1>7. CASE Unpause
  BY <1>7, SameLoop DEF Unpause, loopVars
<1>8. CASE JudgeDone
  <2>1. /\ pc = "judge" /\ unpausing = NoNode /\ batch = {} /\ pc' = "top"
        /\ UNCHANGED <<batch, work, unpausing, episodes, left>>
    BY <1>8 DEF JudgeDone
  <2>2. Active' = {}
    BY <2>1 DEF LoopInv, Places, Active
  <2>3. Places' /\ Counting'
    BY <2>1, <2>2 DEF LoopInv, Places, Counting
  <2>4. EpisodesBounded'
    BY <2>1 DEF LoopInv, EpisodesBounded
  <2> QED
    BY <2>3, <2>4 DEF LoopInv
<1>9. ASSUME NEW n \in Node, Start(n)
      PROVE  LoopInv'
  BY <1>0, <1>9, StartKeepsLoop
<1>10. ASSUME NEW n \in Node \cup {Root}, Open(n)
       PROVE  LoopInv'
  BY <1>0, <1>10, OpenKeepsLoop
<1>11. ASSUME NEW n \in Node, Continue(n)
       PROVE  LoopInv'
  <2>1. "again" \in Stage
    BY DEF Stage
  <2> QED
    BY <1>0, <1>11, <2>1, FewerKeepsLoop DEF Continue, others
<1>12. ASSUME NEW n \in Node, Retry(n)
       PROVE  LoopInv'
  <2>1. "retry" \in Stage
    BY DEF Stage
  <2> QED
    BY <1>0, <1>12, <2>1, FewerKeepsLoop DEF Retry, others
<1>13. ASSUME NEW n \in Node, NEW r \in Reasons, CloseBreakdown(n, r)
       PROVE  LoopInv'
  <2>1. "idle" \in Stage
    BY DEF Stage
  <2> QED
    BY <1>0, <1>13, <2>1, FewerKeepsLoop DEF CloseBreakdown, others
<1>14. ASSUME NEW n \in Node, CloseRedo(n)
       PROVE  LoopInv'
  BY <1>14, CloseRedoKeepsLoop
<1>15. CASE ContinueArchitect \/ \E r \in Reasons : CloseArchitect(r)
  BY <1>0, <1>15, ArchitectKeepsLoop
<1>16. CASE Tool
  BY <1>16, ToolsOnlyWrite, SameLoop DEF memory, loopVars
<1>17. CASE Stop
  BY <1>17, SameLoop DEF Stop, loopVars
<1>18. CASE UNCHANGED vars
  BY <1>18, SameLoop DEF vars
<1>19. CASE Restart
  <2>1. /\ pc = "over" /\ pc' \in {"architect", "top"}
        /\ work' = [Idle EXCEPT ![Root] = IF pc' = "architect" THEN "start" ELSE "idle"]
        /\ UNCHANGED <<batch, unpausing, episodes, left>>
    BY <1>19 DEF Restart
  <2>2. episodes = 0 /\ left = Continuations /\ batch = {} /\ unpausing = NoNode
    BY <2>1 DEF LoopInv, Places
  <2>3. pc' = "top" => work'[Root] = "idle"
    BY <2>1 DEF Idle
  <2>4. Active' = {}
    BY <2>1, Sizes DEF Active, Idle
  <2>5. Places'
    BY <2>1, <2>2, <2>3, <2>4 DEF Places, Idle
  <2>6. Counting'
    BY <2>1, <2>2, Sizes DEF Counting
  <2>7. EpisodesBounded'
    BY <2>1, <2>2, Sizes DEF EpisodesBounded
  <2> QED
    BY <2>5, <2>6, <2>7 DEF LoopInv
<1> QED
  BY <1>1, <1>2, <1>3, <1>4, <1>5, <1>6, <1>7, <1>8, <1>9, <1>10, <1>11,
     <1>12, <1>13, <1>14, <1>15, <1>16, <1>17, <1>18, <1>19
     DEF InterruptedNext, Next, Step, Loop, Take, Judging, Episodes, Close, Call, Tool, Over

---------------------------------------------------------------------------
(* The nodes that are being split.                                         *)

Splitting == batch \cup Active

\* Only a task's split can be edited by the split of another one.
LEMMA EditorsAreBelow ==
  ASSUME TypeOK, LoopInv, Splits, pc = "breakdown",
         NEW scope \in Node \cup {Root}, InEpisode(scope),
         NEW n \in Splitting, level[n] = Role(scope)
  PROVE  level[n] = "task" /\ Role(scope) = "task"
<1>1. work[Root] = "idle"
  BY DEF LoopInv, Places
<1>2. scope # Root /\ scope \in Active
  BY <1>1 DEF InEpisode, Active
<1>3. Role(scope) = NextRole[level[scope]]
  BY <1>2 DEF Role
<1>4. level[n] = level[scope] /\ level[scope] \in Level
  BY <1>2 DEF Splits, Splitting, TypeOK, Active
<1> QED
  BY <1>3, <1>4 DEF NextRole, Level

LEMMA TasksAreTasks ==
  ASSUME TypeOK, LoopInv, Splits, pc = "breakdown",
         NEW scope \in Node \cup {Root}, InEpisode(scope),
         NEW n \in Splitting, level[n] = "task"
  PROVE  Role(scope) = "task"
<1>1. work[Root] = "idle"
  BY DEF LoopInv, Places
<1>2. scope # Root /\ scope \in Active
  BY <1>1 DEF InEpisode, Active
<1>3. level[scope] = "task"
  BY <1>2 DEF Splits, Splitting
<1> QED
  BY <1>2, <1>3 DEF Role, NextRole

LEMMA ToolsKeepSplits ==
  ASSUME TypeOK, LoopInv, Splits, Tool
  PROVE  Splits'
<1>1. UNCHANGED <<pc, batch, work>> /\ Splitting' = Splitting
  BY ToolsOnlyWrite DEF memory, loopVars, Splitting, Active
<1> SUFFICES ASSUME pc = "breakdown"
             PROVE  \A n \in Splitting :
                      /\ \A m \in Splitting : level'[m] = level'[n]
                      /\ level'[n] # "task" =>
                           n \in nodes' /\ plan_status'[n] \in {"breakdown", "redo"}
  BY <1>1 DEF Splits, Splitting
<1>2. \A n \in Splitting :
        /\ n \in Node
        /\ \A m \in Splitting : level[m] = level[n]
        /\ level[n] # "task" => n \in nodes /\ plan_status[n] \in {"breakdown", "redo"}
  BY DEF Splits, Splitting, TypeOK, Active
<1>3. /\ level \in [Node -> Level] /\ plan_status \in [Node -> PlanStatus]
      /\ nodes \subseteq Node
  BY DEF TypeOK, TreeTypeOK
<1>4. ASSUME NEW scope \in Node \cup {Root}, NEW m \in Node, NEW under, NEW deps,
             AddNode(scope, m, under, deps)
      PROVE  \A n \in Splitting :
               /\ level'[n] = level[n]
               /\ level'[n] # "task" =>
                    n \in nodes' /\ plan_status'[n] \in {"breakdown", "redo"}
  <2>1. /\ InEpisode(scope) /\ nodes' = nodes \cup {m}
        /\ plan_status' = [plan_status EXCEPT ![m] = "none"]
        /\ level' = [level EXCEPT ![m] = Role(scope)]
    BY <1>4 DEF AddNode, Insert, MayAdd, MayCall
  <2>2. m \notin nodes
    <3>1. \A x \in nodes : x < m
      BY <1>4 DEF AddNode, NewId
    <3>2. m \in Nat
      BY MaxNodeAssumption DEF Node
    <3> QED
      BY <3>1, <3>2
  <2>3. ASSUME m \in Splitting
        PROVE  level[m] = "task" /\ level'[m] = "task"
    <3>1. level[m] = "task"
      BY <1>2, <2>2, <2>3
    <3>2. Role(scope) = "task"
      BY <2>1, <2>3, <3>1, TasksAreTasks
    <3> QED
      BY <1>3, <2>1, <3>1, <3>2
  <2>4. ASSUME NEW n \in Splitting
        PROVE  /\ level'[n] = level[n]
               /\ level'[n] # "task" =>
                    n \in nodes' /\ plan_status'[n] \in {"breakdown", "redo"}
    <3>1. CASE n = m
      BY <2>3, <3>1
    <3>2. CASE n # m
      <4>1. level'[n] = level[n] /\ plan_status'[n] = plan_status[n]
        BY <1>2, <1>3, <2>1, <3>2
      <4> QED
        BY <1>2, <2>1, <4>1
    <3> QED
      BY <3>1, <3>2
  <2> QED
    BY <2>4
<1>5. ASSUME NEW scope \in Node \cup {Root}, NEW n \in nodes, NEW deps,
             UpdateNode(scope, n, deps) \/ DeleteNode(scope, n)
      PROVE  /\ level' = level
             /\ \A m \in Splitting : level[m] # "task" =>
                  m \in nodes' /\ plan_status'[m] \in {"breakdown", "redo"}
  <2>1. /\ InEpisode(scope) /\ level[n] = Role(scope) /\ level' = level
        /\ plan_status' = [plan_status EXCEPT ![n] = "none"]
        /\ nodes \ {n} \subseteq nodes'
    BY <1>5 DEF UpdateNode, DeleteNode, MayCall
  <2>2. n \in Splitting => level[n] = "task"
    BY <2>1, EditorsAreBelow
  <2>3. \A m \in Splitting : level[m] # "task" => m # n
    BY <2>2
  <2> QED
    BY <1>2, <1>3, <2>1, <2>3
<1>6. ASSUME NEW scope \in Node \cup {Root}, Escalate(scope)
      PROVE  /\ level' = level /\ nodes' = nodes
             /\ \A m \in Splitting : plan_status'[m] \in {plan_status[m], "redo"}
  BY <1>2, <1>3, <1>6 DEF Escalate
<1>7. ASSUME level' = level,
             \A m \in Splitting : level[m] # "task" =>
                  m \in nodes' /\ plan_status'[m] \in {"breakdown", "redo"}
      PROVE  \A n \in Splitting :
               /\ level'[n] = level[n]
               /\ level'[n] # "task" =>
                    n \in nodes' /\ plan_status'[n] \in {"breakdown", "redo"}
  BY <1>7
<1>8. \A n \in Splitting :
        /\ level'[n] = level[n]
        /\ level'[n] # "task" =>
             n \in nodes' /\ plan_status'[n] \in {"breakdown", "redo"}
  <2>1. ASSUME NEW scope \in Node \cup {Root}, Escalate(scope)
        PROVE  \A m \in Splitting : level[m] # "task" =>
                  m \in nodes' /\ plan_status'[m] \in {"breakdown", "redo"}
    BY <1>2, <1>6, <2>1
  <2>2. ASSUME NEW scope, Reopen(scope)
        PROVE  level' = level /\ \A m \in Splitting : level[m] # "task" =>
                  m \in nodes' /\ plan_status'[m] \in {"breakdown", "redo"}
    BY <1>2, <2>2 DEF Reopen
  <2> QED
    BY <1>4, <1>5, <1>6, <1>7, <2>1, <2>2 DEF Tool
<1> QED
  BY <1>2, <1>8

LEMMA SplitsKept ==
  ASSUME TypeOK, LoopInv, Splits, [InterruptedNext]_vars
  PROVE  Splits'
<1>0. nodes \subseteq Node /\ work \in [Node \cup {Root} -> Stage]
      /\ plan_status \in [Node -> PlanStatus]
  BY DEF TypeOK, TreeTypeOK
<1>1. ASSUME pc' # "breakdown"
      PROVE  Splits'
  BY <1>1 DEF Splits
<1>2. ASSUME pc = "breakdown", UNCHANGED <<nodes, level>>,
             batch' \cup Active' \subseteq Splitting,
             \A n \in batch' \cup Active' : plan_status'[n] = plan_status[n]
      PROVE  Splits'
  BY <1>2 DEF Splits, Splitting
<1>3. CASE Tool
  BY <1>3, ToolsKeepSplits
<1>4. ASSUME NEW l \in Level, NEW n \in nodes, TakeFirst(l, n)
      PROVE  Splits'
  <2>1. /\ pc = "top" /\ batch' = batch /\ work' = [work EXCEPT ![n] = "start"]
        /\ n \in Pending("breakdown", l) /\ UNCHANGED dbVars
    BY <1>4 DEF TakeFirst, AtTop, Eldest
  <2>2. batch' \cup Active' \subseteq {n}
    BY <1>0, <2>1 DEF LoopInv, Places, Active
  <2> QED
    BY <2>1, <2>2 DEF Splits, Pending, dbVars
<1>5. ASSUME NEW l \in Level, NEW w, TakeAll(l, w)
      PROVE  Splits'
  <2>1. /\ pc = "top" /\ batch' = Pending("breakdown", l) /\ work' = work /\ UNCHANGED dbVars
    BY <1>5 DEF TakeAll, AtTop
  <2>2. Active' = {}
    BY <2>1 DEF LoopInv, Places, Active
  <2> QED
    BY <2>1, <2>2 DEF Splits, Pending, dbVars
<1>6. ASSUME NEW n \in Node, Start(n)
      PROVE  Splits'
  <2>1. /\ pc = "breakdown" /\ n \in batch /\ batch' = batch \ {n}
        /\ work' \in {work, [work EXCEPT ![n] = "start"]}
        /\ UNCHANGED <<nodes, level, plan_status>>
    BY <1>6 DEF Start, Eldest, others
  <2>2. batch' \cup Active' \subseteq Splitting
    BY <1>0, <2>1 DEF Splitting, Active
  <2> QED
    BY <1>2, <2>1, <2>2
<1>7. ASSUME NEW n \in Node \cup {Root}, Open(n)
      PROVE  Splits'
  <2>1. /\ work' = [work EXCEPT ![n] = Opened[work[n]]] /\ work[n] # "idle"
        /\ UNCHANGED <<pc, batch, nodes, level, plan_status>>
    BY <1>7 DEF Open, AboutToOpen, others
  <2>2. batch' \cup Active' \subseteq Splitting
    BY <1>0, <2>1 DEF Splitting, Active
  <2> QED
    BY <1>1, <1>2, <2>1, <2>2
<1>8. ASSUME NEW n \in Node, Continue(n) \/ Retry(n)
      PROVE  Splits'
  <2>1. /\ pc = "breakdown" /\ work[n] # "idle"
        /\ \E stage \in Stage : work' = [work EXCEPT ![n] = stage]
        /\ UNCHANGED <<pc, batch, nodes, level, plan_status>>
    BY <1>8 DEF Continue, Retry, others, Stage
  <2>2. batch' \cup Active' \subseteq Splitting
    BY <1>0, <2>1 DEF Splitting, Active
  <2> QED
    BY <1>2, <2>1, <2>2
<1>9. ASSUME NEW n \in Node, NEW r \in Reasons, CloseBreakdown(n, r)
      PROVE  Splits'
  <2>1. /\ pc = "breakdown" /\ work[n] # "idle"
        /\ work' = [work EXCEPT ![n] = "idle"]
        /\ UNCHANGED <<batch, nodes, level>>
    BY <1>9 DEF CloseBreakdown, InEpisode, AboutToOpen, others
  <2>2. batch' \cup Active' \subseteq Splitting \ {n}
    BY <1>0, <2>1 DEF LoopInv, Places, Splitting, Active
  <2>3. \A m \in Node \ {n} : plan_status'[m] = plan_status[m]
    BY <1>0, <1>9 DEF CloseBreakdown, AfterBreakdown
  <2>4. batch' \cup Active' \subseteq Node
    BY <2>1 DEF Active, TypeOK
  <2> QED
    BY <1>2, <2>1, <2>2, <2>3, <2>4
<1>10. CASE ReturnEarly \/ OutOfEpisodes \/ NothingLeft \/ BatchDone \/ Crash \/ Restart
  BY <1>1, <1>10
     DEF ReturnEarly, OutOfEpisodes, NothingLeft, BatchDone, Crash, Restart, Return
<1>11. CASE \E l \in Level : TakeJudge(l) \/ \E n \in nodes : TakeRedo(l, n)
  BY <1>1, <1>11 DEF TakeJudge, TakeRedo
<1>12. CASE JudgeDone \/ Unpause \/ \E n \in batch : \E v \in MayJudge[level[n]] : JudgeOne(n, v)
  BY <1>1, <1>12 DEF JudgeOne, JudgeDone, Unpause, LoopInv, Places, loopVars
<1>13. ASSUME NEW n \in Node, CloseRedo(n)
       PROVE  Splits'
  BY <1>1, <1>13 DEF CloseRedo
<1>14. CASE ContinueArchitect \/ \E r \in Reasons : CloseArchitect(r)
  BY <1>1, <1>14 DEF ContinueArchitect, CloseArchitect, Return, loopVars
<1>15. CASE Stop \/ UNCHANGED vars
  <2>1. UNCHANGED <<pc, batch, work, nodes, level, plan_status>>
    BY <1>15 DEF Stop, vars, dbVars, loopVars
  <2>2. batch' \cup Active' \subseteq Splitting
    BY <2>1 DEF Splitting, Active
  <2> QED
    BY <1>1, <1>2, <2>1, <2>2
<1> QED
  BY <1>3, <1>4, <1>5, <1>6, <1>7, <1>8, <1>9, <1>10, <1>11, <1>12, <1>13, <1>14, <1>15
     DEF InterruptedNext, Next, Step, Loop, Take, Judging, Episodes, Close, Call, Tool, Over

---------------------------------------------------------------------------
(* The invariant holds, whatever the model behind an episode does, with    *)
(* crashes and restarts.                                                   *)

LEMMA InitHolds ==
  ASSUME Init
  PROVE  TypeOK /\ TreeInv /\ LoopInv /\ Splits
<1>1. PICK p \in Plans :
        /\ nodes = p.nodes /\ parent = p.parent /\ depends_on = p.depends_on
        /\ status = p.status /\ level = p.level /\ plan_status = p.plan_status
        /\ pc \in {"architect"} \cup IF p.nodes = {} THEN {} ELSE {"top"}
        /\ torn = UnderFinished(p)
  BY DEF Init
<1> DEFINE up(n) == IF n = Root THEN Root ELSE p.parent[n]
<1>2. /\ p.nodes \subseteq Node
      /\ p.parent \in [Node -> Node \cup {Root}]
      /\ p.depends_on \in [Node -> SUBSET Node]
      /\ p.plan_status \in [Node -> PlanStatus]
      /\ p.status \in [Node -> Status]
      /\ p.level \in [Node -> Level]
      /\ \A n \in p.nodes :
           /\ up(n) \in p.nodes \cup {Root} /\ up(n) < n
           /\ up(up(up(up(up(n))))) = Root
           /\ p.depends_on[n] \subseteq p.nodes
      /\ ~ \E ring \in (SUBSET p.nodes) \ {{}} :
             \A n \in ring : p.depends_on[n] \cap ring # {}
  BY PlansAssumption
<1>3. \A x : Up(x) = up(x)
  BY <1>1 DEF Up
<1>4. \A n \in nodes : parent[n] = up(n) /\ n # Root
  BY <1>1, <1>2, Sizes
<1> HIDE DEF up
<1>5. WellFormed
  BY <1>1, <1>2, <1>3, <1>4 DEF WellFormed
<1>6. DependenciesSound /\ ParentsReopened /\ CallsKnown
  <2>1. DependenciesSound
    BY <1>1, <1>2, <1>4 DEF DependenciesSound, Acyclic
  <2>2. ParentsReopened
    BY <1>1 DEF ParentsReopened, Halfway, UnderFinished
  <2>3. CallsKnown
    BY DEF Init, NoCall, CallsKnown
  <2> QED
    BY <2>1, <2>2, <2>3
<1>7. RowsTyped
  <2>1. paused \in [Node -> BOOLEAN]
    BY DEF Init
  <2>2. redo_count \in [Node -> 0 .. RedoCap] /\ escalation_count \in [Node -> 0 .. EscalationCap]
    <3>1. 0 \in 0 .. RedoCap /\ 0 \in 0 .. EscalationCap
      BY Sizes
    <3> QED
      BY <3>1 DEF Init
  <2> QED
    BY <1>1, <1>2, <2>1, <2>2 DEF RowsTyped, TreeTypeOK
<1>8. /\ work \in [Node \cup {Root} -> Stage] /\ Active = {}
      /\ pc = "top" => work[Root] = "idle"
  BY Sizes DEF Init, Idle, Stage, Active
<1>9. RunTyped
  <2>1. stop \in BOOLEAN /\ failed \in BOOLEAN /\ raised \in BOOLEAN
    BY DEF Init
  <2>2. /\ batch \subseteq Node /\ unpausing \in Node \cup {NoNode}
        /\ result \in {"none", "stopped", "failed", "budget", "complete", "no plan", "raised"}
    BY DEF Init
  <2>3. left \in 0 .. Continuations /\ workers \in 1 .. MaxWorkers
    BY Starting DEF Init
  <2>4. episodes \in Nat /\ runs \in 1 .. MaxRuns
    <3>1. 0 \in Nat /\ 1 \in 1 .. MaxRuns
      BY Sizes
    <3> QED
      BY <3>1 DEF Init
  <2>5. pc \in {"top", "architect", "judge", "redo", "breakdown", "over"}
    BY <1>1
  <2>6. reopening \in [Node \cup {Root} -> Node \cup {NoNode}] /\ torn \subseteq Node
    BY <1>1, <1>2 DEF Init, NoCall, UnderFinished
  <2> QED
    BY <1>8, <2>1, <2>2, <2>3, <2>4, <2>5, <2>6 DEF RunTyped
<1>10. Places
  BY <1>1, <1>8 DEF Init, Places
<1>11. episodes = 0 /\ left = Continuations /\ pc \in {"architect", "top"}
  BY <1>1 DEF Init
<1>12. Counting
  BY <1>11, Sizes DEF Counting
<1>13. EpisodesBounded
  BY <1>11, Sizes DEF EpisodesBounded
<1>14. Splits
  BY <1>11 DEF Splits
<1> QED
  BY <1>5, <1>6, <1>7, <1>9, <1>10, <1>12, <1>13, <1>14, TypeParts DEF TreeInv, LoopInv

LEMMA PlannerInvHolds == InterruptedSpec => []PlannerInv
<1>1. PlannerInv <=> TypeOK /\ TreeInv /\ LoopInv /\ Splits
  BY DEF PlannerInv, TreeInv, LoopInv
<1>2. Init => PlannerInv
  BY <1>1, InitHolds
<1>3. ASSUME PlannerInv, [InterruptedNext]_vars
      PROVE  PlannerInv'
  <2>1. TypeOK'
    <3>1. RunTyped' /\ RowsTyped'
      BY <1>1, <1>3, RunTypeKept, RowsTypeKept
    <3> QED
      BY <3>1 DEF TypeOK, RowsTyped, RunTyped
  <2>2. TreeInv' /\ LoopInv' /\ Splits'
    BY <1>1, <1>3, TreeKept, LoopKept, SplitsKept
  <2> QED
    BY <2>1, <2>2 DEF PlannerInv, TreeInv, LoopInv
<1> QED
  BY <1>2, <1>3, PTL DEF InterruptedSpec

---------------------------------------------------------------------------

\* What a node waits for is always in the plan, and no nodes wait for one
\* another in a ring, however the models behind the episodes add, rewrite,
\* delete and escalate nodes side by side, and whichever ids are given out
\* again (nodes.py: _cycles, delete_node's sweep of depends_on).
THEOREM DependenciesAreSound == InterruptedSpec => []DependenciesSound
<1>1. PlannerInv => DependenciesSound
  BY DEF PlannerInv
<1> QED
  BY <1>1, PlannerInvHolds, PTL

\* A part added to or rewritten under a finished node sends every node above
\* it back to be checked again, but for a call that a kill cut off between
\* its two commits (nodes.py: add_node, update_node, reopen_with_ancestors).
THEOREM ParentsAreReopened == InterruptedSpec => []ParentsReopened
<1>1. PlannerInv => ParentsReopened
  BY DEF PlannerInv
<1> QED
  BY <1>1, PlannerInvHolds, PTL

\* A run opens at most MAX_PLANNER_EPISODES - 1 episodes and three for each
\* thread, for every number of threads, of nodes and of continuations, and
\* however many runs follow one another (loop.py: _out_of_episodes, one).
THEOREM EpisodesAreBounded == InterruptedSpec => []EpisodesBounded
<1>1. PlannerInv => EpisodesBounded
  BY DEF PlannerInv
<1> QED
  BY <1>1, PlannerInvHolds, PTL

\* No step of planning, of any role, undoes a finished leaf.
THEOREM FinishedStays == InterruptedSpec => FinishedKept
<1>1. ASSUME PlannerInv, [InterruptedNext]_vars
      PROVE  [\A n \in nodes : DoneLeaf(n) => DoneLeaf(n)']_vars
  <2>1. TypeOK /\ TreeInv
    BY <1>1 DEF PlannerInv, TreeInv
  <2> QED
    BY <1>1, <2>1, TreeKept
<1> QED
  BY <1>1, PlannerInvHolds, PTL DEF InterruptedSpec, FinishedKept

\* "Rewritten -> re-judged" (loop.py): only the judge gives an unjudged node
\* a verdict, unless it is escalated, the episode budget runs out, or it is
\* a task that is rewritten in the middle of its own split.  This is what
\* Splits is for: above the tasks a node that is being split still has its
\* verdict when its split ends.
THEOREM RewritesJudged == InterruptedSpec => RewritesAreJudged
<1> DEFINE Judged(n) ==
      n \in nodes' /\ plan_status[n] = "none" /\ plan_status'[n] # "none"
        => \/ pc = "judge"
           \/ result' = "budget"
           \/ escalation_count'[n] > escalation_count[n]
           \/ level[n] = "task" /\ pc = "breakdown"
<1>1. ASSUME PlannerInv, [InterruptedNext]_vars, NEW n \in nodes
      PROVE  Judged(n)
  <2>1. /\ TypeOK /\ LoopInv /\ Splits /\ n \in Node
        /\ plan_status \in [Node -> PlanStatus]
        /\ escalation_count \in [Node -> 0 .. EscalationCap]
    BY <1>1 DEF PlannerInv, LoopInv, TypeOK, TreeTypeOK
  <2>2. ASSUME plan_status'[n] = plan_status[n]
        PROVE  Judged(n)
    BY <2>2
  <2>3. CASE UNCHANGED dbVars
    BY <2>2, <2>3 DEF dbVars
  <2>4. CASE OutOfEpisodes
    BY <2>4 DEF OutOfEpisodes, Return
  <2>5. CASE Unpause
    <3>1. plan_status'[n] \in {"none", plan_status[n]}
      BY <2>1, <2>5 DEF Unpause
    <3> QED
      BY <3>1
  <2>6. ASSUME NEW m, NEW v, JudgeOne(m, v)
        PROVE  Judged(n)
    BY <2>6 DEF JudgeOne
  <2>7. ASSUME NEW m \in Node, NEW r \in Reasons, CloseBreakdown(m, r)
        PROVE  Judged(n)
    <3>1. pc = "breakdown" /\ work[m] # "idle"
      BY <2>7 DEF CloseBreakdown, InEpisode, AboutToOpen
    <3>2. CASE m # n
      <4>1. plan_status'[n] = plan_status[n]
        BY <2>1, <2>7, <3>2 DEF CloseBreakdown, AfterBreakdown
      <4> QED
        BY <2>2, <4>1
    <3>3. CASE m = n
      <4>1. level[n] # "task" => plan_status[n] \in {"breakdown", "redo"}
        BY <2>1, <3>1, <3>3 DEF Splits, Active
      <4> QED
        BY <3>1, <4>1
    <3> QED
      BY <3>2, <3>3
  <2>8. ASSUME NEW m \in Node, CloseRedo(m)
        PROVE  Judged(n)
    <3>1. m # n \/ plan_status[n] # "redo" => plan_status'[n] = plan_status[n]
      BY <2>1, <2>8 DEF CloseRedo, AfterRedo
    <3> QED
      BY <3>1
  <2>9. CASE Tool
    <3>1. ASSUME NEW scope, NEW m \in Node, NEW under, NEW deps, AddNode(scope, m, under, deps)
          PROVE  Judged(n)
      <4>1. plan_status'[n] \in {"none", plan_status[n]}
        BY <2>1, <3>1 DEF AddNode, Insert
      <4> QED
        BY <4>1
    <3>2. ASSUME NEW scope, NEW m \in nodes, NEW deps, UpdateNode(scope, m, deps) \/ DeleteNode(scope, m)
          PROVE  Judged(n)
      <4>1. plan_status'[n] \in {"none", plan_status[n]}
        BY <2>1, <3>2 DEF UpdateNode, DeleteNode
      <4> QED
        BY <4>1
    <3>3. ASSUME NEW scope \in Node \cup {Root}, Escalate(scope)
          PROVE  Judged(n)
      <4>1. PICK back \in Node \cup {Root} :
              /\ plan_status' = [plan_status EXCEPT ![back] = "redo"]
              /\ escalation_count' = [escalation_count EXCEPT ![back] = @ + 1]
        <5> DEFINE b == IF level[scope] # Role(scope) THEN scope ELSE parent[scope]
        <5>1. scope \in Node /\ b \in Node \cup {Root}
          BY <1>1, <2>1, <3>3 DEF Escalate, TypeOK, TreeTypeOK
        <5> QED
          BY <3>3, <5>1 DEF Escalate
      <4>2. CASE back = n
        <5>1. escalation_count[n] \in Nat /\ escalation_count'[n] = escalation_count[n] + 1
          BY <2>1, <4>1, <4>2, Sizes
        <5>2. escalation_count'[n] > escalation_count[n]
          BY <5>1
        <5> QED
          BY <5>2
      <4>3. CASE back # n
        BY <2>1, <4>1, <4>3
      <4> QED
        BY <4>2, <4>3
    <3>4. ASSUME NEW scope, Reopen(scope)
          PROVE  Judged(n)
      BY <2>2, <3>4 DEF Reopen
    <3> QED
      BY <2>9, <3>1, <3>2, <3>3, <3>4 DEF Tool
  <2> HIDE DEF Judged
  <2> QED
    BY <1>1, <2>3, <2>4, <2>5, <2>6, <2>7, <2>8, <2>9, OthersOnlyRead DEF Writes
<1>2. ASSUME PlannerInv, [InterruptedNext]_vars
      PROVE  [\A n \in nodes : Judged(n)]_vars
  BY <1>1, <1>2
<1> QED
  BY <1>2, PlannerInvHolds, PTL DEF InterruptedSpec, RewritesAreJudged
=============================================================================
