------------------------------- MODULE Judge -------------------------------
(***************************************************************************)
(* The planner's judge (src/src/JFI/planner/judge.py): one judge step over *)
(* the unjudged nodes of a level.  A rule scores every node; with LAYA=1 a *)
(* small model is asked one yes/no question about each, and where the two  *)
(* disagree and the model is sure of itself, one LLM call for the whole    *)
(* step breaks the ties.                                                   *)
(*                                                                         *)
(* Everything here is a function of its arguments: what the rule reads of  *)
(* a node, what Laya answered and the lines of the LLM's reply.            *)
(* Probabilities and confidences are in percent.                           *)
(***************************************************************************)
EXTENDS Naturals, Sequences, FiniteSets

CONSTANT MinConfidence    \* min_confidence(); 75 by default

ASSUME MinConfidenceAssumption == MinConfidence \in Nat

Level == {"architect", "lead", "task"}
Opinion == {"good", "breakdown"}
LAYA_YES_THRESHOLD == 40

\* What the rule reads of a node: the number of different functions its
\* description names, and of its files that aren't tests.
JudgeNode == [level : Level, functions : Nat, sources : Nat]

\* Laya's answer: P(yes), and how sure it is, if it says so.
Answer == [p_yes : Nat, confidence : {{}} \cup {{c} : c \in Nat}]

\* One line of the LLM's reply: "<item>: <status>".
Line == [item : Nat, status : {"good", "breakdown", "redo"}]

NamesOneFunction(node) == node.functions = 1 /\ node.sources <= 1

FallbackStatus(node) ==
  IF node.level = "task" \/ (node.level = "lead" /\ NamesOneFunction(node))
  THEN "good" ELSE "breakdown"

RuleVerdict(node, why) ==
  [status |-> FallbackStatus(node), rule |-> FallbackStatus(node), laya |-> "none",
   decided_by |-> why]

LayaStatus(answer) ==
  IF answer.p_yes >= LAYA_YES_THRESHOLD THEN "good" ELSE "breakdown"

Confident(answer) == \E c \in answer.confidence : c >= MinConfidence

\* Both scores of a node; a tie is still to be broken where "llm" decides.
Score(node, answer) ==
  LET rule == FallbackStatus(node)
      laya == LayaStatus(answer)
  IN  [status |-> rule, rule |-> rule, laya |-> laya,
       decided_by |-> IF laya = rule THEN "agree"
                      ELSE IF Confident(answer) THEN "llm" ELSE "rule"]

\* The disputed nodes are numbered from one, in the order of the step.
Disputed(scores) == {i \in DOMAIN scores : scores[i].decided_by = "llm"}
ItemOf(scores, i) == Cardinality({j \in Disputed(scores) : j <= i})

\* The lines of the reply that pick one of the two opinions on node i.
Picking(scores, reply, i) ==
  {k \in DOMAIN reply : /\ reply[k].item = ItemOf(scores, i)
                        /\ reply[k].status \in {scores[i].rule, scores[i].laya}}

\* The last such line counts; without one the rule stands.
Settle(scores, reply, i) ==
  LET lines == Picking(scores, reply, i)
      last == CHOOSE k \in lines : \A j \in lines : j <= k
  IN  IF scores[i].decided_by # "llm" THEN scores[i]
      ELSE IF lines = {} THEN [scores[i] EXCEPT !.decided_by = "rule"]
      ELSE [scores[i] EXCEPT !.status = reply[last].status]

\* laya.state is "off" (FallbackJudge), "failed" (not installed, or an
\* exception in this step or an earlier import) or "ok".
JudgeStep(batch, laya, reply) ==
  IF laya.state # "ok"
  THEN [i \in DOMAIN batch |->
          RuleVerdict(batch[i], IF laya.state = "off" THEN "rule" ELSE "rule (Laya unavailable)")]
  ELSE LET scores == [i \in DOMAIN batch |-> Score(batch[i], laya.answers[i])]
       IN  [i \in DOMAIN batch |-> Settle(scores, reply, i)]

---------------------------------------------------------------------------
(* What a step may say of one node of each level, over values on both      *)
(* sides of every comparison.                                              *)

SomeNodes(l) == [level : {l}, functions : 0 .. 2, sources : 0 .. 2]
SomeAnswers == [p_yes : {LAYA_YES_THRESHOLD - 1, LAYA_YES_THRESHOLD},
                confidence : {{}, {MinConfidence}}]
SomeReplies == {<<>>} \cup {<<line>> : line \in [item : 0 .. 1,
                                                 status : {"good", "breakdown", "redo"}]}

MayJudge ==
  [l \in Level |->
     {JudgeStep(<<node>>, [state |-> s, answers |-> <<a>>], r)[1].status :
        node \in SomeNodes(l), s \in {"off", "failed", "ok"}, a \in SomeAnswers,
        r \in SomeReplies}]
=============================================================================
