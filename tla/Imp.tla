-------------------------------- MODULE Imp --------------------------------
(***************************************************************************)
(* The implementation phase (src/src/JFI/imp/dev.py): Dev takes one node   *)
(* of the plan at a time, in the order of PlanTree's queue, and works on   *)
(* it in an episode that ends when the gate `mark_leaf_done` lets the node *)
(* pass.  A node that can't be finished goes back to the planner for a     *)
(* split.                                                                  *)
(*                                                                         *)
(* The state falls in three parts: the database, which survives a crash;   *)
(* the memory of the running Imp object; and the evidence files, which a   *)
(* person may edit at any time.  A step of the model ends where the code   *)
(* commits to the database, asks the model, or runs a command.  The model  *)
(* that drives an episode is any sequence of calls to the gate.            *)
(***************************************************************************)
EXTENDS PlanTree

CONSTANTS
  Plans,               \* the plans Imp may start from
  Cased,               \* the nodes compared with captured evidence
  Uncuttable,          \* the nodes of kind "compare"
  MaxAttempts,         \* max_dev_attempts()
  MaxDeferrals,        \* MAX_DEFERRALS; 3 in the code
  MaxPlannerEpisodes,  \* max_planner_episodes()
  MaxNewDeps,          \* bound: dependencies of a node a split adds
  MaxEdits,            \* bound: edits of the evidence
  MaxRuns              \* bound: times the phase is started

ASSUME BoundsAssumption ==
  /\ Cased \subseteq Node
  /\ Uncuttable \subseteq Node
  /\ MaxAttempts \in Nat \ {0}
  /\ MaxDeferrals \in Nat
  /\ MaxPlannerEpisodes \in Nat
  /\ MaxNewDeps \in Nat
  /\ MaxEdits \in Nat
  /\ MaxRuns \in Nat \ {0}

VARIABLES
  attempt_count,   \* database: attempts used on each node
  evidence_hash,   \* database: the evidence a finished node matched; 0 is none
  evidence,        \* files: the content of each node's evidence
  edits,           \* number of edits so far
  stop,            \* the person asked for a stop
  pc,              \* where Imp.run is
  toScan,          \* finished nodes whose evidence is still to be hashed
  current,         \* the node _work has in hand
  episode,         \* "leaf", or "wrapup" for the few turns after it
  startHash,       \* hash of its evidence when the episode started
  accepted,        \* the gate answered without an error in this turn
  deferred,        \* Imp.deferred: the node another one must wait for
  deferrals,       \* Imp.deferrals
  reopening,       \* the row committed whose ancestors are to be reopened
  splitting,       \* the node the planner is breaking down
  episodes,        \* Planner.episodes of the planner a split runs
  complete,        \* ImpResult.complete
  runs,            \* number of times the phase was started
  compared,        \* history: the evidence each node was last compared with
  touched,         \* history: the evidence of the node at the gate was edited
                   \*   since the gate looked at its hash
  disturbed        \* history: the nodes whose last comparison came after such
                   \*   an edit

dbVars == <<nodes, parent, depends_on, plan_status, paused, status,
            attempt_count, evidence_hash>>
fileVars == <<evidence, edits>>
gateVars == <<current, episode, startHash, accepted>>
queueVars == <<deferred, deferrals>>
planVars == <<splitting, episodes>>
runVars == <<complete, runs>>
historyVars == <<compared, touched, disturbed>>

vars == <<nodes, parent, depends_on, plan_status, paused, status,
          attempt_count, evidence_hash, evidence, edits, stop, pc, toScan,
          current, episode, startHash, accepted, deferred, deferrals,
          reopening, splitting, episodes, complete, runs, compared, touched, disturbed>>

NoNode == Root
NoHash == 0
Content == 0 .. MaxEdits + 1

Where == {"top", "scan", "pick", "work", "gate", "compare", "compared",
          "split", "replan", "replanned", "over"}

TypeOK ==
  /\ TreeTypeOK
  /\ attempt_count \in [Node -> 0 .. MaxAttempts]
  /\ evidence_hash \in [Node -> Content]
  /\ evidence \in [Node -> Content]
  /\ edits \in 0 .. MaxEdits
  /\ stop \in BOOLEAN
  /\ pc \in Where
  /\ toScan \subseteq Node
  /\ current \in Node \cup {NoNode}
  /\ episode \in {"leaf", "wrapup"}
  /\ startHash \in Content
  /\ accepted \in BOOLEAN
  /\ deferred \in [Node -> Node \cup {NoNode}]
  /\ deferrals \in [Node -> 0 .. MaxDeferrals]
  /\ reopening \in Node \cup {NoNode}
  /\ splitting \in Node \cup {NoNode}
  /\ episodes \in 0 .. MaxPlannerEpisodes
  /\ complete \in BOOLEAN
  /\ runs \in 1 .. MaxRuns
  /\ compared \in [Node -> Content]
  /\ touched \in BOOLEAN
  /\ disturbed \subseteq Node

---------------------------------------------------------------------------
(* A plan the phase can start from: what the planner's loop leaves behind  *)
(* when it reports a complete plan, with the progress of an earlier pass   *)
(* when the session is in a later iteration.                               *)

PlanOK(p) ==
  /\ p.nodes \subseteq Node
  /\ p.parent \in [Node -> Node \cup {Root}]
  /\ p.depends_on \in [Node -> SUBSET Node]
  /\ p.paused \in [Node -> BOOLEAN]
  /\ p.status \in [Node -> Status]
  /\ \A n \in p.nodes :
       LET up == [m \in {Root} \cup Node |->
                    IF m = Root THEN Root ELSE p.parent[m]]
       IN  /\ p.parent[n] \in p.nodes \cup {Root}
           /\ p.parent[n] < n
           /\ up[up[up[up[up[n]]]]] = Root
           /\ ~ p.paused[n] /\ p.status[n] = "todo" /\ p.parent[n] # Root
                => p.status[p.parent[n]] = "todo"

ASSUME PlansAssumption == \A p \in Plans : PlanOK(p)

Init ==
  /\ \E p \in Plans :
       /\ nodes = p.nodes
       /\ parent = p.parent
       /\ depends_on = p.depends_on
       /\ paused = p.paused
       /\ status = p.status
       /\ plan_status = [n \in Node |-> IF n \in p.nodes THEN "good" ELSE "none"]
       /\ evidence_hash = [n \in Node |->
                             IF n \in Cased /\ p.status[n] = "done" THEN 1 ELSE NoHash]
       /\ compared = evidence_hash /\ touched = FALSE /\ disturbed = {}
  /\ attempt_count = [n \in Node |-> 0]
  /\ evidence = [n \in Node |-> 1]
  /\ edits = 0
  /\ stop = FALSE
  /\ pc = "top"
  /\ toScan = {}
  /\ current = NoNode /\ episode = "leaf" /\ startHash = NoHash /\ accepted = FALSE
  /\ deferred = [n \in Node |-> NoNode]
  /\ deferrals = [n \in Node |-> 0]
  /\ reopening = NoNode
  /\ splitting = NoNode /\ episodes = 0
  /\ complete = FALSE /\ runs = 1

---------------------------------------------------------------------------
(* Imp.run: the loop.                                                      *)

\* _work is over: what it held is dropped.
LeaveNode ==
  current' = NoNode /\ episode' = "leaf" /\ startHash' = NoHash /\ accepted' = FALSE

\* The Imp object is gone: what it held in memory with it.
Forget ==
  /\ pc' = "over"
  /\ toScan' = {}
  /\ LeaveNode
  /\ deferred' = [n \in Node |-> NoNode]
  /\ deferrals' = [n \in Node |-> 0]
  /\ reopening' = NoNode
  /\ splitting' = NoNode /\ episodes' = 0

StopAtTop ==
  /\ pc = "top" /\ stop
  /\ Forget
  /\ complete' = FALSE
  /\ UNCHANGED <<dbVars, fileVars, stop, runs, historyVars>>

BeginScan ==
  /\ pc = "top" /\ ~ stop
  /\ toScan' = {n \in DevNodes \cap Cased :
                  status[n] = "done" /\ evidence_hash[n] # NoHash}
  /\ pc' = "scan"
  /\ UNCHANGED <<dbVars, fileVars, stop, gateVars, queueVars, reopening,
                 planVars, runVars, historyVars>>

\* Variant: every finished node that has evidence is compared again.
RequeueEvery(n) ==
  /\ pc = "scan" /\ reopening = NoNode /\ FirstIn(n, toScan)
  /\ toScan' = toScan \ {n}
  /\ status' = [status EXCEPT ![n] = "todo"]
  /\ attempt_count' = [attempt_count EXCEPT ![n] = 0]
  /\ reopening' = n
  /\ UNCHANGED <<nodes, parent, depends_on, plan_status, paused, evidence_hash,
                 fileVars, stop, pc, gateVars, queueVars, planVars, runVars,
                 historyVars>>

\* _requeue_changed_evidence, one node of its list.
Unchanged(n) ==
  /\ pc = "scan" /\ reopening = NoNode /\ FirstIn(n, toScan)
  /\ evidence[n] = evidence_hash[n]
  /\ toScan' = toScan \ {n}
  /\ UNCHANGED <<dbVars, fileVars, stop, pc, gateVars, queueVars, reopening,
                 planVars, runVars, historyVars>>

Requeue(n) ==
  /\ pc = "scan" /\ reopening = NoNode /\ FirstIn(n, toScan)
  /\ evidence[n] # evidence_hash[n]
  /\ toScan' = toScan \ {n}
  /\ status' = [status EXCEPT ![n] = "todo"]
  /\ attempt_count' = [attempt_count EXCEPT ![n] = 0]
  /\ reopening' = n
  /\ UNCHANGED <<nodes, parent, depends_on, plan_status, paused, evidence_hash,
                 fileVars, stop, pc, gateVars, queueVars, planVars, runVars,
                 historyVars>>

\* reopen_with_ancestors, a transaction of its own after the row's commit.
ReopenAncestors ==
  /\ reopening # NoNode
  /\ status' = ReopenAbove(reopening)
  /\ attempt_count' = [m \in Node |->
       IF m \in Ancestors(reopening) /\ Finished(m) THEN 0 ELSE attempt_count[m]]
  /\ reopening' = NoNode
  /\ UNCHANGED <<nodes, parent, depends_on, plan_status, paused, evidence_hash,
                 fileVars, stop, pc, toScan, gateVars, queueVars, planVars,
                 runVars, historyVars>>

ScanDone ==
  /\ pc = "scan" /\ reopening = NoNode /\ toScan = {}
  /\ pc' = "pick"
  /\ UNCHANGED <<dbVars, fileVars, stop, toScan, gateVars, queueVars, reopening,
                 planVars, runVars, historyVars>>

\* The queue is empty: _finish_up, then the nodes left are counted.
PickNone ==
  /\ pc = "pick" /\ Todo = {}
  /\ Forget
  /\ complete' = TRUE
  /\ UNCHANGED <<dbVars, fileVars, stop, runs, historyVars>>

---------------------------------------------------------------------------
(* Imp._work: an attempt at one node.                                      *)

\* max_dev_attempts() used up: straight to _split.
PickOverflow(n) ==
  /\ pc = "pick" /\ IsNextLeaf(n, deferred)
  /\ attempt_count[n] >= MaxAttempts
  /\ current' = n
  /\ pc' = "split"
  /\ UNCHANGED <<dbVars, fileVars, stop, toScan, episode, startHash, accepted,
                 queueVars, reopening, planVars, runVars, historyVars>>

PickWork(n) ==
  /\ pc = "pick" /\ IsNextLeaf(n, deferred)
  /\ attempt_count[n] < MaxAttempts
  /\ attempt_count' = [attempt_count EXCEPT ![n] = @ + 1]
  /\ deferred' = [deferred EXCEPT ![n] = NoNode]
  /\ current' = n /\ episode' = "leaf"
  /\ startHash' = evidence[n] /\ accepted' = FALSE
  /\ pc' = "work"
  /\ UNCHANGED <<nodes, parent, depends_on, plan_status, paused, status,
                 evidence_hash, fileVars, stop, toScan, deferrals, reopening,
                 planVars, runVars, historyVars>>

\* The episode ended with the gate passed or with the node deferred.
EpisodeFinishes ==
  /\ pc = "work" /\ episode = "leaf" /\ accepted
  /\ attempt_count' = IF deferred[current] = NoNode THEN attempt_count
                      ELSE [attempt_count EXCEPT ![current] = @ - 1]
  /\ pc' = "top" /\ LeaveNode
  /\ UNCHANGED <<nodes, parent, depends_on, plan_status, paused, status,
                 evidence_hash, fileVars, stop, toScan, queueVars, reopening,
                 planVars, runVars, historyVars>>

\* It ended on the budget or the turn cap: a wrap-up with a gate of its own.
EpisodeRunsOut ==
  /\ pc = "work" /\ episode = "leaf" /\ ~ accepted /\ ~ stop
  /\ episode' = "wrapup" /\ startHash' = evidence[current]
  /\ UNCHANGED <<dbVars, fileVars, stop, pc, toScan, current, accepted,
                 queueVars, reopening, planVars, runVars, historyVars>>

EpisodeStopped ==
  /\ pc = "work" /\ episode = "leaf" /\ ~ accepted /\ stop
  /\ pc' = "top" /\ LeaveNode
  /\ UNCHANGED <<dbVars, fileVars, stop, toScan, queueVars, reopening, planVars,
                 runVars, historyVars>>

\* However the wrap-up ends, only the node's status is looked at after it.
WrapUpEnds ==
  /\ pc = "work" /\ episode = "wrapup"
  /\ IF status[current] = "done"
       THEN pc' = "top" /\ LeaveNode
       ELSE pc' = "split" /\ UNCHANGED gateVars
  /\ UNCHANGED <<dbVars, fileVars, stop, toScan, queueVars, reopening, planVars,
                 runVars, historyVars>>

---------------------------------------------------------------------------
(* mark_leaf_done: the gate, called from the episode.                      *)

GateOpens ==
  /\ pc = "work"
  /\ current \in Cased => evidence[current] = startHash
  /\ pc' = "gate"
  /\ touched' = FALSE
  /\ UNCHANGED <<dbVars, fileVars, stop, toScan, gateVars, queueVars, reopening,
                 planVars, runVars, compared, disturbed>>

\* The test or the check passed (or the cases alone are the proof).
ProofPasses ==
  /\ pc = "gate"
  /\ pc' = IF current \in Cased THEN "compare" ELSE "compared"
  /\ UNCHANGED <<dbVars, fileVars, stop, toScan, gateVars, queueVars, reopening,
                 planVars, runVars, historyVars>>

\* compare_cases: the new code against the evidence as it is now; the
\* cases match, or Dev accepts the difference.
CasesCompared ==
  /\ pc = "compare"
  /\ compared' = [compared EXCEPT ![current] = evidence[current]]
  /\ disturbed' = IF touched THEN disturbed \cup {current} ELSE disturbed \ {current}
  /\ touched' = FALSE
  /\ pc' = "compared"
  /\ UNCHANGED <<dbVars, fileVars, stop, toScan, gateVars, queueVars, reopening,
                 planVars, runVars>>

GateRefuses ==
  /\ pc \in {"gate", "compare"}
  /\ pc' = "work"
  /\ UNCHANGED <<dbVars, fileVars, stop, toScan, gateVars, queueVars, reopening,
                 planVars, runVars, historyVars>>

\* Variant: deferrals are not counted, so nothing limits them.
DeferAgain(blocker) ==
  /\ pc \in {"gate", "compare"}
  /\ blocker \in Todo \ {current}
  /\ deferred' = [deferred EXCEPT ![current] = blocker]
  /\ accepted' = TRUE
  /\ pc' = "work"
  /\ UNCHANGED <<dbVars, fileVars, stop, toScan, current, episode, startHash,
                 deferrals, reopening, planVars, runVars, historyVars>>

\* _defer: the run reached the stub of another unfinished node.
Defer(blocker) ==
  /\ pc \in {"gate", "compare"}
  /\ blocker \in Todo \ {current}
  /\ deferrals[current] < MaxDeferrals
  /\ deferrals' = [deferrals EXCEPT ![current] = @ + 1]
  /\ deferred' = [deferred EXCEPT ![current] = blocker]
  /\ accepted' = TRUE
  /\ pc' = "work"
  /\ UNCHANGED <<dbVars, fileVars, stop, toScan, current, episode, startHash,
                 reopening, planVars, runVars, historyVars>>

\* Variant: the hash is taken when the node is finished.
FinishLeafRehash ==
  /\ pc = "compared"
  /\ status' = [status EXCEPT ![current] = "done"]
  /\ evidence_hash' = IF current \in Cased
                      THEN [evidence_hash EXCEPT ![current] = evidence[current]]
                      ELSE evidence_hash
  /\ accepted' = TRUE
  /\ pc' = "work"
  /\ UNCHANGED <<nodes, parent, depends_on, plan_status, paused, attempt_count,
                 fileVars, stop, toScan, current, episode, startHash, queueVars,
                 reopening, planVars, runVars, historyVars>>

\* _finish_leaf
FinishLeaf ==
  /\ pc = "compared"
  /\ status' = [status EXCEPT ![current] = "done"]
  /\ evidence_hash' = IF current \in Cased
                      THEN [evidence_hash EXCEPT ![current] = startHash]
                      ELSE evidence_hash
  /\ accepted' = TRUE
  /\ pc' = "work"
  /\ UNCHANGED <<nodes, parent, depends_on, plan_status, paused, attempt_count,
                 fileVars, stop, toScan, current, episode, startHash, queueVars,
                 reopening, planVars, runVars, historyVars>>

---------------------------------------------------------------------------
(* Imp._split, and the planner run it starts.  Of the planner's loop (see  *)
(* src/src/JFI/planner/loop.py) it has the verdicts, the nodes added and   *)
(* the end of the run; escalation and pausing are left out here.           *)

Skip ==
  /\ status' = [status EXCEPT ![current] = "skipped"]
  /\ pc' = "top" /\ LeaveNode
  /\ UNCHANGED <<nodes, parent, depends_on, plan_status, paused, attempt_count,
                 evidence_hash, fileVars, stop, toScan, queueVars, reopening,
                 planVars, runVars, historyVars>>

CannotSplit == pc = "split" /\ (current \in Uncuttable \/ Children(current) # {}) /\ Skip

SendBack ==
  /\ pc = "split" /\ current \notin Uncuttable /\ Children(current) = {}
  /\ plan_status' = [plan_status EXCEPT ![current] = "breakdown"]
  /\ attempt_count' = [attempt_count EXCEPT ![current] = 0]
  /\ episodes' = 0
  /\ pc' = "replan"
  /\ UNCHANGED <<nodes, parent, depends_on, paused, status, evidence_hash,
                 fileVars, stop, toScan, gateVars, queueVars, reopening,
                 splitting, runVars, historyVars>>

NothingAdded == pc = "replanned" /\ Children(current) = {} /\ Skip

PartsAdded ==
  /\ pc = "replanned" /\ Children(current) # {}
  /\ pc' = "top" /\ LeaveNode
  /\ UNCHANGED <<dbVars, fileVars, stop, toScan, queueVars, reopening, planVars,
                 runVars, historyVars>>

Live(n) == n \in nodes /\ ~ paused[n] /\ status[n] # "done"
Unjudged(n) == Live(n) /\ plan_status[n] = "none"
ToRedo(n) == Live(n) /\ plan_status[n] = "redo"
Unsplit(n) == Live(n) /\ plan_status[n] = "breakdown" /\ Children(n) = {}

\* Planner.run is at the top of its loop.
Deciding == pc = "replan" /\ splitting = NoNode /\ reopening = NoNode

planUnchanged == <<nodes, parent, depends_on, paused, evidence_hash, fileVars,
                   stop, toScan, gateVars, queueVars, runVars, historyVars>>

ReplanJudge(n, verdict) ==
  /\ Deciding /\ Unjudged(n) /\ episodes < MaxPlannerEpisodes
  /\ verdict = "breakdown" => Children(n) = {} /\ Depth(n) < MaxDepth
  /\ plan_status' = [plan_status EXCEPT ![n] = verdict]
  /\ UNCHANGED <<planUnchanged, status, attempt_count, pc, reopening, planVars>>

\* The node's author rewrites it, and it is judged again...
ReplanRewrite(n) ==
  /\ Deciding /\ ToRedo(n) /\ ~ stop /\ episodes < MaxPlannerEpisodes
  /\ plan_status' = [plan_status EXCEPT ![n] = "none"]
  /\ status' = [status EXCEPT ![n] = "todo"]
  /\ attempt_count' = IF status[n] = "todo" THEN attempt_count
                      ELSE [attempt_count EXCEPT ![n] = 0]
  /\ episodes' = episodes + 1
  /\ reopening' = n
  /\ UNCHANGED <<planUnchanged, pc, splitting>>

\* ... or leaves it as it is, until the cap on redos accepts it.
ReplanKeep(n) ==
  /\ Deciding /\ ToRedo(n) /\ ~ stop /\ episodes < MaxPlannerEpisodes
  /\ \E verdict \in {"redo", "good"} :
       plan_status' = [plan_status EXCEPT ![n] = verdict]
  /\ episodes' = episodes + 1
  /\ UNCHANGED <<planUnchanged, status, attempt_count, pc, reopening, splitting>>

ReplanBreakdown(n) ==
  /\ Deciding /\ Unsplit(n) /\ ~ stop /\ episodes < MaxPlannerEpisodes
  /\ splitting' = n
  /\ episodes' = episodes + 1
  /\ UNCHANGED <<planUnchanged, plan_status, status, attempt_count, pc, reopening>>

\* add_node
ReplanAdd(m, deps) ==
  /\ pc = "replan" /\ splitting # NoNode /\ reopening = NoNode
  /\ m \in Node \ nodes /\ \A x \in nodes : x < m
  /\ \A x \in Node \ nodes : (\A y \in nodes : y < x) => m <= x
  /\ Depth(splitting) < MaxDepth
  /\ deps \subseteq nodes
  /\ nodes' = nodes \cup {m}
  /\ parent' = [parent EXCEPT ![m] = splitting]
  /\ depends_on' = [depends_on EXCEPT ![m] = deps]
  /\ plan_status' = [plan_status EXCEPT ![m] = "none"]
  /\ paused' = [paused EXCEPT ![m] = FALSE]
  /\ status' = [status EXCEPT ![m] = "todo"]
  /\ attempt_count' = [attempt_count EXCEPT ![m] = 0]
  /\ evidence_hash' = [evidence_hash EXCEPT ![m] = NoHash]
  /\ reopening' = m
  /\ UNCHANGED <<fileVars, stop, pc, toScan, gateVars, queueVars, planVars,
                 runVars, historyVars>>

\* Variant: the node is left as it is when parts were added.
ReplanSplitLeaves ==
  /\ pc = "replan" /\ splitting # NoNode /\ reopening = NoNode
  /\ IF Children(splitting) # {}
       THEN UNCHANGED plan_status
       ELSE plan_status' = [plan_status EXCEPT ![splitting] = "good"]
  /\ splitting' = NoNode
  /\ UNCHANGED <<planUnchanged, status, attempt_count, pc, reopening, episodes>>

\* The end of _breakdown: any part added settles the node; with none, the
\* planner calls it small enough, or finds it too big for one pass.
ReplanSplitEnds ==
  /\ pc = "replan" /\ splitting # NoNode /\ reopening = NoNode
  /\ \E verdict \in IF Children(splitting) # {} THEN {"good"} ELSE {"good", "redo"} :
       plan_status' = [plan_status EXCEPT ![splitting] = verdict]
  /\ splitting' = NoNode
  /\ UNCHANGED <<planUnchanged, status, attempt_count, pc, reopening, episodes>>

\* Stopped before a part was added: the node stays as it is.
ReplanSplitStopped ==
  /\ pc = "replan" /\ splitting # NoNode /\ reopening = NoNode
  /\ stop /\ Children(splitting) = {}
  /\ splitting' = NoNode /\ episodes' = 0
  /\ pc' = "replanned"
  /\ UNCHANGED <<planUnchanged, plan_status, status, attempt_count, reopening>>

\* Planner.run returns: stopped, out of episodes (_settle_everything), or
\* with nothing left to decide.
ReplanReturns ==
  /\ Deciding
  /\ \/ /\ stop
        /\ UNCHANGED plan_status
     \/ /\ ~ stop /\ episodes >= MaxPlannerEpisodes
        /\ plan_status' = [n \in Node |-> IF n \in nodes /\ ~ paused[n]
                                          THEN "good" ELSE plan_status[n]]
     \/ /\ ~ stop /\ episodes < MaxPlannerEpisodes
        /\ \A n \in nodes : ~ Unjudged(n) /\ ~ ToRedo(n) /\ ~ Unsplit(n)
        /\ UNCHANGED plan_status
  /\ episodes' = 0
  /\ pc' = "replanned"
  /\ UNCHANGED <<planUnchanged, status, attempt_count, reopening, splitting>>

---------------------------------------------------------------------------
(* The world around the run.                                               *)

\* Somebody at the gate's evidence while it runs.
Touch(n) == touched' = (touched \/ (n = current /\ pc \in {"gate", "compare"}))

\* A person or the dashboard edits or re-captures the evidence of a node; it
\* may be what it was before.
EditEvidence(n) ==
  /\ edits < MaxEdits
  /\ edits' = edits + 1
  /\ \E c \in Content \ {NoHash, evidence[n]} : evidence' = [evidence EXCEPT ![n] = c]
  /\ Touch(n)
  /\ UNCHANGED <<dbVars, stop, pc, toScan, gateVars, queueVars, reopening,
                 planVars, runVars, compared, disturbed>>

\* git checkout: Dev, a command it runs or a person puts the evidence back as
\* it was, as the gate's refusal says, but at any time.
RestoreEvidence ==
  /\ current \in Cased /\ startHash \notin {NoHash, evidence[current]}
  /\ evidence' = [evidence EXCEPT ![current] = startHash]
  /\ Touch(current)
  /\ UNCHANGED <<dbVars, edits, stop, pc, toScan, gateVars, queueVars, reopening,
                 planVars, runVars, compared, disturbed>>

Stop ==
  /\ pc # "over" /\ ~ stop
  /\ stop' = TRUE
  /\ UNCHANGED <<dbVars, fileVars, pc, toScan, gateVars, queueVars, reopening,
                 planVars, runVars, historyVars>>

Crash ==
  /\ pc # "over"
  /\ Forget
  /\ UNCHANGED <<dbVars, fileVars, stop, runVars, historyVars>>

\* The session is started again: imp has no marker, so it is run again.
Restart ==
  /\ pc = "over" /\ ~ complete /\ runs < MaxRuns
  /\ pc' = "top" /\ stop' = FALSE /\ runs' = runs + 1
  /\ UNCHANGED <<dbVars, fileVars, toScan, gateVars, queueVars, reopening,
                 planVars, complete, historyVars>>

Over == pc = "over" /\ UNCHANGED vars

---------------------------------------------------------------------------

Loop ==
  \/ StopAtTop \/ BeginScan \/ ReopenAncestors \/ ScanDone \/ PickNone
  \/ \E n \in nodes : Unchanged(n) \/ Requeue(n) \/ PickOverflow(n) \/ PickWork(n)

EpisodeEnds ==
  EpisodeFinishes \/ EpisodeRunsOut \/ EpisodeStopped \/ WrapUpEnds

Gate ==
  \/ GateOpens \/ ProofPasses \/ CasesCompared \/ GateRefuses \/ FinishLeaf
  \/ \E b \in nodes : Defer(b)

SplitStep == CannotSplit \/ SendBack \/ NothingAdded \/ PartsAdded

ReplanStep ==
  \/ \E n \in nodes :
       \/ \E verdict \in {"breakdown", "redo", "good"} : ReplanJudge(n, verdict)
       \/ ReplanRewrite(n) \/ ReplanKeep(n) \/ ReplanBreakdown(n)
  \/ \E m \in Node, deps \in SUBSET nodes :
       Cardinality(deps) <= MaxNewDeps /\ ReplanAdd(m, deps)
  \/ ReplanSplitEnds \/ ReplanSplitStopped \/ ReplanReturns

Edit == RestoreEvidence \/ \E n \in Cased : EditEvidence(n)

Step == Loop \/ EpisodeEnds \/ Gate \/ SplitStep \/ ReplanStep

\* One run of the phase, which the person may stop.
Next == Step \/ Edit \/ Stop \/ Over

\* Runs of the phase, each of which may be killed at any point.
InterruptedNext == Next \/ Crash \/ Restart

\* Episodes end: run_episode counts turns and tokens.  Everything else is
\* straight-line code.
Fairness ==
  /\ WF_vars(Loop \/ SplitStep)
  /\ WF_vars(pc # "work" /\ Gate)
  /\ SF_vars(EpisodeEnds)
  /\ SF_vars(ReplanSplitEnds \/ ReplanSplitStopped)
  /\ WF_vars(ReplanStep)

Spec == Init /\ [][Next]_vars
InterruptedSpec == Init /\ [][InterruptedNext]_vars
FairSpec == InterruptedSpec /\ Fairness

---------------------------------------------------------------------------
(* What the phase promises.                                                *)

\* A finished node has no unfinished part: a parent is checked as a whole
\* after everything under it (queue.py), so it must not keep its verdict
\* when a part is reopened or added.  The row whose ancestors are being
\* reopened is the one exception.
ParentLast ==
  \A n \in nodes :
    ~ paused[n] /\ ~ Finished(n) /\ parent[n] # Root /\ n # reopening
      => ~ Finished(parent[n])

\* D27: when the phase reports success every node reached a finished state.
\* Nodes set aside by an escalation are the planner's to account for.
NothingLost ==
  complete => \A n \in nodes : paused[n] \/ Finished(n)

\* queue.py: a node comes after everything under it, and after everything
\* under what it or a node above it depends on.
MustWait(n, x) ==
  /\ x \in Todo \ ({n} \cup Ancestors(n))
  /\ \/ n \in Ancestors(x)
     \/ \E a \in {n} \cup Ancestors(n) :
          depends_on[a] \cap ({x} \cup Ancestors(x)) # {}

HeldBack(n) == deferred[n] \in Todo \/ \E x \in Todo : MustWait(n, x)

\* A node is finished before something it waits for only when the queue had
\* no other choice: every other unfinished node was held back too, and this
\* one comes first among them.
DependenciesFirst ==
  [][\A n \in nodes :
       status[n] # "done" /\ status'[n] = "done" /\ (\E x \in Todo : MustWait(n, x))
         => FirstIn(n, Todo) /\ \A m \in Todo \ {n} : HeldBack(m)]_vars

\* A finished node is taken up again only because its evidence is not what
\* it matched, because something under it is unfinished, or because the
\* planner rewrote it.
ReopenedForCause ==
  [][\A n \in nodes :
       Finished(n) /\ status'[n] = "todo"
         => \/ evidence[n] # evidence_hash[n]
            \/ \E m \in Under(n) : m # n /\ ~ Finished(m)
            \/ plan_status[n] = "redo"]_vars

\* The evidence hash kept with a finished node vouches for a comparison: the
\* node was compared with that very evidence, whatever was edited and put back
\* before and after.  The exception is an edit while the gate's test or its
\* comparison runs: the hash is the one the gate looked at before (dev.py:410).
VouchedFor ==
  \A n \in (nodes \cap Cased) \ disturbed :
    status[n] = "done" => compared[n] = evidence_hash[n]

\* The phase ends, stopped or with an empty queue.
RunEnds == <>[](pc = "over")
=============================================================================
