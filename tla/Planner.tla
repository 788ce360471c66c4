------------------------------ MODULE Planner ------------------------------
(***************************************************************************)
(* The planning loop (src/src/JFI/planner/loop.py) and the plan tools its  *)
(* episodes call (src/src/JFI/planner/nodes.py).  The Architect adds the   *)
(* components, every node is judged GOOD, BREAKDOWN or REDO, the author    *)
(* rewrites a REDO node, and the next role down breaks a BREAKDOWN node    *)
(* into parts.  Breakdowns of one level run side by side, a few at a time, *)
(* each in a thread; their tool calls take turns under one lock.           *)
(*                                                                         *)
(* A step ends where the code commits to the database or asks the model.   *)
(* The model behind an episode may call any tool of its role, with any     *)
(* arguments, any number of times; the judge gives any verdict that        *)
(* module Judge allows for the node's level.                               *)
(***************************************************************************)
EXTENDS PlanTree, Judge, Parallel

CONSTANTS
  Plans,           \* the trees a run may start from
  RedoCap,         \* redo_cap(); 2 by default
  EscalationCap,   \* escalation_cap()
  MaxEpisodes,     \* max_planner_episodes()
  PARALLEL_LLM,    \* the setting: episodes of a role at a time
  CONTEXT_SIZE,    \* tokens an episode may grow to
  Servers,         \* how a probe may find the role's model server
  Continuations,   \* ARCHITECT_CONTINUATIONS; 2 in the code
  MaxNewDeps,      \* bound: dependencies a tool call names
  MaxRuns          \* bound: times the planner is started

ASSUME CapsAssumption ==
  /\ RedoCap \in Nat
  /\ EscalationCap \in Nat
  /\ MaxEpisodes \in Nat \ {0}
  /\ PARALLEL_LLM \in Nat
  /\ CONTEXT_SIZE \in Nat \ {0}
  /\ Servers \subseteq Server
  /\ Continuations \in Nat
  /\ MaxNewDeps \in Nat
  /\ MaxRuns \in Nat \ {0}

\* A run starts from the tree that the runs before it left: parents older
\* than their children and at most five levels, dependencies that are in the
\* plan and form no cycle.
ASSUME PlansAssumption ==
  \A p \in Plans :
    LET up(n) == IF n = Root THEN Root ELSE p.parent[n]
    IN  /\ p.nodes \subseteq Node
        /\ p.parent \in [Node -> Node \cup {Root}]
        /\ p.depends_on \in [Node -> SUBSET Node]
        /\ p.plan_status \in [Node -> PlanStatus]
        /\ p.status \in [Node -> Status]
        /\ p.level \in [Node -> Level]
        /\ \A n \in p.nodes :
             /\ up(n) \in p.nodes \cup {Root} /\ up(n) < n
             /\ up(up(up(up(up(n))))) = Root
             /\ p.depends_on[n] \subseteq p.nodes
        /\ ~ \E ring \in (SUBSET p.nodes) \ {{}} :
               \A n \in ring : p.depends_on[n] \cap ring # {}

VARIABLES
  level,             \* the role that wrote each node
  redo_count,        \* counted up to RedoCap, beyond which it makes no difference
  escalation_count,
  pc,                \* what Planner.run is doing
  batch,             \* nodes of that action not yet taken up
  work,              \* where the episode on each node is; Root is the Architect's
  unpausing,         \* judged node whose subtree is to be unpaused next
  episodes,          \* Planner.episodes
  left,              \* continuations the Architect has left
  workers,           \* threads of the batch
  stop,              \* the person asked for a stop
  failed,            \* Planner.failed is set
  raised,            \* an exception leaves the batch when its threads are done
  result,            \* what run() returned; "none" until then
  runs,              \* number of times the planner was started
  reopening,         \* the node whose ancestors an episode's tool call is to reopen
  torn               \* history: nodes whose ancestors a kill kept from that

countVars == <<redo_count, escalation_count>>
dbVars == <<nodes, parent, depends_on, plan_status, paused, status, level,
            redo_count, escalation_count>>
loopVars == <<pc, batch, workers>>
toolVars == <<reopening, torn>>
endVars == <<stop, failed, raised, result, runs, toolVars>>

vars == <<nodes, parent, depends_on, plan_status, paused, status, level,
          redo_count, escalation_count, pc, batch, work, unpausing, episodes,
          left, workers, stop, failed, raised, result, runs, reopening, torn>>

NextRole == [architect |-> "lead", lead |-> "task", task |-> "task"]
Above == [architect |-> {}, lead |-> {"architect"}, task |-> {"architect", "lead"}]

\* "start" and "first" are the first conversation about to start and under
\* way, "again" and "second" the one that continues it, "retry" and "third"
\* the one after an error of the model server.
Stage == {"idle", "start", "first", "again", "second", "retry", "third"}
Opened == [start |-> "first", again |-> "second", retry |-> "third"]
InEpisode(n) == work[n] \in {"first", "second", "third"}
AboutToOpen(n) == work[n] \in {"start", "again", "retry"}

\* _parallel_for probes the server at every batch; what it allows varies.
MaxWorkers == RequestedParallel(PARALLEL_LLM)
Workers == {EffectiveParallel(PARALLEL_LLM, s, CONTEXT_SIZE) : s \in Servers}

NoNode == Root

TypeOK ==
  /\ TreeTypeOK
  /\ level \in [Node -> Level]
  /\ redo_count \in [Node -> 0 .. RedoCap]
  /\ escalation_count \in [Node -> 0 .. EscalationCap]
  /\ pc \in {"top", "architect", "judge", "redo", "breakdown", "over"}
  /\ batch \subseteq Node
  /\ work \in [Node \cup {Root} -> Stage]
  /\ unpausing \in Node \cup {NoNode}
  /\ episodes \in Nat
  /\ left \in 0 .. Continuations
  /\ workers \in 1 .. MaxWorkers
  /\ stop \in BOOLEAN /\ failed \in BOOLEAN /\ raised \in BOOLEAN
  /\ result \in {"none", "stopped", "failed", "budget", "complete", "no plan", "raised"}
  /\ runs \in 1 .. MaxRuns
  /\ reopening \in [Node \cup {Root} -> Node \cup {NoNode}]
  /\ torn \subseteq Node

Idle == [n \in Node \cup {Root} |-> "idle"]
NoCall == [n \in Node \cup {Root} |-> NoNode]

\* Nodes that wait for work under a finished one.
UnderFinished(tree) ==
  {n \in tree.nodes : /\ tree.status[n] = "todo" /\ tree.parent[n] # Root
                      /\ tree.status[tree.parent[n]] # "todo"}

Init ==
  /\ \E p \in Plans :
       /\ nodes = p.nodes
       /\ parent = p.parent
       /\ depends_on = p.depends_on
       /\ status = p.status
       /\ level = p.level
       /\ plan_status = p.plan_status
       /\ torn = UnderFinished(p)
       \* an empty tree is created, one with review feedback extended
       /\ pc \in {"architect"} \cup IF p.nodes = {} THEN {} ELSE {"top"}
  /\ paused = [n \in Node |-> FALSE]
  /\ redo_count = [n \in Node |-> 0]
  /\ escalation_count = [n \in Node |-> 0]
  /\ work = [Idle EXCEPT ![Root] = IF pc = "architect" THEN "start" ELSE "idle"]
  /\ batch = {} /\ unpausing = NoNode /\ workers = 1
  /\ episodes = 0 /\ left = Continuations
  /\ stop = FALSE /\ failed = FALSE /\ raised = FALSE
  /\ result = "none" /\ runs = 1 /\ reopening = NoCall

---------------------------------------------------------------------------
(* run: the first pending action, looked up afresh each time.              *)

Live(n) == n \in nodes /\ ~ paused[n] /\ status[n] # "done"

Pending(kind, l) ==
  {n \in nodes :
     /\ Live(n) /\ level[n] = l
     /\ \/ kind = "judge" /\ plan_status[n] = "none"
        \/ kind = "redo" /\ plan_status[n] = "redo"
        \/ kind = "breakdown" /\ plan_status[n] = "breakdown" /\ Children(n) = {}}

Kinds == {"judge", "redo", "breakdown"}
Earlier == [judge |-> {}, redo |-> {"judge"}, breakdown |-> {"judge", "redo"}]

IsNextAction(kind, l) ==
  /\ Pending(kind, l) # {}
  /\ \A k \in Earlier[kind] : Pending(k, l) = {}
  /\ \A k \in Kinds, a \in Above[l] : Pending(k, a) = {}

Eldest(n, S) == n \in S /\ \A m \in S : n <= m

AtTop == pc = "top" /\ ~ stop /\ ~ failed /\ episodes < MaxEpisodes

Return(why) ==
  /\ pc' = "over" /\ result' = why
  /\ batch' = {} /\ work' = Idle /\ unpausing' = NoNode
  /\ episodes' = 0 /\ left' = Continuations /\ workers' = 1
  /\ failed' = FALSE /\ raised' = FALSE
  /\ reopening' = NoCall
  /\ torn' = torn \cup ({reopening[n] : n \in DOMAIN reopening} \ {NoNode})
  /\ UNCHANGED <<stop, runs>>

ReturnEarly ==
  /\ pc = "top" /\ (stop \/ failed)
  /\ Return(IF stop THEN "stopped" ELSE "failed")
  /\ UNCHANGED dbVars

\* _settle_everything
OutOfEpisodes ==
  /\ pc = "top" /\ ~ stop /\ ~ failed /\ episodes >= MaxEpisodes
  /\ plan_status' = [n \in Node |-> IF n \in nodes /\ ~ paused[n]
                                    THEN "good" ELSE plan_status[n]]
  /\ Return("budget")
  /\ UNCHANGED <<nodes, parent, depends_on, paused, status, level, countVars>>

NothingLeft ==
  /\ AtTop
  /\ \A k \in Kinds, l \in Level : Pending(k, l) = {}
  /\ Return("complete")
  /\ UNCHANGED dbVars

TakeJudge(l) ==
  /\ AtTop /\ IsNextAction("judge", l)
  /\ pc' = "judge" /\ batch' = Pending("judge", l)
  /\ UNCHANGED <<dbVars, work, unpausing, episodes, left, workers, endVars>>

TakeRedo(l, n) ==
  /\ AtTop /\ IsNextAction("redo", l) /\ Eldest(n, Pending("redo", l))
  /\ pc' = "redo" /\ work' = [work EXCEPT ![n] = "start"]
  /\ UNCHANGED <<dbVars, batch, unpausing, episodes, left, workers, endVars>>

\* _breakdowns: the first node alone, or all of them, `w` at a time.
TakeFirst(l, n) ==
  /\ AtTop /\ IsNextAction("breakdown", l) /\ Eldest(n, Pending("breakdown", l))
  /\ 1 \in Workers \/ Cardinality(Pending("breakdown", l)) = 1
  /\ pc' = "breakdown" /\ work' = [work EXCEPT ![n] = "start"]
  /\ workers' = 1
  /\ UNCHANGED <<dbVars, batch, unpausing, episodes, left, endVars>>

TakeAll(l, w) ==
  /\ AtTop /\ IsNextAction("breakdown", l) /\ Cardinality(Pending("breakdown", l)) > 1
  /\ pc' = "breakdown" /\ batch' = Pending("breakdown", l)
  /\ workers' = w
  /\ UNCHANGED <<dbVars, work, unpausing, episodes, left, endVars>>

---------------------------------------------------------------------------
(* Judging.                                                                *)

Settled(n, verdict) ==
  IF \/ verdict = "breakdown" /\ (Children(n) # {} \/ Depth(n) >= MaxDepth)
     \/ verdict = "redo" /\ redo_count[n] >= RedoCap
  THEN "good" ELSE verdict

Bump(n) == [redo_count EXCEPT ![n] = IF @ < RedoCap THEN @ + 1 ELSE @]

JudgeOne(n, verdict) ==
  /\ pc = "judge" /\ unpausing = NoNode /\ Eldest(n, batch)
  /\ batch' = batch \ {n}
  /\ plan_status' = [plan_status EXCEPT ![n] = Settled(n, verdict)]
  /\ redo_count' = IF Settled(n, verdict) = "redo" THEN Bump(n) ELSE redo_count
  /\ unpausing' = IF escalation_count[n] > 0 /\ Settled(n, verdict) # "redo"
                  THEN n ELSE NoNode
  /\ UNCHANGED <<nodes, parent, depends_on, paused, status, level,
                 escalation_count, pc, work, episodes, left, workers, endVars>>

\* _unpause_children, after the verdict's commit.
Unpause ==
  /\ unpausing # NoNode
  /\ LET back == {m \in Under(unpausing) \ {unpausing} : paused[m]}
     IN  /\ paused' = [m \in Node |-> paused[m] /\ m \notin back]
         /\ plan_status' = [m \in Node |-> IF m \in back THEN "none" ELSE plan_status[m]]
  /\ unpausing' = NoNode
  /\ UNCHANGED <<nodes, parent, depends_on, status, level, countVars, loopVars,
                 work, episodes, left, endVars>>

JudgeDone ==
  /\ pc = "judge" /\ unpausing = NoNode /\ batch = {}
  /\ pc' = "top"
  /\ UNCHANGED <<dbVars, batch, work, unpausing, episodes, left, workers, endVars>>

---------------------------------------------------------------------------
(* The plan tools, called from the episode on `scope`.                     *)

Role(scope) ==
  IF scope = Root THEN "architect"
  ELSE IF pc = "redo" THEN level[scope] ELSE NextRole[level[scope]]

NewId(m) ==
  m \in Node /\ (\A x \in nodes : x < m) /\ (m = 1 \/ m - 1 \in nodes)

DoneLeaf(n) == n \in nodes /\ status[n] = "done" /\ Children(n) = {}

memory == <<loopVars, work, unpausing, episodes, left, stop, failed, raised, result, runs>>

\* A call holds the plan's lock until it is through.
MayCall(scope) ==
  InEpisode(scope) /\ \A n \in DOMAIN reopening : reopening[n] = NoNode

Insert(m, under, role, deps) ==
  /\ nodes' = nodes \cup {m}
  /\ parent' = [parent EXCEPT ![m] = under]
  /\ depends_on' = [depends_on EXCEPT ![m] = deps]
  /\ plan_status' = [plan_status EXCEPT ![m] = "none"]
  /\ paused' = [paused EXCEPT ![m] = FALSE]
  /\ level' = [level EXCEPT ![m] = role]
  /\ redo_count' = [redo_count EXCEPT ![m] = 0]
  /\ escalation_count' = [escalation_count EXCEPT ![m] = 0]

\* The Architect names any parent or none; Lead and Task add to their scope.
MayAdd(scope, under) ==
  /\ MayCall(scope)
  /\ Role(scope) # "architect" => under = scope
  /\ under # Root => under \in nodes /\ Depth(under) < MaxDepth

\* Variant: finished nodes are not told apart.
AddAnywhere(scope, m, under, deps) ==
  /\ MayAdd(scope, under) /\ NewId(m) /\ deps \subseteq nodes
  /\ Insert(m, under, Role(scope), deps)
  /\ status' = [status EXCEPT ![m] = "todo"]
  /\ reopening' = [reopening EXCEPT ![scope] = m]
  /\ torn' = torn /\ UNCHANGED memory

\* Variant: the nodes above are left as they are.
AddQuietly(scope, m, under, deps) ==
  /\ MayAdd(scope, under) /\ NewId(m) /\ ~ DoneLeaf(under) /\ deps \subseteq nodes
  /\ Insert(m, under, Role(scope), deps)
  /\ status' = [status EXCEPT ![m] = "todo"]
  /\ UNCHANGED <<toolVars, memory>>

\* The first of its two commits.
AddNode(scope, m, under, deps) ==
  /\ MayAdd(scope, under) /\ NewId(m) /\ ~ DoneLeaf(under) /\ deps \subseteq nodes
  /\ Insert(m, under, Role(scope), deps)
  /\ status' = [status EXCEPT ![m] = "todo"]
  /\ reopening' = [reopening EXCEPT ![scope] = m]
  /\ torn' = torn /\ UNCHANGED memory

\* No node waits for itself, directly or through others (_cycles).
Acyclic(deps) ==
  ~ \E ring \in (SUBSET nodes) \ {{}} : \A n \in ring : deps[n] \cap ring # {}

\* The first of its two commits.
UpdateNode(scope, n, deps) ==
  /\ MayCall(scope)
  /\ n \in nodes /\ level[n] = Role(scope) /\ ~ DoneLeaf(n)
  /\ deps \subseteq nodes
  /\ Acyclic([depends_on EXCEPT ![n] = deps])
  /\ depends_on' = [depends_on EXCEPT ![n] = deps]
  /\ plan_status' = [plan_status EXCEPT ![n] = "none"]
  /\ status' = [status EXCEPT ![n] = "todo"]
  /\ reopening' = [reopening EXCEPT ![scope] = n]
  /\ torn' = torn
  /\ UNCHANGED <<nodes, parent, paused, level, countVars, memory>>

\* The second (reopen_with_ancestors): what is above is checked again.
Reopen(scope) ==
  /\ reopening[scope] # NoNode
  /\ status' = [m \in Node |-> IF m \in Ancestors(reopening[scope]) THEN "todo" ELSE status[m]]
  /\ reopening' = [reopening EXCEPT ![scope] = NoNode]
  /\ torn' = torn
  /\ UNCHANGED <<nodes, parent, depends_on, plan_status, paused, level, countVars, memory>>

\* Variant: what waited for the node still does.
DeleteRowOnly(scope, n) ==
  /\ MayCall(scope)
  /\ n \in nodes /\ level[n] = Role(scope) /\ status[n] # "done" /\ Children(n) = {}
  /\ nodes' = nodes \ {n}
  /\ UNCHANGED <<parent, depends_on, plan_status, paused, status, level, countVars,
                 toolVars, memory>>

DeleteNode(scope, n) ==
  /\ MayCall(scope)
  /\ n \in nodes /\ level[n] = Role(scope) /\ status[n] # "done" /\ Children(n) = {}
  /\ nodes' = nodes \ {n}
  /\ parent' = [parent EXCEPT ![n] = Root]
  /\ depends_on' = [m \in Node |-> IF m = n THEN {} ELSE depends_on[m] \ {n}]
  /\ plan_status' = [plan_status EXCEPT ![n] = "none"]
  /\ paused' = [paused EXCEPT ![n] = FALSE]
  /\ status' = [status EXCEPT ![n] = "todo"]
  /\ redo_count' = [redo_count EXCEPT ![n] = 0]
  /\ escalation_count' = [escalation_count EXCEPT ![n] = 0]
  /\ torn' = torn \ {n}
  /\ UNCHANGED <<level, reopening, memory>>

\* Lead and Task have it: the node of the layer above goes back to its author.
Escalate(scope) ==
  /\ MayCall(scope) /\ scope \in nodes /\ Role(scope) # "architect"
  /\ LET back == IF level[scope] # Role(scope) THEN scope ELSE parent[scope]
     IN  /\ back # Root /\ escalation_count[back] < EscalationCap
         /\ plan_status' = [plan_status EXCEPT ![back] = "redo"]
         /\ escalation_count' = [escalation_count EXCEPT ![back] = @ + 1]
         /\ paused' = [m \in Node |-> paused[m] \/ m \in Under(back) \ {back}]
  /\ UNCHANGED <<nodes, parent, depends_on, status, level, redo_count, toolVars, memory>>

---------------------------------------------------------------------------
(* Episodes: opened, continued once (the Architect's, a few times) when    *)
(* they run out, retried once after an error, and closed.  How an episode  *)
(* can end:                                                                *)

Reasons == {"finish", "stopped", "budget", "turn_cap", "error"}

MayEnd(reason) == reason = "stopped" => stop

others == <<nodes, parent, depends_on, paused, status, level, escalation_count,
            unpausing, left, workers, stop, result, runs, toolVars>>

\* No call of the episode's model is under way.
Answered(n) == reopening[n] = NoNode

\* `one`: a thread takes the next node of the batch.
Active == {n \in Node : work[n] # "idle"}

Start(n) ==
  /\ pc = "breakdown" /\ Eldest(n, batch) /\ Cardinality(Active) < workers
  /\ batch' = batch \ {n}
  /\ work' = IF failed \/ stop \/ episodes >= MaxEpisodes THEN work
             ELSE [work EXCEPT ![n] = "start"]
  /\ UNCHANGED <<others, plan_status, redo_count, pc, episodes, failed, raised>>

\* Variant: the episode isn't counted.
OpenUncounted(n) ==
  /\ AboutToOpen(n) /\ ~ stop
  /\ work' = [work EXCEPT ![n] = Opened[@]]
  /\ UNCHANGED <<others, plan_status, redo_count, pc, batch, episodes, failed, raised>>

\* Variant: the breakdown counts the episode that _episode counts.
OpenTwice(n) ==
  /\ AboutToOpen(n) /\ ~ stop
  /\ episodes' = episodes + 2
  /\ work' = [work EXCEPT ![n] = Opened[@]]
  /\ UNCHANGED <<others, plan_status, redo_count, pc, batch, failed, raised>>

\* _episode
Open(n) ==
  /\ AboutToOpen(n) /\ ~ stop
  /\ episodes' = episodes + 1
  /\ work' = [work EXCEPT ![n] = Opened[@]]
  /\ UNCHANGED <<others, plan_status, redo_count, pc, batch, failed, raised>>

\* What the code does with the node's row once its episodes are over.
AfterBreakdown(n, reason) ==
  LET verdict == IF Children(n) # {} THEN "good"
                 ELSE IF reason \in {"budget", "turn_cap"} THEN "redo" ELSE "good"
  IN  IF n \notin nodes
        THEN raised' = TRUE /\ UNCHANGED <<plan_status, redo_count, failed>>
      ELSE IF plan_status[n] = "redo"
        THEN UNCHANGED <<plan_status, redo_count, failed, raised>>
      ELSE IF Children(n) = {} /\ reason \in {"stopped", "error"}
        THEN failed' = TRUE /\ UNCHANGED <<plan_status, redo_count, raised>>
      ELSE /\ plan_status' = [plan_status EXCEPT ![n] = verdict]
           /\ redo_count' = IF verdict = "redo" THEN Bump(n) ELSE redo_count
           /\ UNCHANGED <<failed, raised>>

\* Variant: whatever the author did, the attempt is counted.
AfterAnyRedo(n) ==
  /\ plan_status' = [plan_status EXCEPT
                       ![n] = IF redo_count[n] >= RedoCap THEN "good" ELSE "redo"]
  /\ redo_count' = Bump(n)
  /\ UNCHANGED <<failed, raised>>

\* The attempt counts when the author left the node as it was.
AfterRedo(n) ==
  /\ IF n \in nodes /\ plan_status[n] = "redo"
       THEN /\ plan_status' = [plan_status EXCEPT
                  ![n] = IF redo_count[n] >= RedoCap THEN "good" ELSE "redo"]
            /\ redo_count' = Bump(n)
       ELSE UNCHANGED <<plan_status, redo_count>>
  /\ UNCHANGED <<failed, raised>>

\* Out of turns: one more conversation goes on from there.
Continue(n) ==
  /\ pc = "breakdown" /\ work[n] = "first" /\ Answered(n)
  /\ work' = [work EXCEPT ![n] = "again"]
  /\ UNCHANGED <<others, plan_status, redo_count, pc, batch, episodes, failed, raised>>

\* Cut off by the model server with nothing added: one more try.
Retry(n) ==
  /\ pc = "breakdown" /\ work[n] \in {"first", "second"} /\ Children(n) = {} /\ Answered(n)
  /\ work' = [work EXCEPT ![n] = "retry"]
  /\ UNCHANGED <<others, plan_status, redo_count, pc, batch, episodes, failed, raised>>

CloseBreakdown(n, reason) ==
  /\ pc = "breakdown" /\ Answered(n)
  /\ \/ /\ InEpisode(n) /\ MayEnd(reason)
        /\ reason = "turn_cap" => work[n] # "first"
        /\ reason = "error" => work[n] = "third" \/ Children(n) # {}
     \/ AboutToOpen(n) /\ stop /\ reason = "stopped"
  /\ AfterBreakdown(n, reason)
  /\ work' = [work EXCEPT ![n] = "idle"]
  /\ UNCHANGED <<others, pc, batch, episodes>>

BatchDone ==
  /\ pc = "breakdown" /\ batch = {} /\ Active = {}
  /\ IF raised THEN Return("raised")
     ELSE /\ pc' = "top" /\ workers' = 1
          /\ UNCHANGED <<batch, work, unpausing, episodes, left, endVars>>
  /\ UNCHANGED dbVars

CloseRedo(n) ==
  /\ pc = "redo" /\ Answered(n)
  /\ InEpisode(n) \/ (work[n] = "start" /\ stop)
  /\ AfterRedo(n)
  /\ work' = [work EXCEPT ![n] = "idle"]
  /\ pc' = "top"
  /\ UNCHANGED <<others, batch, episodes>>

\* _architect: out of turns or tokens, it is continued.
ContinueArchitect ==
  /\ pc = "architect" /\ InEpisode(Root) /\ Answered(Root) /\ left > 0
  /\ left' = left - 1
  /\ work' = [work EXCEPT ![Root] = "again"]
  /\ UNCHANGED <<dbVars, loopVars, unpausing, episodes, endVars>>

CloseArchitect(reason) ==
  /\ pc = "architect" /\ Answered(Root)
  /\ \/ /\ InEpisode(Root) /\ MayEnd(reason)
        /\ reason = "finish" => nodes # {}
        /\ reason \in {"budget", "turn_cap"} => left = 0
     \/ AboutToOpen(Root) /\ stop /\ reason = "stopped"
  /\ IF nodes = {} THEN Return("no plan")
     ELSE /\ pc' = "top" /\ work' = Idle /\ left' = Continuations
          /\ UNCHANGED <<batch, unpausing, episodes, workers, endVars>>
  /\ UNCHANGED dbVars

---------------------------------------------------------------------------
(* Around the run.                                                         *)

Stop ==
  /\ pc # "over" /\ ~ stop
  /\ stop' = TRUE
  /\ UNCHANGED <<dbVars, loopVars, work, unpausing, episodes, left, failed, raised,
                 result, runs, toolVars>>

Crash ==
  /\ pc # "over"
  /\ Return("raised")
  /\ UNCHANGED dbVars

\* The session is started again; only a complete plan is not planned again.
\* The feedback it was started with, if any, is there again.
Restart ==
  /\ pc = "over" /\ result \notin {"complete", "budget"} /\ runs < MaxRuns
  /\ runs' = runs + 1 /\ stop' = FALSE /\ result' = "none"
  /\ pc' \in {"architect"} \cup IF nodes = {} THEN {} ELSE {"top"}
  /\ work' = [Idle EXCEPT ![Root] = IF pc' = "architect" THEN "start" ELSE "idle"]
  /\ UNCHANGED <<dbVars, batch, unpausing, episodes, left, workers, failed, raised,
                 toolVars>>

Over == pc = "over" /\ UNCHANGED vars

---------------------------------------------------------------------------

Take(l) ==
  \/ TakeJudge(l)
  \/ \E n \in nodes : TakeRedo(l, n) \/ TakeFirst(l, n)
  \/ \E w \in Workers \ {1} : TakeAll(l, w)

Judging ==
  \/ \E n \in batch : \E v \in MayJudge[level[n]] : JudgeOne(n, v)
  \/ Unpause \/ JudgeDone

Deps == {d \in SUBSET nodes : Cardinality(d) <= MaxNewDeps}

Call(scope) ==
  \/ \E m \in Node, under \in nodes \cup {Root}, d \in Deps : AddNode(scope, m, under, d)
  \/ \E n \in nodes : \/ \E d \in Deps \cup {depends_on[n]} : UpdateNode(scope, n, d)
                      \/ DeleteNode(scope, n)
  \/ Reopen(scope) \/ Escalate(scope)

Close(n) ==
  \/ \E r \in Reasons : CloseBreakdown(n, r)
  \/ CloseRedo(n)

Loop ==
  \/ ReturnEarly \/ OutOfEpisodes \/ NothingLeft \/ BatchDone
  \/ \E l \in Level : Take(l)
  \/ Judging
  \/ \E n \in Node : Start(n)

Episodes ==
  \/ \E n \in Node \cup {Root} : Open(n)
  \/ \E n \in Node : Continue(n) \/ Retry(n) \/ Close(n)
  \/ ContinueArchitect
  \/ \E r \in Reasons : CloseArchitect(r)

Step == Loop \/ Episodes \/ \E n \in Node \cup {Root} : Call(n)

Next == Step \/ Stop \/ Over

InterruptedNext == Next \/ Crash \/ Restart

\* run_episode counts turns and tokens, so every episode ends.
Fairness ==
  /\ WF_vars(Loop)
  /\ \A n \in Node \cup {Root} : WF_vars(Open(n)) /\ WF_vars(Reopen(n))
  /\ \A n \in Node : SF_vars(Continue(n) \/ Retry(n) \/ Close(n))
  /\ SF_vars(ContinueArchitect \/ \E r \in Reasons : CloseArchitect(r))

Spec == Init /\ [][Next]_vars
InterruptedSpec == Init /\ [][InterruptedNext]_vars
FairSpec == InterruptedSpec /\ Fairness

---------------------------------------------------------------------------
(* What the loop promises.                                                 *)

\* What a node waits for is in the plan, and no node waits for itself: the
\* edges survive deletions, and ids that are given out again.
DependenciesSound ==
  /\ \A n \in nodes : depends_on[n] \subseteq nodes
  /\ Acyclic(depends_on)

\* A finished node has no unfinished part: a part added to, or rewritten
\* under, a finished node sends that one back to be checked again.  It takes
\* a second commit to do so, and a kill between the two leaves the one above
\* finished until another call under it.
Halfway == torn \cup {reopening[s] : s \in DOMAIN reopening}
ParentsReopened ==
  \A n \in nodes \ Halfway :
    status[n] = "todo" /\ parent[n] # Root => status[parent[n]] = "todo"

\* Planning never undoes what Dev has finished: a finished leaf stays in the
\* plan, finished, and is not made a parent.
FinishedKept == [][\A n \in nodes : DoneLeaf(n) => DoneLeaf(n)']_vars

\* A run goes past MAX_PLANNER_EPISODES by less than three episodes for each
\* thread: a thread checks the budget once and then opens up to three, the
\* third where the second was cut off by the model server.
EpisodesBounded ==
  LET architect == 1 + Continuations
      longest == MaxEpisodes - 1 + 3 * MaxWorkers
  IN  episodes <= longest \/ episodes <= architect

\* A run of the planner ends.
RunEnds == <>[](pc = "over")

\* "Rewritten -> re-judged": an unjudged node gets a verdict only from the
\* judge, unless it is escalated or the episode budget runs out.  The one way
\* round the judge is a Task node rewritten in the middle of its own split.
RewritesAreJudged ==
  [][\A n \in nodes :
       n \in nodes' /\ plan_status[n] = "none" /\ plan_status'[n] # "none"
         => \/ pc = "judge"
            \/ result' = "budget"
            \/ escalation_count'[n] > escalation_count[n]
            \/ level[n] = "task" /\ pc = "breakdown"]_vars
=============================================================================
