# A TLA+ development for Just-Finish-It

JFI turns a goal into a program: a **planner** breaks the goal into a tree of
nodes, **Dev** (the *imp* phase) builds them one after the other, a
**reviewer** runs the result end to end, and a **cleanup** closes the
iteration.  Each of them is a loop around conversations ("episodes") with a
language model that may answer anything, and everything lives in one SQLite
database per project so that a run can be stopped, killed and started again.
The models below are about that loop structure: what is committed when, what is
in memory only, who may change what while somebody else looks at it, and what is
true when the program says "complete".

Paths are relative to the repository (`src/JFI/...` is its package).

## 1. Inventory

| Part | Code | State it keeps | Operations | What makes it correct |
|---|---|---|---|---|
| Plan tree | `models/leaf.py`, `planner/nodes.py` | `leaf` rows: parent, depends_on, level, plan_status, paused, status, counters | add, update, delete, escalate, reopen_with_ancestors | parents are rows, dependencies exist and are acyclic, finished work is not undone |
| Dev's queue | `imp/queue.py` | none: computed from the rows | post_order, blockers, next_leaf | parts before parents, dependencies first, never stuck |
| Implementation phase | `imp/dev.py` | rows (status, attempt_count, evidence_hash); in memory `deferred`, `deferrals`, the episode's `start_hash` | run, _work, _wrap_up, _split, the gate mark_leaf_done, the evidence requeue | nothing lost, nothing finished against evidence it was not compared with, ends |
| Planner loop | `planner/loop.py` | rows; in memory `episodes`, `failed`, the batch of threads | judge, redo, breakdown (one or a batch), Architect create/extend/continue | every node settled by the judge, budget kept, ends |
| Reviewer | `review/__init__.py` | review_status, the review report note; in memory `reopened`, report before | run, reopen_leaf, finish | what passed was finished when it was reviewed |
| Pipeline | `runner.py` | history markers `<PHASE>_COMPLETE`, the report; in memory review_failures, round | run_phase, review rounds, collect_next_iteration, resume | complete means everything asked for was built and reviewed |
| Session | `session/*.py` | history rows, metadata (stored queue), the project's lock file | add_message, get_remaining_phases, acquire/release lock, save_queued | one session per project; resumes where it stopped |
| Console | `manager/pt_console_manager.py` | input queues, their snapshot, answers, stop/pause/restart events | type, force, drain, wait, choose | a typed request runs exactly once |
| Episode engine | `episode/*.py` | messages of one conversation, turns, tokens | run_episode, _execute, rectify | ends; a tool call is executed at most once |
| Claims of a plan | `planner/nodes.py` | a node's function, files and ground-truth cases | add, update, delete, finish | a case has one owner |
| Judge | `planner/judge.py`, `llm/lmstudio_control.py` | none; LM Studio's loaded models | rule, Laya, tie-break; unload and reload | never REDO; departs from the rule for cause; models come back |
| Evidence | `tool/evidence_tools.py` | case files, named by plan number; acceptance marks | capture, compare, re-run, edit, accept, rename | no file takes another's place, an accepted answer stands |
| Checkpoints, code tools | `tool/checkpoint_tools.py`, `tool/code_tools.py` | a private git ref per session, the work tree | scaffold, replace, checkpoint, revert_leaf | reverts take away nobody else's work, planner tools no real code |
| Notes, design, runbook | `tool/note_tools.py`, ... | one row per kind | set, append, clear, carry over | "verified" is said here, of the entry as it is |
| Processes, browser | `tool/process_tools.py`, `tool/browser_session.py` | handles, one browser session | start, stop, clear, close | what was stopped is gone |
| LLM transports | `llm/*.py`, `episode/parallel_console.py` | none across requests | stream, cut off, retry, probe | what runs side by side fits the server |
| Approvals | `tool/cmd_tools.py`, `runner.py` | saved prefixes, the accepted hash | ask, approve once, save, all | only what a person approved stands |
| Chores | `imp/dev.py` | runbook entries, notes to the reviewer | setup, finish-up, mending | what stays broken is told |
| Web bridge, dashboard | `manager/web_bridge.py`, `manager/socket_reporter.py`, `web/*.py` | two files, the socket, the question on screen | snapshot, answer, pause, stop, queue a request | a click is acted on once, in its own session |
| The rest | `create_env*.py`, other `tool/*` I/O tools, `models/db.py`, build, export, benchmark | | | not state machines |

How they interact.  The pipeline calls the phases one after the other and
decides between them from the history and the review report.  Dev calls back
into the planner (`replan`) when a node is too big; the reviewer calls Dev after
reopening nodes.  All of them communicate through the rows of the tree: nobody
passes a list of nodes to anybody, each step re-reads the database.  The person
interferes at any time through the stop flag, the input queue and the evidence
files; the operating system by killing the process between any two commits.

What is hard, with the lines, is the `hazards` list of `PROJECT.json`.  In short:
commits that belong together but are two; verdicts, lists, files and hashes read
before an episode and used after it; the meaning of "complete" when nodes are
paused, skipped, unjudged or reopened; order across dependencies that form cycles
between levels; the threads of a parallel breakdown, which share the tree, the
evidence folder, the work tree, the processes and the browser, some under a lock
and some not; loops of redo/deferral/review that only a counter ends; two
processes on one project; and resuming from markers.

## 2. Modules

| Module | What it is |
|---|---|
| `PlanTree` | the rows, the queries over them, and Dev's queue (`next_leaf`) as predicates |
| `Imp` (extends `PlanTree`) | the implementation phase: one run, or runs with crashes and restarts |
| `Judge`, `Parallel` | pure functions: a judge step, and how many episodes a server takes |
| `Planner` (extends `PlanTree`, `Judge`, `Parallel`) | the planner loop, with threads, plan tools, crashes and restarts |
| `Pipeline` | one session: phases, review rounds, iterations, requests, resume |
| `RequestQueue` | abstract: the requests a person makes are handed over once, and in order |
| `InputQueue` (implements `RequestQueue`) | the requests typed or sent while a run is on: queues, snapshot, store, the threads that share them |
| `Episode` | one conversation with a model: turns, size, retries, the question, pause, stop, forced notes, answers |
| `ProjectLock` | abstract: one process at a time works on a project |
| `SessionLock` (implements `ProjectLock`) | the flock and the count per process |
| `Session` (extends `SessionLock`) | sessions opened, resumed, refused, left and killed; the history's rows; the runbook carried over |
| `CodeTools`, `Checkpoints`, `Workspace` (each extends the one before) | what tools do to a file's symbols; the commits of a session and `revert_leaf`; everybody who writes in the work tree |
| `Evidence` | the evidence folder under captures, renames, re-runs and a person's marks |
| `Bridge` | dashboard files, fleet socket and terminal against one pipeline thread, over sessions and processes |
| `Batch`; `Claims`, `Services` (extend it); `Tools` (composes the two) | parallel episodes: what they claim in the plan, and the processes and pages they start |
| `LMStudio`, `Stream`, `Approvals`, `Chores` | models taken out for Laya; a streamed reply and its caps; what a person is asked; setup and finish-up |
| `MCImp`, `MCPlanner`, `MCPipeline`, `MCInputQueue`, `MCEpisode`, `MCSession`, `MCWorkspace`, `MCEvidence`, `MCBridge`, `MCTools` | instances for TLC |
| `*_proofs` | eight modules of theorems: `Imp` (with `Chores`), `Planner` (with `Judge`, `Parallel`), `Pipeline`, `Session` (with `InputQueue`, `Approvals`), `Episode` (with `Stream`), `Files` (`Workspace` and `Evidence`), `Bridge`, `Tools` (with `LMStudio`) |

### PlanTree

A row is a number; `parent`, `depends_on`, `plan_status`, `paused` and `status`
are functions of it.  Ids grow, so a parent is smaller than its child and
siblings are in the order of `sort_key`.  `MAX_LEAF_DEPTH` is 5, which is why
`Ancestors` can be written without recursion (and can be proved about).  The
recursive walk of `post_order` becomes the relation `Before`; `next_leaf`
becomes `IsNextLeaf(n, deferred)`, which one node at most satisfies.

### Imp

`pc` says where `Imp.run` is:

    top --> scan --> pick --> work <--> gate --> compare --> compared --> work
     ^                |         |
     |                v         v  (budget: a wrap-up first)
     +--- top <---- split --> replan --> replanned --> top

| Action | Code |
|---|---|
| `BeginScan`, `Unchanged`, `Requeue`, `ReopenAncestors`, `ScanDone` | `_requeue_changed_evidence`, one node per step; the row and its ancestors are two commits |
| `PickWork`, `PickOverflow`, `PickNone` | `next_leaf` and the head of `_work`; the attempt is counted before the episode |
| `GateOpens`, `ProofPasses`, `CasesCompared`, `GateRefuses`, `Defer`, `FinishLeaf` | `mark_leaf_done`: hash check, test or check, comparison, `_defer`, `_finish_leaf` |
| `EpisodeFinishes`, `EpisodeRunsOut`, `EpisodeStopped`, `WrapUpEnds` | how an episode ends, and what `_work` makes of it |
| `CannotSplit`, `SendBack`, `NothingAdded`, `PartsAdded` | `_split` |
| `ReplanJudge` ... `ReplanReturns` | the planner run inside `_split`, as far as it changes rows Dev sees |
| `EditEvidence`, `RestoreEvidence`, `Stop`, `Crash`, `Restart` | the surroundings |

An episode is any sequence of gate calls, also after one that was accepted (the
`accepted` latch): the model may go on calling until its turn ends.  Evidence is a
number (0 is no hash), so that a hash is compared by identity, as fingerprints are. An
edit may bring any content, an earlier one too, and `RestoreEvidence` is a `git
checkout`, which Dev's commands or a person may run at any time, while the gate is open
included.  `compared`, `touched` and `disturbed` are history: what each node was last
compared with, whether the evidence at the gate was edited since the gate looked at its
hash, and the nodes whose last comparison came after such an edit.  The end reason
`error` is left out: `_call_llm` returns nothing only after a stop.  Escalation and
pausing during the replan are the business of `Planner`, `_setup` and `_finish_up` of
`Chores`, checkpoints of `Workspace`.

### Planner

One action per decision of `Planner.run` (`TakeJudge`, `TakeRedo`, `TakeFirst`,
`TakeAll`, `NothingLeft`, `OutOfEpisodes`, `ReturnEarly`), one per verdict of the judge
(`JudgeOne`, then `Unpause`, a commit of its own), the plan tools (`AddNode`,
`UpdateNode`, `DeleteNode`, `Escalate`) with the checks that decide what they may touch,
and the life of an episode (`Start`, `Open`, `Continue`, `Close...`).  A batch is a
function `work` from nodes to the stage of their thread, so tool calls of `MaxWorkers`
threads interleave.  A tool call holds the write lock (`_locked`, `MayCall`), so no two
overlap, but `add_node` and `update_node` commit twice: the row first, then, in
`Reopen`, its ancestors; `reopening` is what a call has yet to do, and a kill in between
puts the node in the history variable `torn`.  A restart may run the Architect again
(`_replan_feedback` is passed again, runner.py:450).  `raised` is the `StopIteration` of
loop.py:370, which ends the run.  `redo_count` saturates at the cap (it is only compared
with it). The verdicts are those `Judge` allows for a node's level (`MayJudge`), the
number of workers what `Parallel` makes of the setting and a probed server.  The retry
after an error (`Retry`, loop.py:363-368) opens a third episode, as the code does. A run
starts from a plan a run before it may have left (`PlansAssumption`): a tree with sound
dependencies; what is unfinished under a finished node in it counts as `torn`.  Ids are
handed out as SQLite does, highest plus one, so the id of a deleted last row comes
again.

### Pipeline

An *item* is something the session was asked for: the goal, a typed request, or the
fixes a report calls for.  The plan of an item is its status: `none`, `todo`, `done` or
`skipped`.  `open` are the items in history messages not yet planned; the Architect may
end without a leaf for some of them (`unplanned`), which nobody checks as long as the
plan has any node (loop.py:147-157).  A leaf of one item may be a part of another's, so
a new leaf, a reopened one (`reopen_with_ancestors`) and edited evidence (`Requeue`,
dev.py:221-238) put other finished items back to `todo`; their review status stays, and
`kept` are the passed ones this happened to. Markers are a set over the whole history,
as `get_remaining_phases` reads them: nothing removes a marker when a new iteration
begins, and `FirstUnmarked` is the phase a resumed session starts with.  A report is a
number, compared with the one at the start of the review as the code compares texts.
`PhaseFails` needs no stop: the model may no longer answer, the Architect make no plan,
the evidence not be accepted.

### RequestQueue and InputQueue

`RequestQueue` is the promise: the requests `waiting` for the next iteration, the
`urgent` ones for the current turn, what the last run `left` in the store, and the set
`handed`; requests are made, promoted, restored and handed over, the waiting ones from
the front.  `InputQueue` implements it (`OnceInOrder`) under `waiting <- items \o
queued`, `urgent <- forced`: what the worker has drained but not yet returned still
counts as waiting, ahead of what came after it, so `DrainOne` is a stutter and
`ReturnItems` the abstract step.

`InputQueue` is the detail under Pipeline's set `queue`.  `step` is a function of the
threads: the terminal's (`ui`), the dashboards' (`Remote`, which call
`submit_external_queue_item`) and the worker.

| Action | Code |
|---|---|
| `Submit`, `AppendSnapshot`, `CopySnapshot`, `SaveCopy` | a typed line, or a dashboard's: put, snapshot under the lock, `_notify_queue_change`, the callback `save_queued_requests` without the lock |
| `ForceLine`, `Promote`, `MoveOne`, `MoveDone`, `ClearSnapshot` | `!text` and a bare `!` (`_move_queue`) |
| `PhasesDone`, `DrainOne`, `DrainedSome`, `DrainedNone` | `collect_next_iteration` and `_drain` |
| `StayIdle`, `LeaveIdle`, `ReturnItems` | `wait_for_queued_input` |
| `OpenSession`, `TopOfLoop`, `TakeForced`, `PhaseStopped`, `LeaveSession` | `_run_session` and `run_pipeline` as far as they touch the queues |
| `Interrupt`, `NewSession`, `CloseApp` | Ctrl+C, Ctrl+N, `_close_app` |

The assignment to `metadata` and the transaction that follows are one step
(`SaveCopy`).  Lines are only modelled while no question is on screen; with one,
a line is its answer.  The dashboard's stop is the `Interrupt` that does not exit.
A session opened with Ctrl+N is a new one, with an empty store.

### Episode

What `Imp` and `Planner` take as "any calls, then one end reason".  `pc` says
where the episode's thread is:

    top --> wait --> prepare --> call --> send --> stream --> tools --> top
     |                  |         ^ ^                |  |
     v                  v         | +-- sleep <------+  +--> top (no calls)
    end                end        +---- chosen <-- menu <-- ask

| Action | Code |
|---|---|
| `Top`, `WaitWhilePaused` | the look at the stop, and the pause it ends |
| `CapReached`, `Measure` | `run_episode` from the drained notes to the call: the cap, the last-turns warning, pruning, the budget warning, the budget, in this order |
| `CheckStop`, `Send`, `Answered`, `RequestFails`, `Sleep` | `_call_llm` with `is_retryable` and `interruptible_sleep`; `print_agent_response`, which a stop cuts short |
| `ClientRetries`, `SendPlain` | inside `send_message`: the openai client's own retries (`max_retries`, left at 2), and the second `create()` after a 400 that names `stream_options`; neither looks at the stop |
| `Ask`, `TakeAnswer`, `Decide` | the question after the last retry (`get_user_choice`), and what an answer does |
| `Execute` (`CallFinish`, `CallLoad`, `CallWork`), `CallsDone` | the calls of a reply, one by one, and the end of the turn |
| `Interrupt`, `Pause`, `Resume`, `ForceNote` | Ctrl+C or a remote stop, Ctrl+P or the page's buttons, `!text` |
| `Press`, `Confirm` | Enter on a menu: `_confirm_choice` reads the options under the lock and puts the answer without it |
| `Click`, `BridgeLooks`, `BridgeRelays` | the page writes `web_answer.json`; the bridge takes a snapshot, then reads, deletes and relays or drops |

A message is its size: 1, or `Large` for a big tool result, in units of a small
message; the stub left by pruning has size 1 too.  Adding the sizes stands for
`estimate_tokens`, whose rounding is left out.  Questions are numbered, and a waiting
answer is the number of the question it was given to.  The code keeps only the
key, so the number is what a property may see and no action reads.  `TypeError`s, bad
JSON and failing tools are small results: they never end an episode.  Left out:
token counts reported by the server (recorded, never compared with the budget),
repeated-failure texts, images, the answers a socket hub sends without a look at
the status, and questions asked by tools of other phases.  `tries` counts the requests of
the `create()` under way.  `told`, `late`, `after` (the requests sent since the stop),
`excused`, `held` and `nudged` are history.

### Judge and Parallel

Pure operators, so that they can be proved about for arguments of any size.
`Judge`: what the rule reads of a node is the number of functions its description
names and of its non-test files; Laya's answer a probability and maybe a
confidence, in percent; the LLM's reply its lines.  `JudgeStep` is the cascade.
`Parallel`: `RequestedParallel`, `Fits`, `ServerParallel`, `EffectiveParallel` are
the functions of `llm/parallel.py` over what a probe found.

### SessionLock, ProjectLock and Session

`ProjectLock` says what the lock is for: an owner process, the managers at work, and
that the project is free as soon as the last has left or the process is gone.
`SessionLock` is how: a flock, and in each process a count of claims, since a second
`open` by the same process would be refused.  `OneProcessAtATime` is
`ProjectLock!Spec` under `owner <- holder, users <- claim`.

| Action of `Session` | Code |
|---|---|
| `Open`, `Refuse`, `Begin`, `Leave` | the constructor (which also makes the record and carries the runbook over), a look at a session, the refusal of a v1 one, `is_resuming`, `finally` |
| `AddMessage`, `AddToEpisode`, `CommitAppend` | `add_message`, `run_episode`'s `add`: `max(seq)` under `_APPEND_LOCK`, then the commit and `_flushed_count` |
| `RunbookSet`, `EnsureRecord`, `CarriedFrom` | `runbook_set`, `_record`, `carry_over` |
| `Crash` | the process is killed between any two commits |

### CodeTools, Checkpoints and Workspace

A file is a function from symbols to what their text is: a stub, real code, real code
that still has its stub's lines (`part`, which `_is_stub` takes for a stub), or real
code under a marker; or it is absent, or does not parse, which a planner's tool may
leave too (nothing parses what `scaffold_file` and `mark_change` wrote).  `Checkpoints`
has the work tree, git's index (one for all sessions, which decides what `diff` sees)
and a chain of commits per session.  `CanRevert` is the refusal of `revert_leaf`,
`Restore` its loop over files, a part of it where a checkout fails.

| Action of `Workspace` | Code |
|---|---|
| `OpenSession`, `CloseSession` | `Imp.run`'s baseline; the end of a phase, stopped or killed |
| `PlannerReads`, `PlannerWrites` | a code tool of a parallel episode, which holds no lock between reading and writing |
| `StartLeaf`, `DevWrites`, `LeaveLeaf`, `FinishLeaf`, `DieInFinishLeaf` | Dev at a leaf; `_finish_leaf` commits, then writes the row |
| `ReopenLeaf`, `RevertLeaf`, `RevertFails`, `PersonWrites` | the reviewer, and a person at any time, between a tool's reading and writing too |

`overtaken` is history: the calls whose file a person wrote since they read it, or another
such call.

### Evidence

A file is a name (case, suffix, plan number) and what it holds.  `job` is the call a
thread is in the middle of.

| Action | Code |
|---|---|
| `CaptureText`, `SaveFile` | `capture_evidence` finds the name, then writes (`SaveFile` is the write that ends every call: lines 280, 283, 300, 686, 758, 892) |
| `StartShot`, `TakeShot`, `CheckShot` | `_capture_visual`: the name, the picture of a page or an image, the look for a twin, whose finding is deleted; the spec is written by `SaveFile` |
| `StartRerun`, `EndRerun`, `MarkReviewed`, `SaveEditedText` | the dashboard's buttons: read, then write |
| `CompareCase` | `compare_case`, which leaves a result |
| `Sync`, `SyncLooks`, `SyncRenames` | `sync_evidence_names`: the plan and the folder are read, then for each file the look whether its new name is free (line 187) and the rename (188), which replaces what came meanwhile and raises when the file has gone |
| `Renumber`, `Mend` | what makes renames necessary; a ground truth that answers otherwise from now on |

`_same_capture` reads the other pictures one by one and raises on one renamed in between:
that is the second disjunct of `CheckShot` (`Disturbed`).  `from` and `crossed` are
history: `crossed` are the kinds of files of a case that one call renamed, deleted or (a
spec) wrote while another had the name of one in hand.

### Bridge

`worker` is the pipeline's thread; `Tick`, `ReadAnswer`, `RelayAnswer` the bridge's;
`status` and `mail` are `web_status.json` and `web_answer.json`; `page` is what the
dashboard last rendered, which may be old; `wire` is what is on the way to each
session's `SocketReporter`.  `Drop` loses it.  `sent` counts clicks, lines, Ctrl+P and
removals that fail.  A file that cannot be removed stays and is read again (`Undeleted`;
the code passes over the error, web_bridge.py:82-85, 117-120); `kept` are such messages,
as history. `CloseSession` may leave both files, and leaves a reporter behind that still
waits for a message, as `SocketReporter.stop` does.  `NewProcess` is a kill followed by
a start: the files stay, the memory does not.  A message's number, its question and its
session are history; no action reads them.

### Claims, Services and Tools

`Claims` is the checks of the plan tools: `_duplicate_of`, `_file_owner`,
`_cases_problem`, `_test_path_problem`, `_cases_finish`.  They run whole under
`_locked`.  A node is what the checks read of it.  `Services` is the registry of
background processes and `_SESSION` of the browser, where a step ends at each call or
wait between two accesses to what is shared; a wrapper may exit, or be reaped by another
episode's poll, while its child lives on and ignores SIGTERM.  `Kill` sends the SIGKILL
after which the code waits two seconds for the wrapper only and answers "force-killed":
the child may be there yet.  The branch for Windows, which has no groups, is left out.
`Tools` lets the episodes of one batch call both.

### LMStudio, Stream, Approvals and Chores

Small machines that are proved about, each beside the component it serves, and have no
run (section 4).  `LMStudio`: `models_unloaded` around a judge step in a child process.
`Stream`: a reply read by the console, or collected first by a parallel episode and
replayed.  `Approvals`: every question that lets something happen, with answers from two
hands, stops and restarts.  `Chores`: the runbook's setup and build around the leaves,
and the episodes that mend them.

## 3. Runs

| Run | Configuration | Checks |
|---|---|---|
| `imp_run` | 4 plans, up to 4 nodes, 1 edit and checkouts of what the gate's episode began with, splits of 2 planner episodes | `ParentLast`, `NothingLost`, `VouchedFor`, `DependenciesFirst`, `ReopenedForCause` |
| `imp_restarts` | 3 plans of up to 3 nodes, 2 starts, a crash anywhere, fairness | `RunEnds` |
| `plan_run` | empty, draft and built plan, 3 nodes, a hosted and a small local server, budget 2, a kill anywhere | `DependenciesSound`, `ParentsReopened`, `EpisodesBounded`, `FinishedKept`, `RewritesAreJudged` |
| `plan_ends` | 2 nodes, budget 4, 2 starts, fairness | `RunEnds` |
| `pipeline_run` | 1 request, 1 exit word, 2 rounds, 1 report, 1 edit of evidence, 2 starts, fairness | `CompleteMeansDone`, `RequestsKept`, `ComesToRest` |
| `queue_run` | 2 requests, any of them left by the last run, 1 dashboard, 2 sessions, fairness | `StoreKept`, `OnceInOrder`, `QueuedRun`, `SignalsHeeded` |
| `episode_run` | cap 2, budget 6, 1 retry, 1 retry of the client, 1 question, 1 note, 1 pause, a dashboard, fairness | `LateRequests`, `PausedHolds`, `MeasuredFits`, `FinishWins`, `EpisodeEnds` |
| `session_run` | 2 processes, 3 managers, 2 threads, 3 sessions (one of v1), 3 rows each | `RowsInOrder`, `HistoryKept`, `OneGoal`, `VerifiedHere`, `OneProcessAtATime` |
| `workspace_run` | 2 files, 2 leaves, 2 planner threads, 3 commits, 2 writes | `DoneWorkOnDisk`, `RealCodeKept` |
| `evidence_run` | 2 cases, 2 threads, 2 numbers, 3 changes | `NoTwins`, `RenamesKeep`, `AcceptedStands` |
| `bridge_run` | 2 sessions, 3 questions, 2 clicks, lines, pauses or failed removals, fairness | `ActedOnce`, `LeftoversIgnored`, `AnswersMeet`, `StopEnds` |
| `tools_run` | 2 episodes, 5 nodes, 2 files, 1 case, 2 processes, 3 calls | `EndedIsGone`, `CasesHaveOneOwner` |

All of them pass.  What they show, in words:

* **Order** (`ParentLast`, `DependenciesFirst`): however nodes are reopened, split
  and deferred, a parent never stays finished over an unfinished part, and a node
  is finished before something it waits for only if every unfinished node was held
  back, which is the cycle the fallback in `next_leaf` is for.
* **Nothing lost** (`NothingLost`): without a crash, a complete phase has finished
  every node that is not paused, also parts added by a split on the way.
* **Evidence of a node** (`VouchedFor`, `ReopenedForCause`): the hash kept with a
  finished node is the hash of the files it was compared with, although files may change
  and change back before, between and after.  The exception is an edit while the gate is
  open: the hash is taken before its tests run, the files are compared after them, and
  a node finished then keeps a hash it was never compared with (dev.py:350, 392, 410); when
  a `git checkout`, as lines 357-359 advise, puts the old files back, no later scan sees a
  change.  Finished work is only reopened for one of three causes.
* **Planning** (`DependenciesSound`, `ParentsReopened`, `FinishedKept`,
  `RewritesAreJudged`, `EpisodesBounded`): with two threads editing the tree.
  `ParentsReopened` names what a kill between the two commits of a call leaves: a
  finished parent over an unfinished part, until the next call under it.
  `RewritesAreJudged` names its exception: a Task node rewritten during its own
  split is accepted without a judge (nodes.py:477 against loop.py:372-387).
  `EpisodesBounded` states what the unlocked check at loop.py:321 really gives: each
  thread may open up to three episodes once it has looked.
* **Pipeline** (`CompleteMeansDone`, `RequestsKept`, `ComesToRest`): "complete", in a
  session that was not resumed, means that nothing is left to plan or to build, and that
  what is built was passed by a review after it was last put back.  What is passed need
  not be built: a passed item that edited evidence or a new part put back keeps its review
  status, and Dev may give it up then (dev.py:309-317); `CompleteMeansDone` says that this
  is the only way.  A request stays queued, in hand, in the history or planned, unless an
  Architect ended without a leaf for it.
* **Requests** (`OnceInOrder`, `StoreKept`, `QueuedRun`, `SignalsHeeded`): two threads
  that submit, one that promotes and one that drains never lose, repeat or
  overtake a request, and each reaches the pipeline, as do a stop and a Ctrl+N.  The stored
  copy is right as long as no two changes of the queue overlap (`clean`).  Without
  that condition it is not: the queue, the snapshot and the store change in separate
  steps, so a drain between a put and its entry in the snapshot leaves a request
  stored that was run, and one between another's put and the clearing of the
  snapshot drops one that was not.
* **Conversations** (`LateRequests`, `PausedHolds`, `MeasuredFits`, `FinishWins`):
  wherever a stop falls, no message is sent after it but the one on its way.  That one
  is not called back: its request is still made, the client repeats it by itself, and
  `send_message` repeats it without `stream_options`, so `LateRequests` bounds what goes
  out after a stop by `2 * (max_retries + 1)`.  In a pause only the turn under way ends,
  however often it is retried; the first request of a turn fits the budget.  A retry
  need not: the nudge for a reply that was cut off is added after the measurement
  (engine.py:232), which is why the property has its exception (`nudged`).
* **Sessions** (`RowsInOrder`, `HistoryKept`, `OneGoal`, `VerifiedHere`,
  `OneProcessAtATime`): the rows of a session are numbered in the order of their
  commits by whatever thread and process; what is in the database is what was saved,
  once; a session has one goal; an entry of the runbook that says verified was called
  verified in this session, as it is (by a role, whose word `runbook_set` takes, or by
  Dev after a run); and the lock implements its abstract specification.
* **Work on disk** (`DoneWorkOnDisk`, `RealCodeKept`): no revert takes away what
  another finished leaf committed, unless somebody wrote the file since or the
  reviewer was told that its revert failed; and a planner's tool that writes what it
  worked out from an older text takes no real code away but what a person wrote since
  it read (code_tools.py:207-217, 273-292, 500-509), nor what another call wrote that a
  person had overtaken.  Its file may no longer parse, with the code still in it.
* **Evidence on disk** (`RenamesKeep`, `AcceptedStands`, `NoTwins`): a rename keeps all
  files of its case and kind, an accepted text keeps its answers until a person edits it,
  and two cases do not keep the same screen.  Each names what the missing lock costs.
  `RenamesKeep` and `NoTwins` except files whose name one call changed while another had
  it in hand (`crossed`): the other then writes under the old name, which makes a second
  file, and a rename later takes the place of one of the two; or it looks for twins
  under a name that is no longer its own.  A mark puts back the answers its own call read.
* **Remote hands** (`ActedOnce`, `LeftoversIgnored`, `AnswersMeet`, `StopEnds`): with an
  old page, a lost connection, a session that follows another and a process that follows
  a killed one; a message whose file could not be removed is excepted. `AnswersMeet`
  says what has to happen before an answer can go astray: in this process, a question
  answered twice, by two hands or out of a file that stayed, or an answer to one that an
  earlier process asked.  Once one has, every later question may get the answer of the
  one before it, since nobody empties the queue: the property says that there was a
  cause, not that each stray answer has its own.
* **Batches** (`CasesHaveOneOwner`, `EndedIsGone`): a case has one node; what was called
  stopped has nothing running (of what was called force-killed only the signal is
  certain); the end of a session closes the browser, unless two episodes made one each
  (`raced`, browser_session.py:245-246).
* **Endings** (`RunEnds` twice, `ComesToRest`, `QueuedRun`, `SignalsHeeded`,
  `EpisodeEnds`, `StopEnds`): under the fairness below.

### Where the program does otherwise than it says

The models reach these disagreements between the code and its comments or
documents.  No run is spent on them; the properties above are stated so that they
hold of the code, with each exception named.

Work that gets lost or stays aside:

* `_split` commits BREAKDOWN (dev.py:325-330) before it calls `replan`: a process that
  ends there leaves a leaf that Dev's queue does not see (queue.py:53-55), and the
  resumed phase reports success, against README.md:108 and docs/laya_plan.md:917
  ("picks up where it stopped").  Ctrl+C in the same window marks the leaf SKIPPED,
  though README.md:256 promises that a rerun resumes.
* An escalated node that reaches the redo cap is accepted (loop.py:285-288) without
  unpausing what is under it, against loop.py:22-23.
* A resumed session looks for markers in all of its history
  (simple_session_manager.py:255-273): resumed in the reviewer's fix round it runs the
  review alone over a reopened leaf, resumed in a later iteration no phase at all,
  against README.md:164; docs/pipeline.md:126-130 suspects the second.
* A node given a child before its own breakdown is neither broken down nor GOOD,
  against loop.py:18-19, and Dev never builds it.
* A deferral accepted in the wrap-up (dev.py:281-289) is followed by a split or a
  skip, although the tool told Dev that the node "is retried after" the other.
* `append_note` (note_tools.py:53-60) reads and writes in two transactions: of two
  notes at once one is lost.
* Edits made between the last commit of a session and its resumption are taken into the
  next leaf's commit, so a revert of that leaf throws them away; where the baseline
  failed, the first leaf's commit is a root and its revert deletes every file it has;
  `edited` does not see files git does not track (checkpoint_tools.py:107 against
  93-94).

Questions and notes:

* A line forced during the last turn is drained and recorded as consumed
  (engine.py:124-132) by an episode that sends no further request, against
  engine.py:125-126 and README.md:245; one typed with `!` while the pipeline waits at
  PIPELINE COMPLETE goes to a queue that only a turn drains.
* A second answer to a question stays in `_answers` (pt_console_manager.py:1044) and
  decides the next one, against web_bridge.py:22-24; the fleet's answers are not even
  dropped when nothing awaits.
* A stop answers a question with its first option: "Yes, run once" for a command
  (cmd_tools.py:146 against 72-77), "Accept" for the evidence (runner.py:506-515, where
  the hash recorded is that of the files at this moment, not of those shown), "y" for
  another round.  `ParallelConsole` answers "s" where the console answers the first.
* A prefix saved for `ls` approves `lsof` as well.
* Dashboard messages written between the bridge's read and its unlink are lost;
  `SocketReporter.stop` does not end a thread that waits for a message.

Replies and models:

* The collector of parallel replies counts raw characters and one per piece of a tool
  call, the console neither (parallel_console.py:36-39 against 6-8): a reply with
  leaked tokens or tool calls may be cut short and passed on as whole.  The collector
  does not look at a stop.
* `unload_all` stands before the `try` (lmstudio_control.py:96): if it fails half-way,
  nothing is reloaded, against lines 82-84; embedding models are unloaded too
  (line 57) and never come back.

Evidence, processes, chores:

* A refused capture has already overwritten the file; the refusal of a twin deletes
  the previous shot; `mark_reviewed` does not say which version was seen; a `.txt`
  hides a newer `.png`; the page's text area keeps the old text after a re-capture, so
  "Save edit" writes it back (dashboard.py:333-336).
* `stop_background_process` answers "already exited" when the wrapper is gone, whatever
  it left running, and a clear then forgets it (against process_tools.py:237-239); a
  snapshot between the registry and its metadata raises; two episodes may make a
  browser each and lose one (browser_session.py:245-246, against lines 7-8).
* `update_node` with other files or another description passes by `_file_owner` and
  `_duplicate_of`, and after a breakdown's finish was accepted a sibling may take its
  cases away.
* The finish-up of a stopped run returns without telling the reviewer
  (dev.py:557-558), and `run` goes on to report the phase complete (217-219):
  `ReviewerTold` excepts it (`cut`).
* `runbook_set` marks an entry verified on the word of the role that calls it
  (runbook_tools.py:83-84); only Dev's own setup and build are more than that.
* A node whose evidence is edited while the gate is open is finished on the hash from
  before the edit (dev.py:350, 392, 410), and the old files put back look unchanged ever
  after.

### Bounds and why they suffice

`MaxNode` is 3 or 4: a parent, two parts and one unrelated node are enough for a
dependency across levels, a cycle between two subtrees, a split that adds a part and a
later sibling; 5 in `tools_run`, where the plan starts with three. `MaxAttempts`,
`MaxDeferrals`, `RedoCap` and `EscalationCap` are 1, so a cap is reached and exceeded by
the next step; `MaxEdits = 1` puts one edit at any point, and as a checkout is not an
edit, the way there and back around the gate's test is reached (more edits, to any
content in any order, are the theorem's).  `MaxEpisodes` is 2 in `plan_run` (a batch of
two overruns it) and 4 where the whole cycle of redo and breakdown matters.  Two rounds
and two failures make each review cap reachable; with one report text an old report
meets a later review, and one edit of the evidence puts a passed item back once in every
place; two starts give every crash one restart.  `plan_run` ends with a kill; what
follows it is in `plan_ends`.  `MaxNewDeps` bounds the dependencies of an added node.
Two requests, two submitting threads and two sessions make every pair of changes of the
queue overlap and let Ctrl+N meet a request.  A cap of 2 turns has a second turn for a
pause to hold and for the results of the first to be pruned; a budget of 6 with a
kickoff of 1 and results of 1 or 2 lets pruning keep a conversation going that would end
without it, and the warning, the budget and the cap each be the first to bite; one retry
and one question exercise every branch of `_call_llm`, and one retry of the client's
(the library's default is two) is enough to count them, and `RequestFails` is disabled
once `MaxQuestions` are asked (the server recovers), without which no episode need end.

Two processes, one with a second manager and a second thread, make every pair of
claims, appends and deaths meet; `MaxRows = 3` lets one row of an interrupted append
stand between others; two commands are enough to verify one and change to another.
Two files, two leaves and three commits (a baseline and both leaves) give every revert
another leaf's work in its way; `MaxWrites = 2` a write before and one after.  Three
changes of the evidence are a capture, what races it and what comes of it; two plan
numbers, a rename and a way back.  Two sessions, three questions and two messages are a
leftover, what it could be mistaken for, and the question after that one; a removal that
fails takes the place of one of the two.  A file replaced in the way `RenamesKeep` excepts
needs three callers or five changes: the exception is the theorem's, the run shows that
two callers and three changes need none.  Three calls in a batch of two are a start,
a stop and what falls between.  `evidence_run` and `workspace_run` use symmetry over
interchangeable cases, threads, files and leaves; neither has a liveness property.
The four runs with `CHECK_DEADLOCK FALSE` are those where the bounds on changes,
calls or messages end the behaviour, or the process is over.

### Fairness

The loops are straight-line code: their steps are weakly fair.  An episode ends because
`run_episode` counts turns and tokens, so its end is strongly fair against the tool
calls of the model (a gate call makes the end wait, it cannot put it off for ever).  No
fairness is assumed of crashes, stops, edits, tool calls, new requests, or of starting
the program again; a review approval that was asked for gets an answer.  Under this,
redo, breakdown and deferral end only because of their counters, and the mutants
`DeferAgain`, `OpenUncounted` and `ReviewFailedUncounted` drop one counter each and make
the property fail.

In `InputQueue` the worker and a key's handler go on once begun, and reviews stop
failing at the cap (`ReviewPasses`).

In `Episode` the thread's steps are fair, a request among them because the client
has a timeout; a person who has not stopped the run ends a pause and answers a
question (`~stop /\ Resume`, `~stop /\ Press`), since the code waits for them without
limit and means to.  Nothing is assumed of a person after a stop, nor of the
dashboard, so `EpisodeEnds` shows among other things that a stop alone ends every
wait.

In `Bridge` only what follows a stop is fair, of the pipeline's thread (it looks at
the stop five times a second wherever it waits), and the ticks of the bridge's
thread, which the end of a session joins.  Nobody has to answer, resume or click.

## 4. Proofs

Every invariant and every action property that a run checks is also a theorem, for every
value of the constants: any number of nodes, threads, processes, sessions, requests,
files, messages, and any caps; liveness is only model-checked.  Each proof has the same
three parts: an inductive invariant that TLC agreed with on the component's instance
first, lemmas that its parts are kept, with a case per action, and the theorems that read
a property off the invariant.  What follows says, module by module,
what the invariant adds to the properties and why they do not stand without it.

### Imp_proofs

`Correct` is the invariant, `IInv`; from it `TypeCorrect` (`TypeOK`), `ParentsLast`
(`ParentLast`), `EveryNodeFinished` (`NothingLost`), `EvidenceVouched` (`VouchedFor`),
`InOrder` (`DependenciesFirst`) and `ReopenedForItsCause` (`ReopenedForCause`).

`ParentLast` needs that `reopening`, `splitting` and `current` point at rows
(`Pointers`), that a node in hand has no unfinished part (`PartsFinished`, which comes
from `NextLeafFacts`: what `next_leaf` returns has none, also in its fallback, since
among its own parts one would come first), and the shape of the tree (`WellFormed`).
`NothingLost` needs that outside a stopped planner run every node is either paused or
GOOD (`SettledInv`, `VerdictInv`), otherwise `dev_nodes` would not see it.  `VouchedFor`
needs that the evidence at the gate is what the gate looked at until somebody edits it,
and that a node finished while it is in hand has that hash (`EvidenceInv`); nothing is
assumed of what an edit brings or of when a checkout runs.  `TypeOK` needs
`AttemptCounted`, since `attempt_count` is decreased after a deferral.
`DependenciesFirst` is about the moment a node is finished, the reason lies in the
moment it was taken: `TakenInTurn` carries what `next_leaf` saw then over the whole
episode, which works because nobody else is finished meanwhile.  `ReopenedForCause`
needs that a node on its way up the tree is not finished again before its ancestors are
reopened (`ReopenedIsTodo`).

These theorems are about one run of the phase (`Spec`).  With crashes `ParentLast`,
`NothingLost` and `VouchedFor` are false (a kill inside `_split`), which is why
`InterruptedSpec` is only checked for its end.  Of `Chores`: `BrokenIsTold` and
`SetupBeforeLeaves`.

### Planner_proofs

For `InterruptedSpec`, that is with kills and restarts at any point:
`DependenciesAreSound`, `ParentsAreReopened`, `EpisodesAreBounded`, `FinishedStays` and
`RewritesJudged`.  The tree's part of the invariant is `WellFormed`,
`DependenciesSound`, `ParentsReopened` and `CallsKnown` (what a call has yet to reopen
the ancestors of is still a row, since no other call runs meanwhile); a kill moves what
was pending to `torn`.  The proof that `add_node` and `update_node` keep the
dependencies acyclic is about sets of nodes (a set in which everybody waits for somebody
of it has to go through the new edges), so that it needs no induction over paths.  The
loop's part says what each place leaves to the next (`Places`), and counts, for the
threads in flight, how many episodes each may still open without another look at the
budget: one, two or three (`Counting`), of which `EpisodesBounded` is what is left when
all have ended.  `Splits` says that the nodes of one batch are of one level and that
above the tasks nobody but its own episode can take a node's verdict: the reason
`RewritesAreJudged` names only tasks.

Of `Judge`: `VerdictsAreOpinions` (a step's verdict is GOOD or BREAKDOWN, and differs from
the rule's only where Laya was sure and a line of the reply with this node's number says
so), `ItemsAreDistinct` (the numbers given to disputed nodes).  Of `Parallel`:
`EpisodesFit` (the number of workers for every setting, server and window), where
`Planner`'s `MaxWorkers` comes from.  `Planner` uses all three.

### Pipeline_proofs

`CompleteIsDone` and `RequestsAreKept`.  What is passed is done or was put back since,
in every run (`PassedIsDone`).  In a session that was not resumed, a reviewer that has
reopened nothing finds nothing unfinished (`ReopenedAreTodo`), nothing asked for is
without leaves once the planner is through (`AllPlanned`), and past the review either
all is done or a report keeps the session from resting (`ReviewedOrReported`).  The
second and third are false in a resumed session, for the reason given under "Where the
program does otherwise".  For the requests, what was drained stays in `hand` only
between draining and asking (`HandIsTransient`).

### Session_proofs

Of the queue, `RequestsOnce` (`EachOnce`), `StoreIsKept` (`StoreKept`) and
`PromiseIsKept` (`QueueSpec => OnceInOrder`, the refinement of `RequestQueue`).  The
first counts: `OncePlaced` says how often each request is in the queue, the forced ones,
the drained ones, those handed over and, before the first session opens, its store, and
that these add up to one for what was made and to none for the rest.  Four lemmas say
what appending, taking the head off and joining do to such a count (`TimesAppend`,
`TimesTail`, `TimesConcat`, and `HandedOver`, which needs the sum to be at most one: a
request twice in a queue would be handed over once only).  The second says what is still
missing in the snapshot and the store at each step of a report (`Midway`), and that
without overlaps one thread at most is at one (`Settled`); `ItemsTaken` and
`SessionsOpen` are there because the worker must not begin a drain with old items, nor a
session with an old store.  The third rests on `OncePlaced`, by which nothing handed
over is still in a queue, and on three facts about queues joined end to end: moving the
head of one to the end of the other leaves the joined queue as it was (`TakenOver`: a
drain), its parts are where they should be, also with one item taken out (`PartsOf`: a
promotion, a return), and what is restored comes after what waits.  Steps that only
report to the store stutter.  No fairness is needed.

Of sessions, `ClaimsCounted` (the count of a process is the number of its managers with a
claim, and the process that counts any has the flock) and from it `LockKeepsPromise`:
`Spec => OneProcessAtATime`, the refinement of `ProjectLock`.  The abstract step of an
`Open` is `Enter`, that of a refusal, an end or a crash is `Leave` (of one manager, or of
all of a process), and the rest stutter.  Finiteness of `Manager` is assumed, since claims
are counted.

`RowsAreInOrder`, `HistoryIsKept` and `GoalComesOnce` rest on the lock: `AtWork` (who is
past the opening has a claim, so no other process writes the session), `Writing` (a
thread between `max(seq)` and its commit has the append lock of its process, the number
it read is still the number of rows, and what it writes is the next message of memory, or
an episode's), `RowsSaved` (otherwise memory is flushed) and `Begun` (where the messages
of a conversation stand among rows written by episodes).  `Conversation` is defined by
positions and ranks, not by recursion, so that it can be reasoned about.
`SessionAssumption` has one manager per process that runs phases, as `run_pipeline` runs
one session after another.  `RunbookIsVerifiedHere` has a small invariant of its own, and
says no more than that the claim was made here, of this command.

Of `Approvals`: `ApprovalsTyped`.  An answer carries the question and the process it was
given in and how many were given to that question before, as history.  The invariant says
where the answers of the queue stand: without an answer too many, there is none but one
to the question on screen (`AnswersInv`), and what ran used up its answer (`SaidInv`).

### Episode_proofs

From one invariant (`EpisodeInv`): `TypeCorrect`, `StopHoldsRequests` (`LateRequests`),
`PauseHoldsTurns` (`PausedHolds`), `OnlyStopped` (`NeverGivesUp`), `RequestsFit`
(`MeasuredFits`) and `FinishEnds` (`FinishWins`).  The parts say what each place of the
code may rely on.  `StopInv`: at `send` a stop can only be one that came after the look
at it, and as long as one message is under way `after` counts no more than the tries of
its one or two `create()`s.  `PauseInv`: once a turn ended in a pause the thread is
where the pause still holds it, or a stop let it through to `call`, where the stop is
looked at again; this second look is what the proof needs and the mutant `CheckNot`
drops.  `SizeInv`: the size measured in `prepare` stays what it was through retries and
questions, a nudge apart. `FinishInv`: `finished` is only ever true while the calls of
that reply are worked off. `Places` bounds the turns where a request is under way and
the questions at `ask`.  Of `Stream`: `RepliesCollected`.

### Files_proofs

Of `Workspace`, `WorkStaysOnDisk` (`DoneWorkOnDisk`) and `CodeIsKept` (`RealCodeKept`).
The invariant says that a leaf's checkpoint is the place of one of its commits
(`Checkpointed`), that what nobody wrote since a session's last commit is on disk as that
commit has it (`Committed`; `DoneWorkOnDisk` is about a leaf's own commit, and a revert
moves to the last one), and that a planner's thread nobody has overtaken holds, between
its reading and its writing, exactly the real code the file has now, or that one of the
two does not parse (`CallsKeepCode`), which is true because Dev does not work at a leaf
then and every tool of a planner keeps real code (`WhatIsParsed` and the lemmas after it).
Two such threads at one file have to agree with each other too: what one of them leaves
need not parse, and the other is then compared with nothing.

Of `Evidence`, `NoTwinsKept`, `RenamesKeepFiles` and `AcceptedStays`.  The folder is in
order (`FolderOK`) for a disk, the jobs under way and what was crossed: what a file holds
is of its kind (`Kinds`); of the kinds of files of a case that were not crossed there is
one at most, and who has its name in hand has the right one (`AllSettled`); and two cases
that were looked at, with their specs written or about to be, differ (`Apart`).  The
lemmas say what one rename, one write and one deletion do to a folder in order, with any
number of other calls between their look and their write.

### Bridge_proofs

`ClicksActOnce` (`ActedOnce`), `OldAnswersUnread` (`LeftoversIgnored`) and
`AnswersMeetQuestions` (`AnswersMeet`).  `Messages`: a message on its way was sent and
not acted on, and is in one place, the file and what the bridge has read of it counting
as one. `Fresh`: while a bridge is there the file is of its session.  Both except what
is in `kept`.  For the answers, `Counted` says where the answers to a question are by
how many were given (none; one, in one place; more), and `Settled` what is true of a
question that is no longer on screen: it took its answer, was answered twice, is late
because of one before it, or a stop ended it.

### Tools_proofs

`OneOwner` (`CasesHaveOneOwner`), for plans, batches and sets of cases of any size; the
lemma `WriteKeepsApart` says that a row that passed `_cases_problem` can be written,
under a new id or an old one.  `WhatEndedIsGone` (`EndedIsGone`), of what was stopped
and not killed: once the group has its SIGTERM only a child can be alive, and the handle
is not used again (`EndingKnown`, `StoppedStays`); unless two episodes made one each,
the open pages are those of the session there is (`PagesKnown`).  Of `LMStudio`:
`ModelsComeBack`.

### Assumptions and limits

Assumptions are those named in the modules (`PlanOK`, `PlansAssumption`,
`CapsAssumption`, `ManagerAssumption`, `SessionAssumption`, ...).  TLC evaluates each in
some run.  `LMStudio`, `Stream`, `Approvals` and `Chores`, which have no run, have none.

What the proofs changed.  `AnswersMeet` used to be stated for each stray answer alone,
which holds with two questions and fails with three; `NoTwins` named the wrong exception;
the parentheses of `Acyclic` and the definition of `Conversation` were made such that
tlapm and TLC read the same; `PlansAssumption` and the runner per process were implicit.

Proved and not run: the type invariants of `Imp` and `Episode`, `NeverGivesUp`, and what is
proved of `Judge`, `Parallel`, `LMStudio`, `Stream`, `Approvals` and `Chores`.  (A state
machine of a handful of flags gains nothing from a small instance once the theorem holds
for all.)  Only model-checked: liveness (`RunEnds` twice, `ComesToRest`, `QueuedRun`,
`SignalsHeeded`, `EpisodeEnds`, `StopEnds`).  Liveness under fairness and ENABLED are out of
the prover's reach, as is induction over recursive data, which the modules avoid.

## 5. Not modelled

The texts given to and by the model, and checks that only look at wording; what an
external program does (git beyond commits, index and checkout; a browser's page; a
video; a server's reply beyond its kind); the tools that only read; the v1 tools and
the import of v1 plans; the environment wizard, the pages of the dashboard that only
show rows, exports, migrations and packaging.  `components` in `PROJECT.json` gives each
part its reason.

Limits that matter to a reader: `StoreKept` speaks of a queue of which no two changes
overlap, and says nothing of the overlaps themselves; `VerifiedHere` bounds what is
claimed, not what ran; a kill in the middle of a capture, and the steps between the
listing of the other pictures and the last of them read, are left out of `Evidence` (one
look, which may fail), as is the time between the finding of a twin and its deletion; in
`Services` a wrapper always dies of SIGTERM; in `Imp` the planner run of a split changes
only what Dev sees; the assignment to `metadata` and its transaction are one step in
`InputQueue`, and so are the puts of the requests `set_queue_store` restores (a
dashboard's request that comes between two of them waits in front of the second); a
bridge whose thread outlives the two seconds of its join, and so meets the next
session's, is left out of `Bridge`; the fleet's server is any sender of messages.

## 6. Plan

Done, in the order of what a wrong answer costs: the tree and Dev's queue, the
implementation phase, the planner with its threads, the session, the queue of requests,
the conversation; then the abstract specifications of the lock and of the queue, the
history, the work tree with its reverts, evidence, the bridge, batches of tools, and the
small machines of section 2; then a theorem for every invariant and action property of
the runs. Next:

1. An abstract episode ("any calls, then one end reason"), which is what `Imp` and
   `Planner` assume of one, that `Episode` refines.
2. What stays true of `Imp` when the process is killed: `DependenciesFirst` and the
   parts of `IInv` that do not speak of the plan being settled.
3. The reviewer's `reopen_leaf` over the tree with its two commits, composed with `Imp`
   across a crash.
