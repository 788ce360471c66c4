----------------------------- MODULE InputQueue -----------------------------
(***************************************************************************)
(* The requests a person makes while a run is on, from the line typed or   *)
(* the message of a dashboard to the worker that runs the pipeline         *)
(* (src/src/JFI/manager/pt_console_manager.py, src/src/JFI/runner.py).     *)
(* The terminal's thread, the threads of the dashboards and the worker     *)
(* share two queues.  The queue of requests has a snapshot beside it; each *)
(* change of the queue changes the snapshot, copies it under the lock and  *)
(* gives the copy to the session's store without the lock.                 *)
(***************************************************************************)
EXTENDS Naturals, FiniteSets, Sequences, SequencesExt

CONSTANTS
  Remote,       \* the threads of web_bridge.py and socket_reporter.py
  MaxRequests,  \* bound: requests made
  MaxSessions   \* bound: sessions of one process (Ctrl+N)

ASSUME ThreadAssumption == {"ui", "worker"} \cap Remote = {}

ASSUME BoundAssumption == MaxRequests \in Nat \ {0} /\ MaxSessions \in Nat \ {0}

Submitter == Remote \cup {"ui"}
Party == Submitter \cup {"worker"}
Request == 1 .. MaxRequests
Session == 1 .. MaxSessions

VARIABLES
  forced,    \* _forced: requests for the current turn
  queued,    \* _queued: requests for the next iteration
  snapshot,  \* _queued_snapshot
  stop,      \* _stop
  restart,   \* _restart
  idle,      \* _idle_wait
  stored,    \* the QueuedItem rows of each session
  session,   \* whose store _queue_on_change is; 0 before the first
  step,      \* where each thread is
  hand,      \* the request a thread is submitting
  copy,      \* what a thread's _notify_queue_change is about to save, and where
  items,     \* _drain's items
  next,      \* number of the next request
  handed,    \* history variable: how often a request was handed to the pipeline
  clean      \* history variable: no two changes of the queue overlapped

flags == <<stop, restart, idle>>
queues == <<forced, queued, items>>
made == <<hand, next>>
store == <<stored, session, copy>>
queueVars == <<forced, queued, snapshot, stop, restart, idle, stored, session, step, hand,
               copy, items, next, handed, clean>>

\* A change of the queue that isn't reported to the store yet.
Reporting == {"append", "clear", "copy", "save"}
WorkerSteps == {"opening", "top", "work", "drain", "idle", "taking", "return",
                "left", "ended"}

QueueTypeOK ==
  /\ \A q \in {forced, queued, items, snapshot} : q \in BoundedSeq(Request, MaxRequests)
  /\ {stop, restart, idle, clean} \subseteq BOOLEAN
  /\ stored \in [Session -> BoundedSeq(Request, MaxRequests)]
  /\ session \in Session \cup {0}
  /\ \A t \in Submitter : step[t] \in Reporting \cup {"rest", "moving", "gone"}
  /\ step["worker"] \in Reporting \cup WorkerSteps \cup {"gone"}
  /\ hand \in [Submitter -> Request \cup {0}]
  /\ copy \in [Party -> [session : Session \cup {0}, items : BoundedSeq(Request, MaxRequests)]]
  /\ next \in 1 .. MaxRequests + 1
  /\ handed \in [Request -> 0 .. 2]

NoCopy == [session |-> 0, items |-> <<>>]

\* The first session may find requests in the store from its last run.
QueueInit ==
  /\ forced = <<>> /\ queued = <<>> /\ snapshot = <<>> /\ items = <<>>
  /\ stop = FALSE /\ restart = FALSE /\ idle = FALSE
  /\ \E n \in 0 .. MaxRequests :
       /\ stored = [s \in Session |-> IF s = 1 THEN [i \in 1 .. n |-> i] ELSE <<>>]
       /\ next = n + 1
  /\ session = 0
  /\ step = [t \in Party |-> IF t = "worker" THEN "opening" ELSE "rest"]
  /\ hand = [t \in Submitter |-> 0]
  /\ copy = [t \in Party |-> NoCopy]
  /\ handed = [r \in Request |-> 0]
  /\ clean = TRUE

Go(t, from, to) == step[t] = from /\ step' = [step EXCEPT ![t] = to]

\* Threads in the middle of a change of the queue and its report.
Changing == {t \in Party :
  \/ step[t] \in Reporting \cup {"moving"}
  \/ t = "worker" /\ step[t] \in {"drain", "taking"} /\ items # <<>>}

Alone(t) == clean' = (clean /\ Changing \subseteq {t})

---------------------------------------------------------------------------
(* Reporting a change.                                                     *)

AppendSnapshot(t) ==
  /\ Go(t, "append", "copy")
  /\ snapshot' = Append(snapshot, hand[t])
  /\ hand' = [hand EXCEPT ![t] = 0]
  /\ UNCHANGED <<flags, queues, store, next, handed, clean>>

ClearSnapshot(t) ==
  /\ Go(t, "clear", "copy")
  /\ snapshot' = <<>>
  /\ UNCHANGED <<flags, queues, made, store, handed, clean>>

AfterReport(t) == IF t = "worker" THEN "return" ELSE "rest"

\* Before the first session has opened there is nobody to report to.
CopySnapshot(t) ==
  /\ Go(t, "copy", IF session = 0 THEN AfterReport(t) ELSE "save")
  /\ copy' = [copy EXCEPT ![t] = IF session = 0 THEN NoCopy
                                 ELSE [session |-> session, items |-> snapshot]]
  /\ UNCHANGED <<flags, queues, made, snapshot, stored, session, handed, clean>>

SaveCopy(t) ==
  /\ Go(t, "save", AfterReport(t))
  /\ stored' = [stored EXCEPT ![copy[t].session] = copy[t].items]
  /\ copy' = [copy EXCEPT ![t] = NoCopy]
  /\ UNCHANGED <<flags, queues, made, snapshot, session, handed, clean>>

---------------------------------------------------------------------------
(* Making a request, with no question on screen.                           *)

\* A line typed, or submit_external_queue_item: into the queue, and from
\* there on the change is to be reported.
Submit(t) ==
  /\ next \in Request
  /\ Go(t, "rest", "append")
  /\ queued' = Append(queued, next)
  /\ hand' = [hand EXCEPT ![t] = next] /\ next' = next + 1
  /\ Alone(t)
  /\ UNCHANGED <<flags, forced, items, snapshot, store, handed>>

\* "!text"
ForceLine ==
  /\ next \in Request
  /\ step["ui"] = "rest"
  /\ forced' = Append(forced, next) /\ next' = next + 1
  /\ UNCHANGED <<flags, queued, items, hand, snapshot, store, step, handed, clean>>

\* A bare "!" moves the queue, one request after the other; it does
\* nothing to an empty one.
MoveOne(from) ==
  /\ queued # <<>>
  /\ Go("ui", from, "moving")
  /\ forced' = Append(forced, Head(queued)) /\ queued' = Tail(queued)
  /\ Alone("ui")
  /\ UNCHANGED <<flags, items, made, snapshot, store, handed>>

Promote == MoveOne("rest")

MoveDone ==
  /\ queued = <<>>
  /\ Go("ui", "moving", "clear")
  /\ UNCHANGED <<flags, queues, made, snapshot, store, handed, clean>>

Exit == step' = [t \in Party |-> "gone"]

\* Ctrl+C, or a dashboard's stop; a second Ctrl+C exits.
Interrupt ==
  /\ step["ui"] = "rest"
  /\ stop' = TRUE /\ IF stop THEN Exit ELSE UNCHANGED step
  /\ UNCHANGED <<restart, idle, queues, made, snapshot, store, handed, clean>>

\* Ctrl+N
NewSession ==
  /\ step["ui"] = "rest" /\ idle /\ session < MaxSessions
  /\ restart' = TRUE
  /\ UNCHANGED <<stop, idle, queues, made, snapshot, store, step, handed, clean>>

\* The worker has returned, and closes the application.
CloseApp ==
  /\ step["worker"] = "ended" /\ step["ui"] = "rest"
  /\ Exit
  /\ UNCHANGED <<flags, queues, made, snapshot, store, handed, clean>>

---------------------------------------------------------------------------
(* The worker.                                                             *)

HandOver(q) ==
  handed' = [r \in Request |-> IF r \in ToSet(q) /\ handed[r] < 2 THEN handed[r] + 1
                               ELSE handed[r]]

\* Variant: set_queue_store starts with an empty snapshot.
OpenUnreported ==
  /\ Go("worker", "opening", "top")
  /\ session' = session + 1
  /\ queued' = queued \o stored[session + 1]
  /\ snapshot' = <<>>
  /\ clean' = (clean /\ Changing = {} /\ queued = <<>>)
  /\ UNCHANGED <<flags, forced, items, made, stored, copy, handed>>

\* set_queue_store: what the session's last run left joins the queue.
OpenSession ==
  /\ Go("worker", "opening", "top")
  /\ session' = session + 1
  /\ queued' = queued \o stored[session + 1]
  /\ snapshot' = stored[session + 1]
  /\ clean' = (clean /\ Changing = {} /\ queued = <<>>)
  /\ UNCHANGED <<flags, forced, items, made, stored, copy, handed>>

\* The loop over the iterations looks at the stop, and so does each phase.
TopOfLoop ==
  /\ Go("worker", "top", IF stop THEN "left" ELSE "work")
  /\ UNCHANGED <<flags, queues, made, snapshot, store, handed, clean>>

PhaseStopped ==
  /\ stop /\ Go("worker", "work", "left")
  /\ UNCHANGED <<flags, queues, made, snapshot, store, handed, clean>>

\* A turn of an episode begins with what was forced.
TakeForced ==
  /\ step["worker"] = "work" /\ forced # <<>>
  /\ forced' = <<>> /\ HandOver(forced)
  /\ UNCHANGED <<flags, queued, items, made, snapshot, store, step, clean>>

\* collect_next_iteration: drain_queued_input
PhasesDone ==
  /\ Go("worker", "work", "drain")
  /\ UNCHANGED <<flags, queues, made, snapshot, store, handed, clean>>

\* Variant: wait_for_queued_input looks at another queue.
DrainAtEndOnly ==
  /\ step["worker"] = "drain" /\ queued # <<>>
  /\ items' = Append(items, Head(queued)) /\ queued' = Tail(queued)
  /\ Alone("worker")
  /\ UNCHANGED <<flags, forced, made, snapshot, store, step, handed>>

DrainOne ==
  /\ step["worker"] \in {"drain", "taking"} /\ queued # <<>>
  /\ items' = Append(items, Head(queued)) /\ queued' = Tail(queued)
  /\ Alone("worker")
  /\ UNCHANGED <<flags, forced, made, snapshot, store, step, handed>>

DrainedSome ==
  /\ queued = <<>> /\ items # <<>>
  /\ Go("worker", "drain", "clear") \/ Go("worker", "taking", "clear")
  /\ UNCHANGED <<flags, queues, made, snapshot, store, handed, clean>>

\* Nothing queued: after a failed review there is another iteration, or the
\* cap; after one that passed the pipeline waits.
DrainedNone ==
  /\ queued = <<>> /\ items = <<>>
  /\ \/ UNCHANGED idle /\ (Go("worker", "drain", "top") \/ Go("worker", "drain", "left"))
     \/ idle' = TRUE /\ Go("worker", "drain", "idle")
  /\ UNCHANGED <<stop, restart, queues, made, snapshot, store, handed, clean>>

\* wait_for_queued_input: a look at the flags, then one at the queue.
StayIdle ==
  /\ \/ ~stop /\ ~restart /\ Go("worker", "idle", "taking")
     \/ queued = <<>> /\ items = <<>> /\ Go("worker", "taking", "idle")
  /\ UNCHANGED <<flags, queues, made, snapshot, store, handed, clean>>

\* Variant: the waiting loop tests one of the flags only.
LeaveIdleOnRestart ==
  /\ restart
  /\ Go("worker", "idle", "left") /\ idle' = FALSE
  /\ UNCHANGED <<stop, restart, queues, made, snapshot, store, handed, clean>>

LeaveIdle ==
  /\ stop \/ restart
  /\ Go("worker", "idle", "left") /\ idle' = FALSE
  /\ UNCHANGED <<stop, restart, queues, made, snapshot, store, handed, clean>>

\* Variant: the items of the last drain are still there at the next.
ReturnAgain ==
  /\ Go("worker", "return", "top") \/ Go("worker", "return", "left")
  /\ HandOver(items) /\ idle' = FALSE
  /\ UNCHANGED <<stop, restart, queues, made, snapshot, store, clean>>

\* The requests become an iteration, or the session ends: the cap, a
\* refused approval, nothing but exit words.
ReturnItems ==
  /\ Go("worker", "return", "top") \/ Go("worker", "return", "left")
  /\ HandOver(items) /\ items' = <<>> /\ idle' = FALSE
  /\ UNCHANGED <<stop, restart, forced, queued, made, snapshot, store, clean>>

\* run_pipeline: one more session, or the end.
LeaveSession ==
  /\ \/ (stop \/ ~restart) /\ Go("worker", "left", "ended") /\ UNCHANGED restart
     \/ ~stop /\ restart /\ Go("worker", "left", "opening") /\ restart' = FALSE
  /\ UNCHANGED <<stop, idle, queues, made, snapshot, store, handed, clean>>

---------------------------------------------------------------------------

Report(t) == AppendSnapshot(t) \/ ClearSnapshot(t) \/ CopySnapshot(t) \/ SaveCopy(t)

Work ==
  \/ OpenSession \/ TopOfLoop \/ PhaseStopped \/ TakeForced \/ PhasesDone
  \/ DrainOne \/ DrainedSome \/ DrainedNone \/ StayIdle \/ LeaveIdle
  \/ ReturnItems \/ LeaveSession

Person == ForceLine \/ Promote \/ Interrupt \/ NewSession \/ \E t \in Submitter : Submit(t)

Over == step["ui"] = "gone" /\ UNCHANGED queueVars

QueueNext ==
  \/ Person \/ MoveOne("moving") \/ MoveDone \/ Work \/ CloseApp
  \/ (\E t \in Party : Report(t))
  \/ Over

ReviewPasses == DrainedNone /\ step'["worker"] # "top"

\* Threads go on with what they began; the phases of an iteration come to
\* their end, as every episode has a budget, and reviews stop failing at
\* the cap if not before; the application closes when it is asked to.
\* The person does nothing by necessity.
Fairness ==
  /\ WF_queueVars(Work \/ Report("worker"))
  /\ SF_queueVars(ReviewPasses)
  /\ WF_queueVars(MoveOne("moving") \/ MoveDone \/ Report("ui"))
  /\ WF_queueVars(CloseApp)

QueueSpec == QueueInit /\ [][QueueNext]_queueVars
FairSpec == QueueSpec /\ Fairness

---------------------------------------------------------------------------
(* What the console promises.                                              *)

Times(r, q) == Cardinality({i \in DOMAIN q : q[i] = r})

\* A request is in one place at a time until it is handed to the pipeline,
\* and is handed over once: also when it is drained and promoted by two
\* threads at a time, or carried into another session.
EachOnce ==
  \A r \in 1 .. next - 1 :
    session > 0 \/ Times(r, stored[1]) = 0 =>
      Times(r, queued) + Times(r, forced) + Times(r, items) + handed[r] = 1

\* Unless two changes of the queue overlapped, the store holds what is
\* queued as soon as no change is under way: a request left waiting when
\* the process ends is there for the next run, one that was taken is not.
StoreKept ==
  clean /\ session > 0 /\ Changing = {} /\ step["ui"] # "gone" => stored[session] = queued

\* The store before the first session has opened, the queue with what a
\* drain has taken from it, and the requests that were handed over.
Left == IF session = 0 THEN stored[1] ELSE <<>>
Waiting == items \o queued
Handed == {r \in Request : handed[r] = 1}

Promise == INSTANCE RequestQueue WITH
  left <- Left, waiting <- Waiting, urgent <- forced, handed <- Handed, made <- 1 .. next - 1

\* The queues keep the promise of RequestQueue: taken once, and in order,
\* also where the worker drains the queue while the person promotes it, and
\* dashboards add to it (_drain, _move_queue, set_queue_store).
OnceInOrder == Promise!Spec

\* A request that was queued is run, by this session or the next, unless
\* it is promoted to the current turn or the program ends.
QueuedRun ==
  \A r \in Request :
    (Times(r, queued) > 0) ~> (handed[r] + Times(r, forced) > 0 \/ step["ui"] = "gone")

\* A stop ends the program and a new session that was asked for begins, also
\* while the worker waits for the queue, and in whatever order they come.
SignalsHeeded ==
  /\ stop ~> step["ui"] = "gone"
  /\ restart ~> (~restart \/ step["ui"] = "gone")
=============================================================================
