------------------------------ MODULE Pipeline ------------------------------
(***************************************************************************)
(* One session from its goal to its end (src/src/JFI/runner.py): the four  *)
(* phases, the rounds of the review, and the loop that turns a failed      *)
(* review and the requests queued meanwhile into another iteration.  What  *)
(* a resumed session does is decided from the markers in its history       *)
(* (src/src/JFI/session/simple_session_manager.py).                        *)
(*                                                                         *)
(* An item is something the session was asked for: its goal, a request, or *)
(* the fixes a review report calls for.  The planner turns an item into    *)
(* leaves and Dev builds them; here an item is built as a whole.  A leaf   *)
(* of one item may be a part of another's: what reopens it reopens what is *)
(* above it (reopen_with_ancestors), whose review status stays.            *)
(***************************************************************************)
EXTENDS Naturals, FiniteSets

CONSTANTS
  Request,              \* what the person may type while a run is on
  ExitWord,             \* the requests that are EXIT_WORDS
  Goal, Fix,            \* the goal, and what a review report calls for
  MaxReviewIterations,  \* MAX_REVIEW_ITERATIONS; 3 in the code
  Reports,              \* bound: texts of a review report, 1 .. Reports
  MaxEdits,             \* bound: edits of the evidence that make Dev look again
  MaxRuns               \* bound: times the session is started

ASSUME ItemAssumption ==
  /\ ExitWord \subseteq Request
  /\ Goal \notin Request /\ Fix \notin Request /\ Goal # Fix

ASSUME BoundsAssumption ==
  /\ MaxReviewIterations \in Nat \ {0}
  /\ Reports \in Nat \ {0}
  /\ MaxEdits \in Nat
  /\ MaxRuns \in Nat \ {0}

Item == Request \cup {Goal, Fix}
Phase == {"planner", "imp", "reviewer", "cleanup"}

VARIABLES
  marked,        \* history: phases with a <PHASE>_COMPLETE marker, of any iteration
  open,          \* history: items in messages since the last PLANNER_COMPLETE
  built,         \* leaves: status of each item's leaves; "none" is unplanned
  passed,        \* leaves: review_status is PASSED
  kept,          \* history: passed items that were put back since, and kept that
  report,        \* SessionNote review_report; 0 is none
  queue,         \* requests queued, kept in the session's metadata
  asked,         \* history: every request typed so far
  unplanned,     \* history: items the Architect ended without a leaf for
  edits,         \* number of edits of the evidence Dev took up so far
  pc,            \* where _run_session is
  round,         \* round_no of _run_reviewer
  attempt,       \* attempt of Reviewer.run
  reopened,      \* Reviewer.run's list
  reportBefore,  \* the report when Reviewer.run started
  failures,      \* review_failures
  failed,        \* collect_next_iteration: the report was there
  hand,          \* the requests it drained
  stop,          \* the person asked for a stop
  runs           \* number of times the session was started

leafVars == <<built, passed, kept>>
askVars == <<asked, unplanned, edits>>
reviewVars == <<round, attempt, reopened, reportBefore>>
collectVars == <<failures, failed, hand>>
vars == <<marked, open, built, passed, kept, report, queue, asked, unplanned, edits,
          pc, round, attempt, reopened, reportBefore, failures, failed, hand, stop, runs>>

Todo == {i \in Item : built[i] = "todo"}
Planned == {i \in Item : built[i] # "none"}
Done == {i \in Item : built[i] = "done"}
Finished == {i \in Item : built[i] \in {"done", "skipped"}}

Where == Phase \cup {"fixing", "collect", "drain", "decide", "approval", "idle", "over"}

TypeOK ==
  /\ marked \subseteq Phase
  /\ open \subseteq Item
  /\ built \in [Item -> {"none", "todo", "done", "skipped"}]
  /\ passed \subseteq Item /\ kept \subseteq Item
  /\ report \in 0 .. Reports /\ reportBefore \in 0 .. Reports
  /\ queue \subseteq Request /\ asked \subseteq Request /\ hand \subseteq Request
  /\ unplanned \subseteq Item /\ edits \in 0 .. MaxEdits
  /\ pc \in Where
  /\ round \in 1 .. MaxReviewIterations
  /\ attempt \in 0 .. 1
  /\ reopened \subseteq Item
  /\ failures \in 0 .. MaxReviewIterations
  /\ failed \in BOOLEAN /\ stop \in BOOLEAN
  /\ runs \in 1 .. MaxRuns

Init ==
  /\ marked = {} /\ open = {Goal}
  /\ built = [i \in Item |-> "none"] /\ passed = {} /\ kept = {}
  /\ report = 0 /\ queue = {} /\ asked = {} /\ unplanned = {} /\ edits = 0
  /\ pc = "planner"
  /\ round = 1 /\ attempt = 0 /\ reopened = {} /\ reportBefore = 0
  /\ failures = 0 /\ failed = FALSE /\ hand = {}
  /\ stop = FALSE /\ runs = 1

---------------------------------------------------------------------------
(* Phases.  Each writes its marker when it is complete; one that isn't     *)
(* ends the session.                                                       *)

\* Reviewer.run begins: its list is empty, and it notes the report.
FreshReview ==
  attempt' = 0 /\ reopened' = {} /\ reportBefore' = report

\* The session object is gone, and what it held in memory with it.
EndSession ==
  /\ pc' = "over"
  /\ round' = 1 /\ attempt' = 0 /\ reopened' = {} /\ reportBefore' = 0
  /\ failures' = 0 /\ failed' = FALSE /\ hand' = {}

\* Items are to be built again; a passed one keeps its review status.
Again(items) == [i \in Item |-> IF i \in items THEN "todo" ELSE built[i]]
Keeping(items) == kept \cup (items \cap passed)

\* _run_planner.  What was asked for has leaves, as far as the Architect gave it
\* any: only a plan with no node at all is refused (loop.py:147-157).  A leaf that
\* is new or rewritten reopens what is above it, of earlier iterations too.
PlannerDone ==
  /\ pc = "planner"
  /\ \E new \in SUBSET open :
       /\ Planned \cup new # {}
       /\ \E above \in SUBSET (Finished \ new) :
            /\ built' = Again(new \cup above)
            /\ kept' = Keeping(above) \ new
       /\ passed' = passed \ new
       /\ unplanned' = (unplanned \cup open) \ new
  /\ open' = {} /\ marked' = marked \cup {"planner"}
  /\ pc' = "imp"
  /\ UNCHANGED <<report, queue, asked, edits, reviewVars, collectVars, stop, runs>>

\* Imp: a leaf is finished, or given up after its attempts.
Build(i) ==
  /\ pc \in {"imp", "fixing"} /\ i \in Todo
  /\ \E how \in {"done", "skipped"} : built' = [built EXCEPT ![i] = how]
  /\ UNCHANGED <<marked, open, passed, kept, report, queue, askVars, pc, reviewVars,
                 collectVars, stop, runs>>

\* _requeue_changed_evidence: what was done with evidence edited since, and what
\* is above it, is built again.
Requeue(i) ==
  /\ pc \in {"imp", "fixing"} /\ i \in Done /\ edits < MaxEdits
  /\ edits' = edits + 1
  /\ \E above \in SUBSET Finished :
       built' = Again(above \cup {i}) /\ kept' = Keeping(above \cup {i})
  /\ UNCHANGED <<marked, open, passed, report, queue, asked, unplanned, pc, reviewVars,
                 collectVars, stop, runs>>

\* _run_imp: the marker is written when nothing is left to do.
ImpDone ==
  /\ pc = "imp" /\ Todo = {}
  /\ marked' = marked \cup {"imp"}
  /\ pc' = "reviewer" /\ round' = 1 /\ FreshReview
  /\ UNCHANGED <<open, leafVars, report, queue, askVars, collectVars, stop, runs>>

---------------------------------------------------------------------------
(* The reviewer: its episode's tools, its verdict, and the rounds of fixes *)
(* between two reviews.                                                    *)

ReopenLeaf(i) ==
  /\ pc = "reviewer" /\ i \in Planned
  /\ \E above \in SUBSET (Finished \ {i}) :
       built' = Again(above \cup {i}) /\ kept' = Keeping(above) \ {i}
  /\ passed' = passed \ {i}
  /\ reopened' = reopened \cup {i}
  /\ UNCHANGED <<marked, open, report, queue, askVars, pc, round, attempt,
                 reportBefore, collectVars, stop, runs>>

WriteReport(text) ==
  /\ pc = "reviewer"
  /\ report' = text
  /\ UNCHANGED <<marked, open, leafVars, queue, askVars, pc, reviewVars,
                 collectVars, stop, runs>>

NewReport == report \notin {0, reportBefore}

\* The episode ends on its budget: one fresh episode, then the review stops; so
\* it does at once when it is stopped or the model no longer answers.
ReviewAgain ==
  /\ pc = "reviewer" /\ attempt = 0
  /\ attempt' = 1
  /\ UNCHANGED <<marked, open, leafVars, report, queue, askVars, pc, round,
                 reopened, reportBefore, collectVars, stop, runs>>

ReviewStops ==
  /\ pc = "reviewer"
  /\ EndSession
  /\ UNCHANGED <<marked, open, leafVars, report, queue, askVars, stop, runs>>

\* Variant: what was reopened is not sent to Dev.
VerdictFixLater ==
  /\ pc = "reviewer" /\ reopened # {}
  /\ marked' = marked \cup {"reviewer"}
  /\ pc' = "cleanup"
  /\ UNCHANGED <<open, leafVars, report, queue, askVars, reviewVars, collectVars,
                 stop, runs>>

VerdictFix ==
  /\ pc = "reviewer" /\ reopened # {}
  /\ pc' = "fixing"
  /\ UNCHANGED <<marked, open, leafVars, report, queue, askVars, reviewVars,
                 collectVars, stop, runs>>

VerdictMissing ==
  /\ pc = "reviewer" /\ reopened = {} /\ NewReport
  /\ marked' = marked \cup {"reviewer"}
  /\ pc' = "cleanup"
  /\ UNCHANGED <<open, leafVars, report, queue, askVars, reviewVars, collectVars,
                 stop, runs>>

\* finish confirmed the pass: the cases match and the e2e passes.
VerdictPass ==
  /\ pc = "reviewer" /\ reopened = {} /\ ~ NewReport
  /\ passed' = passed \cup Done /\ kept' = kept \ Done
  /\ marked' = marked \cup {"reviewer"}
  /\ pc' = "cleanup"
  /\ UNCHANGED <<open, built, report, queue, askVars, reviewVars, collectVars,
                 stop, runs>>

\* The fixes are in: another round, or, when there have been enough of
\* them, a report.
FixesDone ==
  /\ pc = "fixing" /\ Todo = {} /\ round < MaxReviewIterations
  /\ round' = round + 1
  /\ pc' = "reviewer" /\ FreshReview
  /\ UNCHANGED <<marked, open, leafVars, report, queue, askVars, collectVars, stop, runs>>

RoundsOver ==
  /\ pc = "fixing" /\ Todo = {} /\ round = MaxReviewIterations
  /\ report' \in 1 .. Reports
  /\ marked' = marked \cup {"reviewer"}
  /\ pc' = "cleanup"
  /\ UNCHANGED <<open, leafVars, queue, askVars, reviewVars, collectVars, stop, runs>>

CleanupDone ==
  /\ pc = "cleanup"
  /\ marked' = marked \cup {"cleanup"}
  /\ pc' = "collect"
  /\ UNCHANGED <<open, leafVars, report, queue, askVars, reviewVars, collectVars, stop, runs>>

\* A phase is not done: it was stopped, the model no longer answers, the Architect
\* made no plan or the evidence was not accepted; a cleanup only when stopped.
PhaseFails ==
  /\ pc \in {"planner", "imp", "fixing"} \/ (pc = "cleanup" /\ stop)
  /\ EndSession
  /\ UNCHANGED <<marked, open, leafVars, report, queue, askVars, stop, runs>>

---------------------------------------------------------------------------
(* collect_next_iteration and the rest of the loop.                        *)

\* A report schedules another iteration, once.
CollectReport ==
  /\ pc = "collect"
  /\ failed' = (report # 0) /\ report' = 0
  /\ pc' = "drain"
  /\ UNCHANGED <<marked, open, leafVars, queue, askVars, reviewVars, failures, hand,
                 stop, runs>>

Drain ==
  /\ pc = "drain"
  /\ hand' = queue /\ queue' = {}
  /\ pc' = IF queue = {} /\ ~ failed THEN "idle" ELSE "decide"
  /\ UNCHANGED <<marked, open, leafVars, report, askVars, reviewVars, failures, failed,
                 stop, runs>>

\* wait_for_queued_input
WakeUp ==
  /\ pc = "idle" /\ queue # {} /\ ~ stop
  /\ hand' = queue /\ queue' = {}
  /\ pc' = "decide"
  /\ UNCHANGED <<marked, open, leafVars, report, askVars, reviewVars, failures, failed,
                 stop, runs>>

\* Stopped while idle, or Ctrl+N: the session is left for another.
LeaveIdle ==
  /\ pc = "idle"
  /\ EndSession
  /\ UNCHANGED <<marked, open, leafVars, report, queue, askVars, stop, runs>>

NothingAsked ==
  /\ pc = "decide" /\ ~ failed /\ hand \subseteq ExitWord
  /\ EndSession
  /\ UNCHANGED <<marked, open, leafVars, report, queue, askVars, stop, runs>>

\* Variant: a failed review alone makes the next iteration.
FeedbackOfReview ==
  open' = open \cup (IF failed THEN {Fix} ELSE hand \ ExitWord)

Feedback ==
  open' = open \cup (IF failed THEN {Fix} ELSE {}) \cup (hand \ ExitWord)

\* The message is in the history; every phase runs again, from the first.
NextIteration ==
  /\ Feedback
  /\ failed' = FALSE /\ hand' = {}
  /\ pc' = "planner"
  /\ UNCHANGED <<marked, leafVars, report, queue, askVars, reviewVars, runs, stop>>

RunRequests ==
  /\ pc = "decide" /\ ~ failed /\ ~ hand \subseteq ExitWord
  /\ NextIteration
  /\ UNCHANGED failures

\* Variant: a failed review is not counted.
ReviewFailedUncounted ==
  /\ pc = "decide" /\ failed
  /\ failures + 1 < MaxReviewIterations
  /\ pc' = "approval"
  /\ UNCHANGED <<marked, open, leafVars, report, queue, askVars, reviewVars, failed,
                 hand, failures, stop, runs>>

ReviewFailed ==
  /\ pc = "decide" /\ failed
  /\ failures + 1 < MaxReviewIterations
  /\ failures' = failures + 1
  /\ pc' = "approval"
  /\ UNCHANGED <<marked, open, leafVars, report, queue, askVars, reviewVars, failed,
                 hand, stop, runs>>

ReviewCap ==
  /\ pc = "decide" /\ failed
  /\ failures + 1 >= MaxReviewIterations
  /\ EndSession
  /\ UNCHANGED <<marked, open, leafVars, report, queue, askVars, stop, runs>>

\* No approval is needed, or the person approves...
Approve ==
  /\ pc = "approval"
  /\ NextIteration
  /\ UNCHANGED failures

\* ... or ends the session.
Reject ==
  /\ pc = "approval"
  /\ EndSession
  /\ UNCHANGED <<marked, open, leafVars, report, queue, askVars, stop, runs>>

---------------------------------------------------------------------------
(* The person, and the process.                                            *)

Ask(r) ==
  /\ pc # "over" /\ r \notin asked
  /\ queue' = queue \cup {r} /\ asked' = asked \cup {r}
  /\ UNCHANGED <<marked, open, leafVars, report, unplanned, edits, pc, reviewVars, collectVars,
                 stop, runs>>

Stop ==
  /\ pc # "over" /\ ~ stop
  /\ stop' = TRUE
  /\ UNCHANGED <<marked, open, leafVars, report, queue, askVars, pc, reviewVars,
                 collectVars, runs>>

Crash ==
  /\ pc # "over"
  /\ EndSession
  /\ UNCHANGED <<marked, open, leafVars, report, queue, askVars, stop, runs>>

\* get_remaining_phases: from the first phase with no marker in the history.
FirstUnmarked ==
  IF "planner" \notin marked THEN "planner"
  ELSE IF "imp" \notin marked THEN "imp"
  ELSE IF "reviewer" \notin marked THEN "reviewer"
  ELSE IF "cleanup" \notin marked THEN "cleanup"
  ELSE "collect"

Resume ==
  /\ pc = "over" /\ runs < MaxRuns
  /\ runs' = runs + 1 /\ stop' = FALSE
  /\ pc' = FirstUnmarked
  /\ round' = 1 /\ FreshReview
  /\ UNCHANGED <<marked, open, leafVars, report, queue, askVars, collectVars>>

Over == pc = "over" /\ UNCHANGED vars

---------------------------------------------------------------------------

Phases ==
  \/ PlannerDone \/ ImpDone \/ CleanupDone \/ PhaseFails
  \/ \E i \in Item : Build(i)

Tools ==
  \/ \E i \in Item : ReopenLeaf(i)
  \/ \E text \in 1 .. Reports : WriteReport(text)

Verdicts ==
  ReviewStops \/ VerdictFix \/ VerdictMissing \/ VerdictPass

Review == Tools \/ ReviewAgain \/ Verdicts \/ FixesDone \/ RoundsOver

Collect ==
  \/ CollectReport \/ Drain \/ WakeUp \/ NothingAsked \/ RunRequests
  \/ ReviewFailed \/ ReviewCap \/ Approve \/ Reject

Next ==
  \/ Phases \/ Review \/ Collect
  \/ LeaveIdle \/ (\E r \in Request : Ask(r)) \/ Stop \/ (\E i \in Item : Requeue(i))
  \/ Crash \/ Resume \/ Over

\* Every phase ends, with its marker or without (Planner and Imp); an
\* episode of the reviewer ends with its verdict or on its budget; an
\* approval that is asked for is given or refused.  Nobody has to leave an
\* idle session, start it again or ask for anything.
Fairness ==
  /\ WF_vars(Phases)
  /\ WF_vars(Verdicts)
  /\ WF_vars(FixesDone \/ RoundsOver)
  /\ WF_vars(Collect)

Spec == Init /\ [][Next]_vars
FairSpec == Spec /\ Fairness

---------------------------------------------------------------------------
(* What the session promises.                                              *)

\* Everything with leaves is finished and passed as it is, but for what Dev gave
\* up: what was never passed, or was passed, put back and then given up.
AllDone == open = {} /\ Todo = {} /\ Done \subseteq passed \ kept /\ passed \subseteq Done \cup kept

\* "PIPELINE COMPLETE": in a session that was not started again, nothing is left to
\* be planned or built, and what is built was passed by a review that saw it as it
\* is.  An item may still say "passed" when it is not built, but only one that was
\* put back after it had passed, with that status (dev.py:233, nodes.py:332), and
\* that Dev gave up then (dev.py:309-317).
CompleteMeansDone == pc = "idle" /\ runs = 1 => AllDone

\* A request is queued, in hand, in the history or planned until the session
\* ends, whatever review failed meanwhile; or the Architect had it and ended
\* without a leaf for it, which nobody checks (loop.py:156-157).
RequestsKept ==
  runs = 1 /\ pc # "over" =>
    asked \ ExitWord \subseteq queue \cup hand \cup open \cup Planned \cup unplanned

\* A session comes to rest: failing reviews can't keep it going.
ComesToRest == <>[](pc \in {"idle", "over"})
=============================================================================
