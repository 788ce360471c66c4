-------------------------- MODULE Pipeline_proofs --------------------------
(***************************************************************************)
(* Proofs about the session from its goal to its end: "PIPELINE COMPLETE"  *)
(* is true when a session that wasn't started again says it (with the      *)
(* exceptions CompleteMeansDone names), and nothing the person typed is     *)
(* dropped between two iterations.  Both follow from one inductive         *)
(* invariant, which says what each place in the loop knows of the history, *)
(* the leaves and the report.                                              *)
(***************************************************************************)
EXTENDS Pipeline, TLAPS

\* What is passed is finished, or was put back since, whatever was started again.
PassedIsDone == passed \subseteq Done \cup kept

\* What collect_next_iteration drained is held until it is asked or dropped.
HandIsTransient == hand # {} => pc \in {"decide", "approval"}

\* Under a reviewer that has reopened nothing every leaf is finished.
ReopenedAreTodo == pc = "reviewer" /\ reopened = {} => Todo = {}

\* Before the planner runs again, nothing asked for is without leaves.
AllPlanned == pc \notin {"planner", "over"} => open = {}

\* Past the review, either everything is finished and passed, or a report
\* keeps the session from coming to rest.
ReviewedOrReported ==
  /\ pc \in {"cleanup", "collect"} => AllDone \/ report # 0
  /\ pc = "drain" => AllDone \/ failed
  /\ pc = "idle" => AllDone

PipelineInv ==
  /\ TypeOK /\ PassedIsDone /\ HandIsTransient
  /\ runs = 1 => ReopenedAreTodo /\ AllPlanned /\ ReviewedOrReported
  /\ RequestsKept

---------------------------------------------------------------------------
LEMMA Constants ==
  /\ Goal \in Item /\ Fix \in Item /\ Request \subseteq Item
  /\ MaxReviewIterations \in Nat /\ 1 <= MaxReviewIterations
  /\ Reports \in Nat /\ 1 <= Reports
  /\ MaxRuns \in Nat /\ 1 <= MaxRuns
  /\ MaxEdits \in Nat
BY ItemAssumption, BoundsAssumption DEF Item

\* The ways a session ends are one step, each with its own reason.
Ends ==
  EndSession /\ UNCHANGED <<marked, open, leafVars, report, queue, askVars, stop, runs>>

LEMMA EndIsEnd ==
  PhaseFails \/ ReviewStops \/ NothingAsked \/ ReviewCap \/ Reject \/ LeaveIdle \/ Crash
    => Ends
BY DEF PhaseFails, ReviewStops, NothingAsked, ReviewCap, Reject, LeaveIdle, Crash, Ends

LEMMA EndTyped ==
  ASSUME TypeOK, Ends
  PROVE  TypeOK'
<1>1. /\ pc' \in Where
      /\ round' \in 1 .. MaxReviewIterations
      /\ attempt' \in 0 .. 1 /\ reopened' \subseteq Item /\ reportBefore' \in 0 .. Reports
      /\ failures' \in 0 .. MaxReviewIterations /\ hand' \subseteq Request
  BY Constants DEF Ends, EndSession, Where
<1>2. failed' \in BOOLEAN
  BY DEF Ends, EndSession
<1> QED
  BY <1>1, <1>2 DEF TypeOK, Ends, leafVars, askVars

LEMMA TypeKept ==
  ASSUME TypeOK, Next
  PROVE  TypeOK'
<1> USE Constants DEF TypeOK, leafVars, askVars, reviewVars, collectVars
<1>1. CASE PlannerDone
  BY <1>1 DEF PlannerDone, Where, Phase, Again, Keeping, Finished
<1>2. CASE ImpDone
  BY <1>2 DEF ImpDone, FreshReview, Where, Phase
<1>3. CASE CleanupDone
  BY <1>3 DEF CleanupDone, Where, Phase
<1>4. ASSUME NEW i \in Item, Build(i)
      PROVE  TypeOK'
  BY <1>4 DEF Build
<1>4a. ASSUME NEW i \in Item, Requeue(i)
       PROVE  TypeOK'
  BY <1>4a DEF Requeue, Again, Keeping, Finished, Done
<1>5. ASSUME NEW i \in Item, ReopenLeaf(i)
      PROVE  TypeOK'
  BY <1>5 DEF ReopenLeaf, Planned, Again, Keeping, Finished
<1>6. ASSUME NEW text \in 1 .. Reports, WriteReport(text)
      PROVE  TypeOK'
  BY <1>6 DEF WriteReport
<1>7. CASE ReviewAgain
  BY <1>7 DEF ReviewAgain
<1>8. CASE VerdictFix
  BY <1>8 DEF VerdictFix, Where, Phase
<1>9. CASE VerdictMissing
  BY <1>9 DEF VerdictMissing, NewReport, Where, Phase
<1>10. CASE VerdictPass
  BY <1>10 DEF VerdictPass, NewReport, Where, Phase, Done
<1>11. CASE FixesDone
  BY <1>11 DEF FixesDone, FreshReview, Where, Phase
<1>12. CASE RoundsOver
  BY <1>12 DEF RoundsOver, Where, Phase
<1>13. CASE CollectReport
  BY <1>13 DEF CollectReport, Where, Phase
<1>14. CASE Drain
  BY <1>14 DEF Drain, Where, Phase
<1>15. CASE WakeUp
  BY <1>15 DEF WakeUp, Where, Phase
<1>16. CASE RunRequests
  BY <1>16 DEF RunRequests, NextIteration, Feedback, Where, Phase
<1>17. CASE ReviewFailed
  BY <1>17 DEF ReviewFailed, Where, Phase
<1>18. CASE Approve
  BY <1>18 DEF Approve, NextIteration, Feedback, Where, Phase
<1>19. ASSUME NEW r \in Request, Ask(r)
      PROVE  TypeOK'
  BY <1>19 DEF Ask
<1>20. CASE Stop
  BY <1>20 DEF Stop
<1>21. CASE Resume
  <2>1. /\ pc' \in Where /\ runs' \in 1 .. MaxRuns /\ round' \in 1 .. MaxReviewIterations
        /\ attempt' \in 0 .. 1 /\ reopened' \subseteq Item /\ reportBefore' \in 0 .. Reports
    BY <1>21 DEF Resume, FreshReview, FirstUnmarked, Where, Phase
  <2>2. stop' \in BOOLEAN
    BY <1>21 DEF Resume
  <2> QED
    BY <1>21, <2>1, <2>2 DEF Resume
<1>22. CASE Over
  BY <1>22 DEF Over, vars
<1>23. CASE Ends
  BY <1>23, EndTyped
<1> QED
  BY <1>1, <1>2, <1>3, <1>4, <1>4a, <1>5, <1>6, <1>7, <1>8, <1>9, <1>10, <1>11,
     <1>12, <1>13, <1>14, <1>15, <1>16, <1>17, <1>18, <1>19, <1>20, <1>21,
     <1>22, <1>23, EndIsEnd
     DEF Next, Phases, Tools, Verdicts, Review, Collect
---------------------------------------------------------------------------
\* What every place in the loop knows.
PlaceInv == ReopenedAreTodo /\ AllPlanned /\ ReviewedOrReported

LEMMA RunsGrow ==
  ASSUME TypeOK, Next, runs' = 1
  PROVE  runs = 1
<1>1. runs \in Nat /\ 1 <= runs /\ (runs' = runs \/ runs' = runs + 1)
  BY Constants
     DEF TypeOK, Next, Phases, Tools, Verdicts, Review, Collect, Ends, leafVars,
         reviewVars, collectVars, vars,
         PlannerDone, ImpDone, CleanupDone, PhaseFails, Build, Requeue, ReopenLeaf,
         WriteReport, ReviewAgain, ReviewStops, VerdictFix, VerdictMissing,
         VerdictPass, FixesDone, RoundsOver, CollectReport, Drain, WakeUp,
         NothingAsked, RunRequests, NextIteration, ReviewFailed, ReviewCap,
         Approve, Reject, LeaveIdle, Ask, Stop, Crash, Resume, Over
<1> QED
  BY <1>1

LEMMA PlacesKept ==
  ASSUME PipelineInv, Next, runs' = 1
  PROVE  PlaceInv'
<1> USE DEF PlaceInv, ReopenedAreTodo, AllPlanned, ReviewedOrReported,
            leafVars, askVars, reviewVars, collectVars
<1>0. TypeOK /\ PassedIsDone /\ runs = 1 /\ ReopenedAreTodo /\ AllPlanned /\ ReviewedOrReported
  BY RunsGrow DEF PipelineInv
<1>1. CASE PlannerDone
  BY <1>0, <1>1 DEF PlannerDone
<1>2. CASE ImpDone
  BY <1>0, <1>2 DEF ImpDone, FreshReview, Todo
<1>3. CASE CleanupDone
  BY <1>0, <1>3 DEF CleanupDone, AllDone, Todo, Done
<1>4. ASSUME NEW i0 \in Item, Build(i0)
      PROVE  PlaceInv'
  BY <1>0, <1>4 DEF Build
<1>4a. ASSUME NEW i0 \in Item, Requeue(i0)
       PROVE  PlaceInv'
  BY <1>0, <1>4a DEF Requeue
<1>5. ASSUME NEW i0 \in Item, ReopenLeaf(i0)
      PROVE  PlaceInv'
  BY <1>0, <1>5 DEF ReopenLeaf
<1>6. ASSUME NEW text \in 1 .. Reports, WriteReport(text)
      PROVE  PlaceInv'
  BY <1>0, <1>6 DEF WriteReport, Todo
<1>7. CASE ReviewAgain
  BY <1>0, <1>7 DEF ReviewAgain, Todo
<1>8. CASE VerdictFix
  BY <1>0, <1>8 DEF VerdictFix
<1>9. CASE VerdictMissing
  BY <1>0, <1>9 DEF VerdictMissing, NewReport
<1>10. CASE VerdictPass
  BY <1>0, <1>10 DEF VerdictPass, NewReport, PassedIsDone, Done, AllDone,
     Todo
<1>11. CASE FixesDone
  BY <1>0, <1>11 DEF FixesDone, FreshReview, Todo
<1>12. CASE RoundsOver
  BY <1>0, <1>12 DEF RoundsOver
<1>13. CASE CollectReport
  BY <1>0, <1>13 DEF CollectReport, AllDone, Todo, Done
<1>14. CASE Drain
  BY <1>0, <1>14 DEF Drain, AllDone, Todo, Done
<1>15. CASE WakeUp
  BY <1>0, <1>15 DEF WakeUp
<1>16. CASE RunRequests
  BY <1>0, <1>16 DEF RunRequests, NextIteration, Feedback
<1>17. CASE ReviewFailed
  BY <1>0, <1>17 DEF ReviewFailed
<1>18. CASE Approve
  BY <1>0, <1>18 DEF Approve, NextIteration, Feedback
<1>19. ASSUME NEW r \in Request, Ask(r)
      PROVE  PlaceInv'
  BY <1>0, <1>19 DEF Ask, AllDone, Todo, Done
<1>20. CASE Stop
  BY <1>0, <1>20 DEF Stop, AllDone, Todo, Done
<1>21. CASE Over
  BY <1>0, <1>21 DEF Over, vars
<1>22. CASE Ends
  BY <1>0, <1>22 DEF Ends, EndSession
<1>23. ~ Resume
  BY <1>0 DEF Resume
<1> HIDE DEF PlaceInv, ReopenedAreTodo, AllPlanned, ReviewedOrReported
<1> QED
  BY <1>1, <1>2, <1>3, <1>4, <1>4a, <1>5, <1>6, <1>7, <1>8, <1>9, <1>10, <1>11,
     <1>12, <1>13, <1>14, <1>15, <1>16, <1>17, <1>18, <1>19, <1>20, <1>21,
     <1>22, <1>23, EndIsEnd
     DEF Next, Phases, Tools, Verdicts, Review, Collect

\* What is passed, in hand and asked for, wherever the loop is.
RequestInv == PassedIsDone /\ HandIsTransient /\ RequestsKept

LEMMA RequestsStay ==
  ASSUME PipelineInv, Next
  PROVE  RequestInv'
<1> USE DEF RequestInv, PassedIsDone, Done, HandIsTransient, RequestsKept,
            leafVars, askVars, reviewVars, collectVars
<1>0. TypeOK /\ RequestInv
  BY DEF PipelineInv
<1>1. CASE PlannerDone
  BY <1>0, <1>1 DEF PlannerDone, Again, Keeping, Finished, Planned, TypeOK
<1>2. CASE ImpDone
  BY <1>0, <1>2 DEF ImpDone, Planned
<1>3. CASE CleanupDone
  BY <1>0, <1>3 DEF CleanupDone, Planned
<1>4. ASSUME NEW i0 \in Item, Build(i0)
      PROVE  RequestInv'
  BY <1>0, <1>4 DEF Build, Todo, Planned, TypeOK
<1>4a. ASSUME NEW i0 \in Item, Requeue(i0)
       PROVE  RequestInv'
  BY <1>0, <1>4a DEF Requeue, Again, Keeping, Finished, Planned, TypeOK
<1>5. ASSUME NEW i0 \in Item, ReopenLeaf(i0)
      PROVE  RequestInv'
  BY <1>0, <1>5 DEF ReopenLeaf, Again, Keeping, Finished, Planned, TypeOK
<1>6. ASSUME NEW text \in 1 .. Reports, WriteReport(text)
      PROVE  RequestInv'
  BY <1>0, <1>6 DEF WriteReport, Planned
<1>7. CASE ReviewAgain
  BY <1>0, <1>7 DEF ReviewAgain, Planned
<1>8. CASE VerdictFix
  BY <1>0, <1>8 DEF VerdictFix, Planned
<1>9. CASE VerdictMissing
  BY <1>0, <1>9 DEF VerdictMissing, Planned
<1>10. CASE VerdictPass
  BY <1>0, <1>10 DEF VerdictPass, Planned
<1>11. CASE FixesDone
  BY <1>0, <1>11 DEF FixesDone, Planned
<1>12. CASE RoundsOver
  BY <1>0, <1>12 DEF RoundsOver, Planned
<1>13. CASE CollectReport
  BY <1>0, <1>13 DEF CollectReport, Planned
<1>14. CASE Drain
  BY <1>0, <1>14 DEF Drain, Planned
<1>15. CASE WakeUp
  BY <1>0, <1>15 DEF WakeUp, Planned
<1>16. CASE RunRequests
  BY <1>0, <1>16 DEF RunRequests, NextIteration, Feedback, Planned
<1>17. CASE ReviewFailed
  BY <1>0, <1>17 DEF ReviewFailed, Planned
<1>18. CASE Approve
  BY <1>0, <1>18 DEF Approve, NextIteration, Feedback, Planned
<1>19. ASSUME NEW r \in Request, Ask(r)
      PROVE  RequestInv'
  BY <1>0, <1>19 DEF Ask, Planned
<1>20. CASE Stop
  BY <1>0, <1>20 DEF Stop, Planned
<1>21. CASE Over
  BY <1>0, <1>21 DEF Over, vars, Planned
<1>22. CASE Resume
  BY <1>0, <1>22 DEF Resume, TypeOK
<1>23. CASE Ends
  BY <1>0, <1>23 DEF Ends, EndSession
<1> HIDE DEF RequestInv, PassedIsDone, HandIsTransient, RequestsKept
<1> QED
  BY <1>1, <1>2, <1>3, <1>4, <1>4a, <1>5, <1>6, <1>7, <1>8, <1>9, <1>10, <1>11,
     <1>12, <1>13, <1>14, <1>15, <1>16, <1>17, <1>18, <1>19, <1>20, <1>21,
     <1>22, <1>23, EndIsEnd
     DEF Next, Phases, Tools, Verdicts, Review, Collect

LEMMA PipelineInvHolds == Spec => []PipelineInv
<1>1. ASSUME Init
      PROVE  PipelineInv
  <2>1. TypeOK
    <3>1. failed \in BOOLEAN /\ stop \in BOOLEAN
      BY <1>1 DEF Init
    <3>2. pc \in Where
      BY <1>1 DEF Init, Where, Phase
    <3> QED
      BY <1>1, <3>1, <3>2, Constants DEF Init, TypeOK
  <2>2. PassedIsDone /\ HandIsTransient /\ RequestsKept
    BY <1>1 DEF Init, PassedIsDone, HandIsTransient, RequestsKept
  <2>3. ReopenedAreTodo /\ AllPlanned /\ ReviewedOrReported
    BY <1>1 DEF Init, ReopenedAreTodo, AllPlanned, ReviewedOrReported
  <2> QED
    BY <2>1, <2>2, <2>3 DEF PipelineInv
<1>2. ASSUME PipelineInv, [Next]_vars
      PROVE  PipelineInv'
  <2>1. CASE Next
    <3>1. TypeOK /\ TypeOK'
      BY <1>2, <2>1, TypeKept DEF PipelineInv
    <3>2. RequestInv'
      BY <1>2, <2>1, RequestsStay
    <3>3. runs' = 1 => PlaceInv'
      BY <1>2, <2>1, PlacesKept
    <3> QED
      BY <3>1, <3>2, <3>3 DEF PipelineInv, PlaceInv, RequestInv
  <2>2. CASE UNCHANGED vars
    BY <1>2, <2>2
       DEF vars, PipelineInv, TypeOK, PassedIsDone, Done, HandIsTransient, RequestsKept,
           ReopenedAreTodo, AllPlanned, ReviewedOrReported, AllDone, Todo, Planned
  <2> QED
    BY <1>2, <2>1, <2>2
<1> QED
  BY <1>1, <1>2, PTL DEF Spec
---------------------------------------------------------------------------
(* The console shows "PIPELINE COMPLETE" before it waits for the next      *)
(* request (runner.py, _run_session): in a session that was not started    *)
(* again, nothing is then left to plan or to build, and what is built was  *)
(* passed by a review as it is; what says passed and isn't built was put   *)
(* back after it passed, and given up then.  With any number of rounds, of *)
(* failed reviews, of requests and of edits of the evidence.               *)

THEOREM CompleteIsDone == Spec => []CompleteMeansDone
<1>1. PipelineInv => CompleteMeansDone
  BY DEF PipelineInv, ReviewedOrReported, CompleteMeansDone
<1> QED
  BY <1>1, PipelineInvHolds, PTL

(* A request typed while the session runs is queued, in hand, in the       *)
(* history or planned until the session ends, unless the Architect saw it  *)
(* and made no leaf: no failed review, and no iteration that a failed      *)
(* review makes, drops it.                                                 *)

THEOREM RequestsAreKept == Spec => []RequestsKept
<1>1. PipelineInv => RequestsKept
  BY DEF PipelineInv
<1> QED
  BY <1>1, PipelineInvHolds, PTL
=============================================================================
