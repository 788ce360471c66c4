------------------------------ MODULE Approvals -----------------------------
(***************************************************************************)
(* What a person is asked before the program goes on: the approval gate of *)
(* execute_command (tool/cmd_tools.py), the menu after a failed request    *)
(* (episode/engine.py), EVIDENCE_REVIEW=1 and REVIEW_LOOP_APPROVAL=1       *)
(* (runner.py), both set, all through get_user_choice of the console.      *)
(*                                                                         *)
(* One worker asks one question at a time: the episodes of a parallel      *)
(* batch have no execute_command.  AUTO_APPROVE_COMMANDS is off.           *)
(***************************************************************************)
EXTENDS Naturals, Sequences, FiniteSets

CONSTANTS
  ShellCommand, \* the commands a model asks for
  Starts,       \* Starts[c]: the commands that start with the first word of c
  MaxReply,     \* bound: calls of execute_command in one reply
  MaxPresses,   \* bound: answers given to one question, from both hands
  MaxAsked,     \* bound: questions of all runs
  MaxEdits,     \* bound: changes of the evidence by hand
  MaxRuns       \* bound: processes started on the session

VARIABLES
  at,           \* what the worker does: "start", "work", "request", "calls",
                \*   "asking" or "over"
  calls,        \* the commands of the reply still to be handled
  question,     \* the menu on screen: its kind and its number
  answers,      \* _answers: a queue nobody empties, [key, to, nth, run]: the nth
                \*   answer people gave looking at question number `to` of process `run`
  said,         \* history: the answers people gave
  presses,      \* how many of them to the latest question
  asked,        \* how many questions were shown
  stopped,      \* _stop
  approve_all,  \* the gate's flag, of this process
  approved,     \* commands whose first word is saved under APPROVED_CMD_KEY
  evidence,     \* a number for evidence_hash: the state of the captured files
  accepted,     \* detail of the latest evidence_accepted event; 0: none
  ran,          \* history: [cmd, by, number, run, late]: what ran, by which answer
                \*   to which question of which process, and whether after a stop
  runs          \* processes started

approvalVars == <<at, calls, question, answers, said, presses, asked, stopped,
                  approve_all, approved, evidence, accepted, ran, runs>>

None == [kind |-> "none", number |-> 0]

\* What stands in for an answer nobody gave.
Unsaid(key) == [key |-> key, to |-> 0, nth |-> 0, run |-> 0]
Standing == Unsaid("standing")

\* The keys of a menu, in its order.
Options(kind) == CASE kind = "command"  -> <<"y", "s", "a", "n">>
                   [] kind = "failure"  -> <<"r", "s">>
                   [] kind = "evidence" -> <<"a", "r", "s">>
                   [] kind = "loop"     -> <<"y", "n">>

Keys(kind) == {Options(kind)[i] : i \in DOMAIN Options(kind)}

ApprovalsInit ==
  /\ at = "start" /\ calls = <<>> /\ question = None /\ answers = <<>> /\ said = {}
  /\ presses = 0 /\ asked = 0 /\ stopped = FALSE /\ approve_all = FALSE /\ approved = {}
  /\ evidence = 1 /\ accepted = 0 /\ ran = {} /\ runs = 1

(***************************************************************************)
(* The handlers of an answer.                                              *)
(***************************************************************************)
\* The gate saw an answer, or needed none: the command runs or is dropped.
\* execute_command ran it too when it fails or is killed after its timeout.
Executes(answer) ==
  /\ ran' = ran \union {[cmd |-> Head(calls), by |-> answer, number |-> question.number,
                          run |-> runs, late |-> stopped]}
  /\ calls' = Tail(calls) /\ at' = "calls"

Drops == calls' = Tail(calls) /\ at' = "calls" /\ UNCHANGED ran

\* A saved prefix is the command's first word.
Saved(command) == approved \union {command}

Yes == {"y", "s", "a"}

DecideCommand(answer) ==
  /\ IF answer.key \in Yes THEN Executes(answer) ELSE Drops
  /\ approve_all' = (approve_all \/ answer.key = "a")
  /\ approved' = IF answer.key = "s" THEN Saved(Head(calls)) ELSE approved
  /\ UNCHANGED <<stopped, accepted>>

\* A retry, unless the run is stopped: then the menu's answer is a stop too.
DecideFailure(key) ==
  /\ IF key # "r" \/ stopped
       THEN at' = "over" /\ stopped' = TRUE
       ELSE at' = "request" /\ UNCHANGED stopped
  /\ UNCHANGED <<calls, ran, approve_all, approved, accepted>>

\* Accepting records the hash of the files as they are now.
DecideEvidence(key) ==
  /\ at' = CASE key = "a" -> "work" [] key = "s" -> "over" [] OTHER -> "start"
  /\ accepted' = IF key = "a" THEN evidence ELSE accepted
  /\ UNCHANGED <<calls, ran, stopped, approve_all, approved>>

DecideLoop(key) ==
  /\ at' = IF key = "y" THEN "work" ELSE "over"
  /\ UNCHANGED <<calls, ran, stopped, approve_all, approved, accepted>>

Decide(kind, answer) ==
  /\ question' = None
  /\ \/ kind = "command" /\ DecideCommand(answer)
     \/ kind = "failure" /\ DecideFailure(answer.key)
     \/ kind = "evidence" /\ DecideEvidence(answer.key)
     \/ kind = "loop" /\ DecideLoop(answer.key)

(***************************************************************************)
(* get_user_choice.                                                        *)
(***************************************************************************)
\* A stopped console shows no menu and answers with the first option.
AskStopped(kind) ==
  /\ stopped /\ Decide(kind, Unsaid(Options(kind)[1]))
  /\ UNCHANGED <<answers, said, presses, asked, evidence, runs>>

AskShown(kind) ==
  /\ ~stopped /\ asked < MaxAsked
  /\ asked' = asked + 1 /\ presses' = 0
  /\ question' = [kind |-> kind, number |-> asked + 1]
  /\ at' = "asking"
  /\ UNCHANGED <<calls, answers, said, stopped, approve_all, approved, evidence, accepted,
                 ran, runs>>

Ask(kind) == AskStopped(kind) \/ AskShown(kind)

TakeAnswer ==
  /\ at = "asking" /\ answers # <<>>
  /\ Decide(question.kind, Head(answers))
  /\ answers' = Tail(answers)
  /\ UNCHANGED <<said, presses, asked, evidence, runs>>

\* A stop while the menu is up: the menu's first option is the answer.
StopAsking ==
  /\ at = "asking" /\ stopped
  /\ Decide(question.kind, Unsaid(Options(question.kind)[1]))
  /\ UNCHANGED <<answers, said, presses, asked, evidence, runs>>

(***************************************************************************)
(* The worker.                                                             *)
(***************************************************************************)
\* The build starts once the evidence as it is now was accepted.
ReviewEvidence ==
  /\ at = "start"
  /\ \/ accepted # evidence /\ Ask("evidence")
     \/ /\ accepted = evidence /\ at' = "work"
        /\ UNCHANGED <<calls, question, answers, said, presses, asked, stopped, approve_all,
                       approved, evidence, accepted, ran, runs>>

\* A turn, or the end of a phase; a stopped episode sends no request.
Turn ==
  /\ at = "work"
  /\ at' = IF stopped THEN "over" ELSE "request"
  /\ UNCHANGED <<calls, question, answers, said, presses, asked, stopped, approve_all, approved,
                 evidence, accepted, ran, runs>>

ReviewFails == at = "work" /\ ~stopped /\ Ask("loop")

RequestFails ==
  /\ at = "request"
  /\ \/ ~stopped /\ Ask("failure")
     \/ /\ stopped /\ at' = "over"
        /\ UNCHANGED <<calls, question, answers, said, presses, asked, stopped, approve_all,
                       approved, evidence, accepted, ran, runs>>

\* The reply's calls are executed in turn, whether or not a stop came.
Reply ==
  /\ at = "request"
  /\ \E n \in 1..MaxReply : calls' \in [1..n -> ShellCommand]
  /\ at' = "calls"
  /\ UNCHANGED <<question, answers, said, presses, asked, stopped, approve_all, approved,
                 evidence, accepted, ran, runs>>

Stands(c) == approve_all \/ \E p \in approved : c \in Starts[p]

Call ==
  /\ at = "calls" /\ calls # <<>>
  /\ \/ ~Stands(Head(calls)) /\ Ask("command")
     \/ /\ Stands(Head(calls)) /\ Executes(Standing)
        /\ UNCHANGED <<question, answers, said, presses, asked, stopped, approve_all,
                       approved, evidence, accepted, runs>>

CallsDone ==
  /\ at = "calls" /\ calls = <<>> /\ at' = "work"
  /\ UNCHANGED <<calls, question, answers, said, presses, asked, stopped, approve_all, approved,
                 evidence, accepted, ran, runs>>

(***************************************************************************)
(* People and the process.                                                 *)
(***************************************************************************)
\* Enter in the terminal or a button of the dashboard.
Press ==
  /\ question # None /\ presses < MaxPresses
  /\ presses' = presses + 1
  /\ \E k \in Keys(question.kind) :
       LET answer == [key |-> k, to |-> question.number, nth |-> presses + 1, run |-> runs]
       IN  answers' = Append(answers, answer) /\ said' = said \union {answer}
  /\ UNCHANGED <<at, calls, question, asked, stopped, approve_all, approved, evidence,
                 accepted, ran, runs>>

EditEvidence ==
  /\ evidence <= MaxEdits /\ evidence' = evidence + 1
  /\ UNCHANGED <<at, calls, question, answers, said, presses, asked, stopped, approve_all,
                 approved, accepted, ran, runs>>

Stop ==
  /\ ~stopped /\ stopped' = TRUE
  /\ UNCHANGED <<at, calls, question, answers, said, presses, asked, approve_all, approved,
                 evidence, accepted, ran, runs>>

\* The saved prefixes and the acceptance are in the database; the rest is not.
Restart ==
  /\ at = "over" /\ runs < MaxRuns
  /\ runs' = runs + 1 /\ at' = "start" /\ calls' = <<>> /\ question' = None
  /\ answers' = <<>> /\ stopped' = FALSE /\ approve_all' = FALSE
  /\ UNCHANGED <<said, presses, asked, approved, evidence, accepted, ran>>

ApprovalsNext ==
  \/ ReviewEvidence \/ Turn \/ ReviewFails \/ RequestFails \/ Reply \/ Call \/ CallsDone
  \/ TakeAnswer \/ StopAsking \/ Press \/ EditEvidence \/ Stop \/ Restart

ApprovalsSpec == ApprovalsInit /\ [][ApprovalsNext]_approvalVars

(***************************************************************************)
(* Properties.                                                             *)
(***************************************************************************)
\* An answer too many: a question of this process asked before the nth got two.
Excess(nth, run) == \E s \in said : s.nth > 1 /\ s.to < nth /\ s.run = run

\* A command ran on an approval that stands, after a stop (which answers "Yes,
\* run once" for the person), or on a yes a person gave: to this command's own
\* question, unless an answer too many was queued in this process, for then every
\* later menu takes the answer meant for one before it.  No yes runs two commands
\* (tool/cmd_tools.py:72-77, pt_console_manager.py:1042-1050).
RanForCause ==
  /\ \A r \in ran : \/ r.by = Standing
                    \/ r.by.to = 0 /\ r.late
                    \/ /\ r.by \in said /\ r.by.key \in Yes
                       /\ r.by.to = r.number \/ Excess(r.number, r.run)
  /\ \A q, r \in ran : q.by = r.by /\ r.by \in said => q = r

\* An approval that stands was given at the gate: "All" by a person to this
\* process, a saved prefix by a person for the command it is of; a stop's first
\* option never gives either, though it may run the command at hand.
StandingWasTyped ==
  /\ approve_all => \E r \in ran : r.run = runs /\ r.by \in said /\ r.by.key = "a"
  /\ \A c \in approved : \E r \in ran : r.cmd = c /\ r.by \in said /\ r.by.key = "s"
=============================================================================
