------------------------------- MODULE Episode -------------------------------
(***************************************************************************)
(* One episode: a conversation with a model from its first request to the  *)
(* reason it ended (src/src/JFI/episode/engine.py, llm/retry.py), with the *)
(* person at the terminal (manager/pt_console_manager.py) and at a         *)
(* dashboard (manager/web_bridge.py) who stop it, pause it, force notes    *)
(* into it and answer the question a failed request raises.                *)
(*                                                                         *)
(* A message is its size.  Questions are numbered; a waiting answer is the *)
(* number of the question it was given to, which the code does not know,   *)
(* and its key is chosen when it is taken.                                 *)
(***************************************************************************)
EXTENDS Naturals, Sequences, FiniteSets, SequencesExt

CONSTANTS
  TurnCap,       \* max_turns
  Budget,        \* the token budget
  Kickoff,       \* size of the system message, the kickoff and the core schemas
  Large,         \* size of a large tool result; other messages have size 1
  KeepRecent,    \* KEEP_RECENT
  RetryLimit,    \* LLM_RETRY_LIMIT
  SdkRetries,    \* external: max_retries of the openai client, which the code leaves at 2
  Web,           \* is there a dashboard?
  MaxNotes,      \* bound: notes forced
  MaxPauses,     \* bound: pauses
  MaxQuestions,  \* bound: questions raised; then the server recovers
  MaxClicks      \* bound: no more answers are given when so many wait

ASSUME SizeAssumption ==
  /\ TurnCap \in Nat /\ Budget \in Nat /\ Kickoff \in Nat /\ Large \in Nat
  /\ KeepRecent \in Nat \ {0} /\ RetryLimit \in Nat /\ SdkRetries \in Nat

ASSUME BoundAssumption ==
  /\ MaxNotes \in Nat /\ MaxPauses \in Nat /\ MaxQuestions \in Nat /\ MaxClicks \in Nat
  /\ Web \in BOOLEAN

\* What a call of a tool can be: the finish tool, load_tool, any other.
Call == {"finish", "load", "work"}
\* The replies of a model; in the order of their calls.
Reply == {<<>>} \cup {<<c>> : c \in Call} \cup {<<"finish", "work">>, <<"work", "finish">>}
Question == 1 .. MaxQuestions
Key == {"r", "s"}
Choice == [to : Question \cup {0}, key : Key]
NoChoice == [to |-> 0, key |-> "s"]

VARIABLES
  pc,          \* where run_episode and _call_llm are
  turns,       \* result.turns
  chat,        \* size of the messages that aren't tool results, and of the schemas
  results,     \* sizes of the tool results
  warned,      \* the budget warning was given
  turnWarned,  \* the warning of the last turns was given
  loaded,      \* the optional tool was loaded
  attempt,     \* _call_llm's attempt
  tries,       \* requests the create() under way has sent
  usage,       \* _ask_for_usage
  calls,       \* the calls of the reply that aren't executed yet
  finished,    \* a finish tool succeeded in this reply
  end,         \* result.end_reason once the episode has ended
  stop, paused,  \* _stop, _paused
  forced,      \* number of notes in _forced
  told,        \* notes in the conversation the model hasn't answered yet
  notes,       \* number of notes made
  awaiting,    \* the question on screen; 0 is none
  asked,       \* number of questions asked
  answers,     \* _answers
  chosen,      \* the answer get_user_choice took
  pressed,     \* the question whose menu the terminal is confirming
  clicked,     \* the question web_answer.json answers; 0 is no such file
  seen,        \* what the bridge's snapshot says is on screen; "none": no snapshot
  pauses,      \* number of pauses
  excused,     \* history variable: the stop found a request on its way
  late,        \* history variable: another message was sent after the stop
  after,       \* history variable: requests sent after the stop
  held,        \* history variable: turns taken since the pause began
  nudged       \* history variable: the request grew after it was measured

talk == <<turns, chat, results, warned, turnWarned, loaded, told>>
client == <<tries, usage>>
reply == <<calls, finished>>
notebook == <<forced, notes>>
question == <<awaiting, asked, answers, chosen>>
person == <<pressed, clicked, seen>>
flags == <<stop, paused, pauses>>
history == <<excused, late, after, held, nudged>>
vars == <<pc, turns, chat, results, warned, turnWarned, loaded, attempt, tries, usage,
          calls, finished, end, stop, paused, forced, told, notes, awaiting, asked,
          answers, chosen, pressed, clicked, seen, pauses, excused, late, after,
          held, nudged>>

Steps == {"top", "wait", "prepare", "call", "send", "stream", "sleep", "ask",
          "menu", "chosen", "tools", "end"}

TalkOK ==
  /\ turns \in 0 .. TurnCap
  /\ chat \in Nat /\ told \in Nat /\ attempt \in Nat
  /\ results \in Seq({1, Large})
  /\ warned \in BOOLEAN /\ turnWarned \in BOOLEAN /\ loaded \in BOOLEAN
  /\ tries \in 0 .. SdkRetries + 1 /\ usage \in BOOLEAN

ReplyOK ==
  /\ pc \in Steps
  /\ calls \in Reply
  /\ finished \in BOOLEAN
  /\ end \in {"none", "finish", "budget", "turn_cap", "error", "stopped"}

QuestionOK ==
  /\ asked \in 0 .. MaxQuestions
  /\ awaiting \in 0 .. asked /\ pressed \in 0 .. asked /\ clicked \in 0 .. asked
  /\ seen \in {"none", "nothing", "question"}
  /\ answers \in Seq(Question)
  /\ chosen \in Choice

PersonOK ==
  /\ stop \in BOOLEAN /\ paused \in BOOLEAN /\ pauses \in 0 .. MaxPauses
  /\ forced \in Nat /\ notes \in 0 .. MaxNotes

HistoryOK ==
  /\ excused \in BOOLEAN /\ late \in BOOLEAN /\ after \in Nat
  /\ held \in Nat /\ nudged \in BOOLEAN

TypeOK == TalkOK /\ ReplyOK /\ QuestionOK /\ PersonOK /\ HistoryOK

\* The constants of the engine.
WarnAt(size) == 5 * size > 3 * Budget
PruneAt(size) == 4 * size > 3 * Budget
TurnsLeftWarning == 2

SumOf(s) == FoldLeft(LAMBDA a, b : a + b, 0, s)

\* estimate_tokens, of the conversation as it is
Size == chat + SumOf(results)

\* _prune_old_results: all but the newest KeepRecent shrink to a stub.
Pruned == [i \in DOMAIN results |-> IF i + KeepRecent <= Len(results) THEN 1 ELSE results[i]]

Init ==
  /\ pc = "top" /\ turns = 0 /\ chat = Kickoff /\ results = <<>>
  /\ warned = FALSE /\ turnWarned = FALSE /\ loaded = FALSE
  /\ attempt = 0 /\ tries = 0 /\ usage \in BOOLEAN /\ calls = <<>>
  /\ finished = FALSE /\ end = "none"
  /\ stop = FALSE /\ paused = FALSE /\ pauses = 0
  /\ forced = 0 /\ told = 0 /\ notes = 0
  /\ awaiting = 0 /\ asked = 0 /\ answers = <<>> /\ chosen = NoChoice
  /\ pressed = 0 /\ clicked = 0 /\ seen = "none"
  /\ excused = FALSE /\ late = FALSE /\ after = 0 /\ held = 0 /\ nudged = FALSE

Goto(from, to) == pc = from /\ pc' = to

End(from, reason) == Goto(from, "end") /\ end' = reason

\* _call_llm returned None.
NoReply(from) == End(from, IF stop' THEN "stopped" ELSE "error")

---------------------------------------------------------------------------
(* The loop over the turns.                                                *)

\* The stop is looked at once a turn, before the pause.
Top ==
  /\ \/ stop /\ End("top", "stopped")
     \/ ~stop /\ Goto("top", "wait") /\ UNCHANGED end
  /\ UNCHANGED <<talk, attempt, client, reply, flags, notebook, question, person, history>>

\* Variant: the pause holds nothing.
WaitNot ==
  /\ Goto("wait", "prepare")
  /\ UNCHANGED <<talk, attempt, client, reply, end, flags, notebook, question, person, history>>

\* wait_while_paused
WaitWhilePaused ==
  /\ ~paused \/ stop
  /\ Goto("wait", "prepare")
  /\ UNCHANGED <<talk, attempt, client, reply, end, flags, notebook, question, person, history>>

\* The forced notes join the conversation, then come the limits: first the
\* turns, then the size of the request, after pruning and with the warnings.
DrainNotes == told' = told + forced /\ forced' = 0

CapReached ==
  /\ turns >= TurnCap
  /\ End("prepare", "turn_cap")
  /\ DrainNotes /\ chat' = chat + forced
  /\ UNCHANGED <<turns, results, warned, turnWarned, loaded, attempt, client, reply, flags, notes,
                 question, person, history>>

\* Variant: the request isn't measured again with the warning.
MeasureOnce ==
  /\ turns < TurnCap
  /\ DrainNotes
  /\ LET last == TurnCap - turns = TurnsLeftWarning /\ ~turnWarned
         before == chat + forced + (IF last THEN 1 ELSE 0)
         kept == IF PruneAt(before + SumOf(results)) THEN Pruned ELSE results
         warn == WarnAt(before + SumOf(kept)) /\ ~warned
     IN /\ turnWarned' = (turnWarned \/ last)
        /\ results' = kept
        /\ warned' = (warned \/ warn)
        /\ chat' = before + (IF warn THEN 1 ELSE 0)
  /\ LET measured == chat' + SumOf(results') - (IF warned' = warned THEN 0 ELSE 1)
     IN \/ measured > Budget /\ End("prepare", "budget")
        \/ measured <= Budget /\ Goto("prepare", "call") /\ UNCHANGED end
  /\ UNCHANGED <<turns, loaded, attempt, client, reply, flags, notes, question, person, history>>

Measure ==
  /\ turns < TurnCap
  /\ DrainNotes
  /\ LET last == TurnCap - turns = TurnsLeftWarning /\ ~turnWarned
         before == chat + forced + (IF last THEN 1 ELSE 0)
         kept == IF PruneAt(before + SumOf(results)) THEN Pruned ELSE results
         warn == WarnAt(before + SumOf(kept)) /\ ~warned
     IN /\ turnWarned' = (turnWarned \/ last)
        /\ results' = kept
        /\ warned' = (warned \/ warn)
        /\ chat' = before + (IF warn THEN 1 ELSE 0)
  /\ \/ chat' + SumOf(results') > Budget /\ End("prepare", "budget")
     \/ chat' + SumOf(results') <= Budget /\ Goto("prepare", "call")
        /\ UNCHANGED end
  /\ UNCHANGED <<turns, loaded, attempt, client, reply, flags, notes, question, person, history>>

---------------------------------------------------------------------------
(* _call_llm: a request, its retries, and the question after them.         *)

\* Variant: nobody looks at the stop before a request.
CheckNot ==
  /\ Goto("call", "send")
  /\ UNCHANGED <<talk, attempt, client, reply, end, flags, notebook, question, person, history>>

CheckStop ==
  /\ UNCHANGED flags
  /\ \/ stop /\ NoReply("call")
     \/ ~stop /\ Goto("call", "send") /\ UNCHANGED end
  /\ UNCHANGED <<talk, attempt, client, reply, notebook, question, person, history>>

Sent == after' = IF stop THEN after + 1 ELSE after

\* send_message
Send ==
  /\ Goto("send", "stream")
  /\ tries' = 1 /\ Sent
  /\ late' = (late \/ (stop /\ ~excused)) /\ excused' = FALSE
  /\ UNCHANGED <<talk, attempt, usage, reply, end, flags, notebook, question, person, held,
                 nudged>>

\* The client retries by itself what failed before a reply began...
ClientRetries ==
  /\ pc = "stream" /\ tries <= SdkRetries
  /\ tries' = tries + 1 /\ Sent
  /\ UNCHANGED <<pc, talk, attempt, usage, reply, end, flags, notebook, question, person,
                 excused, late, held, nudged>>

\* ... and a server that rejects stream_options gets the message again without it,
\* as often.  Nobody looks at the stop in between.
SendPlain ==
  /\ pc = "stream" /\ usage
  /\ usage' = FALSE /\ tries' = 1 /\ Sent
  /\ UNCHANGED <<pc, talk, attempt, reply, end, flags, notebook, question, person,
                 excused, late, held, nudged>>

\* print_agent_response returned.  After a stop the reply is what had come
\* by then.  One without calls gets the nudge to take an action; an empty
\* one isn't kept.
Answered ==
  /\ pc = "stream"
  /\ turns' = turns + 1 /\ told' = 0 /\ attempt' = 0 /\ tries' = 0 /\ nudged' = FALSE
  /\ held' = IF paused THEN held + 1 ELSE held
  /\ \E r \in Reply, content \in BOOLEAN :
       /\ calls' = r /\ finished' = FALSE
       /\ pc' = IF r = <<>> THEN "top" ELSE "tools"
       /\ chat' = chat + (IF content \/ r # <<>> THEN 1 ELSE 0) + (IF r = <<>> THEN 1 ELSE 0)
  /\ UNCHANGED <<results, warned, turnWarned, loaded, usage, end, flags, notebook, question,
                 person, excused, late, after>>

\* The request failed: a reply cut off by the output cap, a dropped
\* connection or a 5xx, or anything else.  The first two are retried.
Fails(kind) ==
  /\ asked < MaxQuestions
  /\ pc = "stream"
  /\ LET retried == kind # "rejected" /\ attempt + 1 <= RetryLimit /\ ~stop
         nudge == kind = "cut_off" /\ attempt + 1 <= RetryLimit
     IN /\ pc' = IF ~retried THEN "ask" ELSE IF kind = "cut_off" THEN "call" ELSE "sleep"
        /\ chat' = IF nudge THEN chat + 1 ELSE chat
        /\ nudged' = (nudged \/ nudge)
  /\ attempt' = attempt + 1 /\ tries' = 0
  /\ UNCHANGED <<turns, results, warned, turnWarned, loaded, told, usage, reply, end, flags,
                 notebook, question, person, excused, late, after, held>>

RequestFails == \E kind \in {"cut_off", "dropped", "rejected"} : Fails(kind)

\* interruptible_sleep
Sleep ==
  /\ Goto("sleep", "call")
  /\ UNCHANGED <<talk, attempt, client, reply, end, flags, notebook, question, person, history>>

\* Variant: the question isn't put on screen.
AskUnseen ==
  /\ UNCHANGED flags
  /\ \/ stop /\ NoReply("ask") /\ UNCHANGED <<awaiting, asked>>
     \/ ~stop /\ Goto("ask", "menu") /\ UNCHANGED end
        /\ asked' = asked + 1 /\ UNCHANGED awaiting
  /\ UNCHANGED <<talk, attempt, client, reply, notebook, answers, chosen, person, history>>

Ask ==
  /\ UNCHANGED flags
  /\ \/ stop /\ NoReply("ask") /\ UNCHANGED <<awaiting, asked>>
     \/ ~stop /\ Goto("ask", "menu") /\ UNCHANGED end
        /\ asked' = asked + 1 /\ awaiting' = asked + 1
  /\ UNCHANGED <<talk, attempt, client, reply, notebook, answers, chosen, person, history>>

\* get_user_choice takes the first answer there is; after a stop it returns
\* the first option.
TakeAnswer ==
  /\ Goto("menu", "chosen")
  /\ \/ answers # <<>> /\ answers' = Tail(answers)
        /\ \E key \in Key : chosen' = [to |-> Head(answers), key |-> key]
     \/ stop /\ chosen' = [to |-> 0, key |-> "r"] /\ UNCHANGED answers
  /\ UNCHANGED <<talk, attempt, client, reply, end, flags, notebook, awaiting, asked, person,
                 history>>

\* The menu goes away; anything but a retry is a stop, and so is a retry
\* after one.
Decide ==
  /\ awaiting' = 0 /\ chosen' = NoChoice
  /\ \/ (chosen.key # "r" \/ stop) /\ stop' = TRUE /\ NoReply("chosen")
        /\ UNCHANGED attempt
     \/ chosen.key = "r" /\ ~stop /\ attempt' = 0 /\ Goto("chosen", "call")
        /\ UNCHANGED <<stop, end>>
  /\ UNCHANGED <<talk, client, reply, paused, pauses, notebook, asked, answers, person,
                 history>>

---------------------------------------------------------------------------
(* The calls of the reply, one after the other, whatever came before.      *)

\* finish accepts the node in scope; mark_leaf_done and the others have
\* reasons of their own to refuse.
CallFinish ==
  /\ finished' \in {finished, TRUE}
  /\ results' = Append(results, 1)
  /\ UNCHANGED <<loaded, chat>>

\* The schemas of every request from here on: those of the active tools, and
\* load_tool's own, which the size of the kickoff includes.
WithSchema == IF loaded THEN chat ELSE chat + 1

\* One optional tool is enough for the size to grow at any call.
CallLoad ==
  /\ loaded' = TRUE
  /\ chat' = WithSchema
  /\ results' = Append(results, 1)
  /\ UNCHANGED finished

\* Variant: the last call decides whether the reply finished.
CallWorkLast ==
  /\ \E size \in {1, Large} : results' = Append(results, size)
  /\ finished' = FALSE
  /\ UNCHANGED <<loaded, chat>>

\* An error, arguments that are no JSON and a tool that isn't there are
\* small results.
CallWork ==
  /\ \E size \in {1, Large} : results' = Append(results, size)
  /\ UNCHANGED <<finished, loaded, chat>>

Execute ==
  /\ pc = "tools" /\ calls # <<>>
  /\ calls' = Tail(calls)
  /\ \/ Head(calls) = "finish" /\ CallFinish
     \/ Head(calls) = "load" /\ CallLoad
     \/ Head(calls) = "work" /\ CallWork
  /\ UNCHANGED <<pc, turns, warned, turnWarned, told, attempt, client, end, flags, notebook,
                 question, person, history>>

CallsDone ==
  /\ calls = <<>>
  /\ \/ finished /\ End("tools", "finish")
     \/ ~finished /\ Goto("tools", "top") /\ UNCHANGED end
  /\ UNCHANGED <<talk, attempt, client, reply, flags, notebook, question, person, history>>

---------------------------------------------------------------------------
(* The person.                                                             *)

conversation == <<pc, talk, attempt, client, reply, end>>

\* Ctrl+C, or a dashboard's stop
Interrupt ==
  /\ ~stop /\ pressed = 0
  /\ stop' = TRUE /\ excused' = (pc = "send")
  /\ UNCHANGED <<conversation, paused, pauses, notebook, question, person, late, after, held,
                 nudged>>

\* Ctrl+P is bound when there is no question; a dashboard's Pause and
\* Resume always work.
Pause ==
  /\ ~paused /\ pauses < MaxPauses
  /\ Web \/ (awaiting = 0 /\ pressed = 0)
  /\ paused' = TRUE /\ pauses' = pauses + 1 /\ held' = 0
  /\ UNCHANGED <<conversation, stop, notebook, question, person, excused, late, after,
                 nudged>>

Resume ==
  /\ paused
  /\ Web \/ (awaiting = 0 /\ pressed = 0)
  /\ paused' = FALSE /\ held' = 0
  /\ UNCHANGED <<conversation, stop, pauses, notebook, question, person, excused, late, after,
                 nudged>>

\* "!text"
ForceNote ==
  /\ awaiting = 0 /\ pressed = 0 /\ notes < MaxNotes
  /\ forced' = forced + 1 /\ notes' = notes + 1
  /\ UNCHANGED <<conversation, told, flags, question, person, history>>

\* Enter on a menu: _confirm_choice reads the options under the lock and
\* puts the answer without it.
Press ==
  /\ awaiting # 0 /\ pressed = 0 /\ Len(answers) < MaxClicks
  /\ pressed' = awaiting
  /\ UNCHANGED <<conversation, flags, notebook, question, clicked, seen, history>>

Confirm ==
  /\ pressed # 0
  /\ pressed' = 0
  /\ answers' = Append(answers, pressed)
  /\ UNCHANGED <<conversation, flags, notebook, awaiting, asked, chosen, clicked, seen, history>>

\* A click on the question of the page.  It may lie in web_answer.json, or
\* on a page that is behind, for as long as it likes; a later click replaces
\* it.
Click ==
  /\ Web /\ awaiting # 0 /\ Len(answers) < MaxClicks
  /\ clicked' = awaiting
  /\ UNCHANGED <<conversation, flags, notebook, question, pressed, seen, history>>

\* The bridge takes a snapshot of the status, then it reads and deletes the
\* click, which it drops when the snapshot has no question.
BridgeLooks ==
  /\ Web /\ seen = "none"
  /\ seen' = IF awaiting # 0 THEN "question" ELSE "nothing"
  /\ UNCHANGED <<conversation, flags, notebook, question, pressed, clicked, history>>

BridgeRelays ==
  /\ seen # "none"
  /\ seen' = "none" /\ clicked' = 0
  /\ answers' = IF clicked # 0 /\ seen = "question" THEN Append(answers, clicked) ELSE answers
  /\ UNCHANGED <<conversation, flags, notebook, awaiting, asked, chosen, pressed, history>>

---------------------------------------------------------------------------

Step ==
  \/ Top \/ WaitWhilePaused \/ CapReached \/ Measure
  \/ CheckStop \/ Send \/ ClientRetries \/ SendPlain \/ Answered \/ RequestFails \/ Sleep
  \/ Ask \/ TakeAnswer \/ Decide
  \/ Execute \/ CallsDone

Bridge == BridgeLooks \/ BridgeRelays

Over == pc = "end" /\ UNCHANGED vars

Next ==
  \/ Step
  \/ pc # "end" /\
       (Interrupt \/ Pause \/ Resume \/ ForceNote \/ Press \/ Confirm \/ Bridge \/ Click)
  \/ Over

\* The episode's thread runs, and a request ends in a reply or a failure
\* (the client has a timeout).  A person who has not stopped the run ends
\* the pause and answers the questions.
Fairness ==
  /\ WF_vars(Step)
  /\ WF_vars(~stop /\ Resume)
  /\ WF_vars(~stop /\ Press)
  /\ WF_vars(pc # "end" /\ Confirm)

Spec == Init /\ [][Next]_vars
FairSpec == Spec /\ Fairness

---------------------------------------------------------------------------
(* What an episode promises.                                               *)

\* What one send_message may send: a request and the client's retries of it, with
\* stream_options and again without.
RequestsPerMessage == 2 * (SdkRetries + 1)

\* After a stop no message is sent but the one that was on its way: not from a
\* pause, not from a retry of the episode's, not after the question.  That one
\* is not called back: its request is still made, the client retries it by
\* itself, and once more without stream_options (openai_compatable_stream.py:29,
\* 68-76), so that some more requests may go out, but never more than these.
LateRequests == ~late /\ after <= RequestsPerMessage

\* A pause holds before the next turn: however often the turn under way is
\* retried or asked about, no second one begins.
PausedHolds == held <= 1

\* The run never gives up on its own: an episode without an answer ends as
\* stopped, and then the whole run is.
NeverGivesUp == end # "error" /\ (end = "stopped" => stop)

\* A turn's first request fits the budget, with the notes, warnings,
\* schemas and results of that moment.
MeasuredFits == pc \in {"send", "stream"} /\ ~nudged => Size <= Budget

\* Once a finish was accepted the episode ends as finished, whatever calls
\* follow it in the reply and whatever is stopped meanwhile.
FinishWins == [][finished => finished' /\ end' \in {"none", "finish"}]_vars

\* An episode ends and has not given up: the turns are counted, nothing waits
\* for ever, and a stop is heard also when paused, asked or between retries.
EpisodeEnds == <>(pc = "end" /\ NeverGivesUp)
=============================================================================
