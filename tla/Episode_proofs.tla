--------------------------- MODULE Episode_proofs ---------------------------
(***************************************************************************)
(* Machine-checked theorems about an episode (module Episode), for every   *)
(* turn cap, budget, size of message and retry limit: its type invariant,  *)
(* and what a stop, a pause, the budget and an accepted finish bring about *)
(* however the person's steps fall between the episode's.  And about the   *)
(* replies of parallel episodes, which are collected first (module Stream).*)
(***************************************************************************)
EXTENDS Episode, Stream, TLAPS

\* A request was measured, and the turn it is for isn't over.
Asking == pc \in {"call", "send", "stream", "sleep", "ask", "menu", "chosen"}

\* The bounds that hold because of where the episode is.
Places ==
  /\ Asking => turns < TurnCap
  /\ pc = "ask" => asked < MaxQuestions

\* A stop that comes between the look at it and the request is excused; what
\* was sent since is at most what this message was sent as so far.
StopInv ==
  /\ ~late
  /\ pc = "send" /\ stop => excused
  /\ ~stop \/ pc = "send" => after = 0
  /\ pc = "stream" => after <= tries + (IF usage THEN 0 ELSE SdkRetries + 1)
  /\ after <= RequestsPerMessage

\* A turn that ended during the pause is followed by none, unless a stop
\* ends the pause, and then the look at it before the request.
PauseInv ==
  /\ held <= 1
  /\ held = 1 => /\ paused
                 /\ \/ pc \in {"top", "wait", "tools", "end"}
                    \/ stop /\ pc \in {"prepare", "call"}

\* The size is measured when the turn's requests begin, and only a nudge
\* adds to it before they end.
SizeInv == Asking /\ ~nudged => Size <= Budget

\* An accepted finish is the reply's that is being worked off.
FinishInv ==
  /\ pc # "end" => end = "none"
  /\ finished => pc \in {"tools", "end"} /\ end \in {"none", "finish"}

\* The inductive invariant.
IInv ==
  /\ TypeOK /\ Places
  /\ StopInv /\ PauseInv /\ NeverGivesUp /\ SizeInv /\ FinishInv

---------------------------------------------------------------------------

\* Pruning keeps the results a sequence of small and large ones.
LEMMA PrunedType ==
  ASSUME results \in Seq({1, Large})
  PROVE  Pruned \in Seq({1, Large})
BY DEF Pruned

\* The head and the tail of a queue of questions.
LEMMA HeadTailType ==
  ASSUME answers \in Seq(Question), answers # <<>>
  PROVE  Head(answers) \in Question /\ Tail(answers) \in Seq(Question)
OBVIOUS

\* What the calls of a reply leave is the rest of a reply.
LEMMA TailType ==
  ASSUME calls \in Reply, calls # <<>>
  PROVE  Tail(calls) \in Reply /\ Head(calls) \in Call
<1>1. CASE calls \in {<<c>> : c \in Call}
  <2>1. PICK c \in Call : calls = <<c>>
    BY <1>1
  <2>2. Head(calls) = c /\ Tail(calls) = <<>>
    BY <2>1
  <2> QED
    BY <2>2 DEF Reply
<1>2. CASE calls = <<"finish", "work">>
  <2>1. Head(calls) = "finish" /\ Tail(calls) = <<"work">>
    BY <1>2
  <2> QED
    BY <2>1 DEF Reply, Call
<1>3. CASE calls = <<"work", "finish">>
  <2>1. Head(calls) = "work" /\ Tail(calls) = <<"finish">>
    BY <1>3
  <2> QED
    BY <2>1 DEF Reply, Call
<1> QED
  BY <1>1, <1>2, <1>3 DEF Reply

\* Every step keeps the types.
LEMMA TypeStep == IInv /\ Next => TypeOK'
<1> SUFFICES ASSUME IInv, Next PROVE TypeOK'
  OBVIOUS
<1> USE SizeAssumption, BoundAssumption DEF SizeAssumption, BoundAssumption, IInv,
        Places, Asking, Question, Key, Choice, NoChoice, Steps, TypeOK, TalkOK,
        ReplyOK, QuestionOK, PersonOK, HistoryOK, Goto, End, NoReply, vars, talk,
        reply, notebook, question, person, flags, history, client, Sent, conversation
<1>1. CASE Top
  BY <1>1 DEF Top
<1>2. CASE WaitWhilePaused
  BY <1>2 DEF WaitWhilePaused
<1>3. CASE CapReached
  BY <1>3, PrunedType DEF CapReached, DrainNotes
<1>4. CASE Measure
  <2>1. TalkOK'
    <3>1. results' \in {results, Pruned}
      BY <1>4, Zenon DEF Measure
    <3>2. \E a, b \in {0, 1} : chat' = chat + forced + a + b
      BY <1>4 DEF Measure
    <3>3. chat' \in Nat
      BY <3>2
    <3>4. results' \in Seq({1, Large})
      BY <3>1, PrunedType
    <3> QED
      BY <1>4, <3>3, <3>4 DEF Measure, DrainNotes, TalkOK
  <2>2. ReplyOK'
    BY <1>4 DEF Measure, DrainNotes, ReplyOK
  <2>3. QuestionOK'
    BY <1>4 DEF Measure, DrainNotes, QuestionOK
  <2>4. PersonOK'
    BY <1>4 DEF Measure, DrainNotes, PersonOK
  <2>5. HistoryOK'
    BY <1>4 DEF Measure, DrainNotes, HistoryOK
  <2> QED
    BY <2>1, <2>2, <2>3, <2>4, <2>5 DEF TypeOK
<1>5. CASE CheckStop
  BY <1>5 DEF CheckStop
<1>6. CASE Send
  <2>1. TalkOK'
    BY <1>6 DEF Send, TalkOK
  <2>2. ReplyOK'
    BY <1>6 DEF Send, ReplyOK
  <2>3. QuestionOK'
    BY <1>6 DEF Send, QuestionOK
  <2>4. PersonOK'
    BY <1>6 DEF Send, PersonOK
  <2>5. HistoryOK'
    <3>1. after' \in Nat
      BY <1>6 DEF Send
    <3>2. late' \in BOOLEAN /\ excused' \in BOOLEAN /\ held' = held /\ nudged' = nudged
      BY <1>6 DEF Send
    <3> QED
      BY <3>1, <3>2 DEF HistoryOK
  <2> QED
    BY <2>1, <2>2, <2>3, <2>4, <2>5 DEF TypeOK
<1>6a. CASE ClientRetries
  <2>1. /\ tries' \in 0 .. SdkRetries + 1
        /\ after' \in Nat
    BY <1>6a DEF ClientRetries
  <2>2. UNCHANGED <<pc, talk, attempt, usage, reply, end, flags, notebook, question, person,
                    excused, late, held, nudged>>
    BY <1>6a, Zenon DEF ClientRetries
  <2>3. TalkOK'
    BY <2>1, <2>2 DEF TalkOK
  <2>4. ReplyOK' /\ QuestionOK'
    BY <2>2 DEF ReplyOK, QuestionOK
  <2>5. PersonOK' /\ HistoryOK'
    BY <2>1, <2>2 DEF PersonOK, HistoryOK
  <2> QED
    BY <2>3, <2>4, <2>5 DEF TypeOK
<1>6b. CASE SendPlain
  <2>1. /\ tries' \in 0 .. SdkRetries + 1
        /\ after' \in Nat
    BY <1>6b DEF SendPlain
  <2>2. UNCHANGED <<pc, talk, attempt, reply, end, flags, notebook, question, person,
                    excused, late, held, nudged>>
    BY <1>6b, Zenon DEF SendPlain
  <2>3. usage' \in BOOLEAN
    BY <1>6b DEF SendPlain
  <2>4. TalkOK'
    BY <2>1, <2>2, <2>3 DEF TalkOK
  <2>5. ReplyOK' /\ QuestionOK'
    BY <2>2 DEF ReplyOK, QuestionOK
  <2>6. PersonOK' /\ HistoryOK'
    BY <2>1, <2>2 DEF PersonOK, HistoryOK
  <2> QED
    BY <2>4, <2>5, <2>6 DEF TypeOK
<1>7. CASE Answered
  <2>1. TalkOK'
    BY <1>7 DEF Answered, TalkOK
  <2>2. ReplyOK'
    BY <1>7 DEF Answered, ReplyOK
  <2>3. QuestionOK'
    BY <1>7 DEF Answered, QuestionOK
  <2>4. PersonOK'
    BY <1>7 DEF Answered, PersonOK
  <2>5. HistoryOK'
    <3>1. held' \in Nat
      BY <1>7 DEF Answered
    <3> QED
      BY <1>7, <3>1 DEF Answered, HistoryOK
  <2> QED
    BY <2>1, <2>2, <2>3, <2>4, <2>5 DEF TypeOK
<1>8. CASE RequestFails
  BY <1>8 DEF RequestFails, Fails
<1>9. CASE Sleep
  BY <1>9 DEF Sleep
<1>10. CASE Ask
  <2>1. TalkOK'
    BY <1>10 DEF Ask, TalkOK
  <2>2. ReplyOK'
    BY <1>10 DEF Ask, ReplyOK
  <2>3. QuestionOK'
    <3>1. CASE stop
      BY <1>10, <3>1 DEF Ask, QuestionOK
    <3>2. CASE ~stop
      <4>1. asked' = asked + 1 /\ awaiting' = asked + 1 /\ asked < MaxQuestions
        BY <1>10, <3>2 DEF Ask, Goto, NoReply, End
      <4> QED
        BY <1>10, <4>1 DEF Ask, QuestionOK
    <3> QED
      BY <3>1, <3>2
  <2>4. PersonOK'
    BY <1>10 DEF Ask, PersonOK
  <2>5. HistoryOK'
    BY <1>10 DEF Ask, HistoryOK
  <2> QED
    BY <2>1, <2>2, <2>3, <2>4, <2>5 DEF TypeOK
<1>11. CASE TakeAnswer
  <2>1. TalkOK'
    BY <1>11 DEF TakeAnswer, TalkOK
  <2>2. ReplyOK'
    BY <1>11 DEF TakeAnswer, ReplyOK
  <2>3. QuestionOK'
    <3>1. CASE answers # <<>> /\ answers' = Tail(answers)
                /\ \E key \in Key : chosen' = [to |-> Head(answers), key |-> key]
      <4>1. Head(answers) \in Question /\ answers' \in Seq(Question)
        BY <3>1, HeadTailType
      <4>2. chosen' \in Choice
        BY <3>1, <4>1
      <4> QED
        BY <1>11, <4>1, <4>2 DEF TakeAnswer, QuestionOK
    <3>2. CASE chosen' = [to |-> 0, key |-> "r"] /\ UNCHANGED answers
      BY <1>11, <3>2 DEF TakeAnswer, QuestionOK
    <3> QED
      BY <1>11, <3>1, <3>2 DEF TakeAnswer
  <2>4. PersonOK'
    BY <1>11 DEF TakeAnswer, PersonOK
  <2>5. HistoryOK'
    BY <1>11 DEF TakeAnswer, HistoryOK
  <2> QED
    BY <2>1, <2>2, <2>3, <2>4, <2>5 DEF TypeOK
<1>12. CASE Decide
  <2>1. TalkOK'
    BY <1>12 DEF Decide, TalkOK
  <2>2. ReplyOK'
    BY <1>12 DEF Decide, ReplyOK
  <2>3. QuestionOK'
    BY <1>12 DEF Decide, QuestionOK
  <2>4. PersonOK'
    BY <1>12 DEF Decide, PersonOK
  <2>5. HistoryOK'
    BY <1>12 DEF Decide, HistoryOK
  <2> QED
    BY <2>1, <2>2, <2>3, <2>4, <2>5 DEF TypeOK
<1>13. CASE Execute
  <2>1. TalkOK'
    <3>1. CASE CallFinish
      BY <1>13, <3>1 DEF Execute, CallFinish, talk, question, person, flags, history, client, TalkOK
    <3>2. CASE CallLoad
      BY <1>13, <3>2 DEF Execute, CallLoad, WithSchema, talk, question, person, flags, history,
                         client, TalkOK
    <3>3. CASE CallWork
      BY <1>13, <3>3 DEF Execute, CallWork, talk, question, person, flags, history, client, TalkOK
    <3> QED
      BY <1>13, <3>1, <3>2, <3>3 DEF Execute
  <2>2. ReplyOK'
    <3>1. CASE CallFinish
      BY <1>13, <3>1, TailType DEF Execute, CallFinish, talk, question, person, flags, history,
                                   client, ReplyOK
    <3>2. CASE CallLoad
      BY <1>13, <3>2, TailType DEF Execute, CallLoad, talk, question, person, flags, history,
                                   client, ReplyOK
    <3>3. CASE CallWork
      BY <1>13, <3>3, TailType DEF Execute, CallWork, talk, question, person, flags, history,
                                   client, ReplyOK
    <3> QED
      BY <1>13, <3>1, <3>2, <3>3 DEF Execute
  <2>3. QuestionOK'
    BY <1>13 DEF Execute, CallFinish, CallLoad, CallWork, QuestionOK
  <2>4. PersonOK'
    BY <1>13 DEF Execute, CallFinish, CallLoad, CallWork, PersonOK
  <2>5. HistoryOK'
    BY <1>13 DEF Execute, CallFinish, CallLoad, CallWork, HistoryOK
  <2> QED
    BY <2>1, <2>2, <2>3, <2>4, <2>5 DEF TypeOK
<1>14. CASE CallsDone
  BY <1>14 DEF CallsDone
<1>15. CASE pc # "end" /\ Interrupt
  BY <1>15 DEF Interrupt
<1>16. CASE pc # "end" /\ Pause
  BY <1>16 DEF Pause
<1>17. CASE pc # "end" /\ Resume
  <2>1. TalkOK'
    BY <1>17 DEF Resume, TalkOK
  <2>2. ReplyOK'
    BY <1>17 DEF Resume, ReplyOK
  <2>3. QuestionOK'
    BY <1>17 DEF Resume, QuestionOK
  <2>4. PersonOK'
    BY <1>17 DEF Resume, PersonOK
  <2>5. HistoryOK'
    BY <1>17 DEF Resume, HistoryOK
  <2> QED
    BY <2>1, <2>2, <2>3, <2>4, <2>5 DEF TypeOK
<1>18. CASE pc # "end" /\ ForceNote
  BY <1>18 DEF ForceNote
<1>19. CASE pc # "end" /\ Press
  BY <1>19 DEF Press
<1>20. CASE pc # "end" /\ Confirm
  BY <1>20 DEF Confirm
<1>21. CASE pc # "end" /\ BridgeLooks
  BY <1>21 DEF BridgeLooks
<1>22. CASE pc # "end" /\ BridgeRelays
  <2>1. TalkOK'
    BY <1>22 DEF BridgeRelays, TalkOK
  <2>2. ReplyOK'
    BY <1>22 DEF BridgeRelays, ReplyOK
  <2>3. QuestionOK'
    <3>1. answers' \in Seq(Question)
      <4>1. CASE clicked # 0 /\ seen = "question"
        <5>1. clicked \in Question /\ answers' = Append(answers, clicked)
          BY <1>22, <4>1 DEF BridgeRelays
        <5> QED
          BY <5>1
      <4>2. CASE ~(clicked # 0 /\ seen = "question")
        BY <1>22, <4>2 DEF BridgeRelays
      <4> QED
        BY <4>1, <4>2
    <3>2. seen' = "none" /\ clicked' = 0 /\ UNCHANGED <<awaiting, asked, chosen, pressed>>
      BY <1>22 DEF BridgeRelays
    <3> QED
      BY <3>1, <3>2 DEF QuestionOK
  <2>4. PersonOK'
    BY <1>22 DEF BridgeRelays, PersonOK
  <2>5. HistoryOK'
    BY <1>22 DEF BridgeRelays, HistoryOK
  <2> QED
    BY <2>1, <2>2, <2>3, <2>4, <2>5 DEF TypeOK
<1>23. CASE pc # "end" /\ Click
  BY <1>23 DEF Click
<1>24. CASE Over
  BY <1>24 DEF Over
<1> QED
  BY <1>1, <1>2, <1>3, <1>4, <1>5, <1>6, <1>6a, <1>6b, <1>7, <1>8, <1>9, <1>10,
     <1>11, <1>12, <1>13, <1>14, <1>15, <1>16, <1>17, <1>18, <1>19, <1>20, <1>21,
     <1>22, <1>23, <1>24 DEF Next, Step, Bridge

\* Every step keeps the bounds of its place.
LEMMA PlacesStep == IInv /\ Next => Places'
<1> SUFFICES ASSUME IInv, Next PROVE Places'
  OBVIOUS
<1> USE SizeAssumption, BoundAssumption DEF SizeAssumption, BoundAssumption, IInv,
        TypeOK, TalkOK, ReplyOK, QuestionOK, PersonOK, HistoryOK, Places, Asking,
        Question, Steps, Goto, End, NoReply, vars, talk, reply, notebook, question,
        person, flags, history, client, Sent, conversation
<1>1. CASE Top
  BY <1>1 DEF Top
<1>2. CASE WaitWhilePaused
  BY <1>2 DEF WaitWhilePaused
<1>3. CASE CapReached
  BY <1>3 DEF CapReached, DrainNotes
<1>4. CASE Measure
  BY <1>4 DEF Measure, DrainNotes
<1>5. CASE CheckStop
  BY <1>5 DEF CheckStop
<1>6. CASE Send
  BY <1>6 DEF Send
<1>6a. CASE ClientRetries
  BY <1>6a DEF ClientRetries
<1>6b. CASE SendPlain
  BY <1>6b DEF SendPlain
<1>7. CASE Answered
  BY <1>7 DEF Answered
<1>8. CASE RequestFails
  BY <1>8 DEF RequestFails, Fails
<1>9. CASE Sleep
  BY <1>9 DEF Sleep
<1>10. CASE Ask
  BY <1>10 DEF Ask
<1>11. CASE TakeAnswer
  BY <1>11 DEF TakeAnswer
<1>12. CASE Decide
  BY <1>12 DEF Decide
<1>13. CASE Execute
  BY <1>13 DEF Execute, CallFinish, CallLoad, CallWork
<1>14. CASE CallsDone
  BY <1>14 DEF CallsDone
<1>15. CASE pc # "end" /\ Interrupt
  BY <1>15 DEF Interrupt
<1>16. CASE pc # "end" /\ Pause
  BY <1>16 DEF Pause
<1>17. CASE pc # "end" /\ Resume
  BY <1>17 DEF Resume
<1>18. CASE pc # "end" /\ ForceNote
  BY <1>18 DEF ForceNote
<1>19. CASE pc # "end" /\ Press
  BY <1>19 DEF Press
<1>20. CASE pc # "end" /\ Confirm
  BY <1>20 DEF Confirm
<1>21. CASE pc # "end" /\ BridgeLooks
  BY <1>21 DEF BridgeLooks
<1>22. CASE pc # "end" /\ BridgeRelays
  BY <1>22 DEF BridgeRelays
<1>23. CASE pc # "end" /\ Click
  BY <1>23 DEF Click
<1>24. CASE Over
  BY <1>24 DEF Over
<1> QED
  BY <1>1, <1>2, <1>3, <1>4, <1>5, <1>6, <1>6a, <1>6b, <1>7, <1>8, <1>9, <1>10,
     <1>11, <1>12, <1>13, <1>14, <1>15, <1>16, <1>17, <1>18, <1>19, <1>20, <1>21,
     <1>22, <1>23, <1>24 DEF Next, Step, Bridge

\* No step sends a request a stop should have held back.
LEMMA StopStep == IInv /\ Next => StopInv'
<1> SUFFICES ASSUME IInv, Next PROVE StopInv'
  OBVIOUS
<1> USE SizeAssumption, BoundAssumption DEF SizeAssumption, BoundAssumption, IInv,
        TypeOK, TalkOK, ReplyOK, QuestionOK, PersonOK, HistoryOK, StopInv, Steps,
        RequestsPerMessage,
        Goto, End, NoReply, vars, talk, reply, notebook, question, person, flags,
        history, client, Sent, conversation
<1>1. CASE Top
  BY <1>1 DEF Top
<1>2. CASE WaitWhilePaused
  BY <1>2 DEF WaitWhilePaused
<1>3. CASE CapReached
  BY <1>3 DEF CapReached, DrainNotes
<1>4. CASE Measure
  BY <1>4 DEF Measure, DrainNotes
<1>5. CASE CheckStop
  BY <1>5 DEF CheckStop
<1>6. CASE Send
  BY <1>6 DEF Send
<1>6a. CASE ClientRetries
  BY <1>6a DEF ClientRetries
<1>6b. CASE SendPlain
  BY <1>6b DEF SendPlain
<1>7. CASE Answered
  BY <1>7 DEF Answered
<1>8. CASE RequestFails
  BY <1>8 DEF RequestFails, Fails
<1>9. CASE Sleep
  BY <1>9 DEF Sleep
<1>10. CASE Ask
  BY <1>10 DEF Ask
<1>11. CASE TakeAnswer
  BY <1>11 DEF TakeAnswer
<1>12. CASE Decide
  BY <1>12 DEF Decide
<1>13. CASE Execute
  BY <1>13 DEF Execute, CallFinish, CallLoad, CallWork
<1>14. CASE CallsDone
  BY <1>14 DEF CallsDone
<1>15. CASE pc # "end" /\ Interrupt
  BY <1>15 DEF Interrupt
<1>16. CASE pc # "end" /\ Pause
  BY <1>16 DEF Pause
<1>17. CASE pc # "end" /\ Resume
  BY <1>17 DEF Resume
<1>18. CASE pc # "end" /\ ForceNote
  BY <1>18 DEF ForceNote
<1>19. CASE pc # "end" /\ Press
  BY <1>19 DEF Press
<1>20. CASE pc # "end" /\ Confirm
  BY <1>20 DEF Confirm
<1>21. CASE pc # "end" /\ BridgeLooks
  BY <1>21 DEF BridgeLooks
<1>22. CASE pc # "end" /\ BridgeRelays
  BY <1>22 DEF BridgeRelays
<1>23. CASE pc # "end" /\ Click
  BY <1>23 DEF Click
<1>24. CASE Over
  BY <1>24 DEF Over
<1> QED
  BY <1>1, <1>2, <1>3, <1>4, <1>5, <1>6, <1>6a, <1>6b, <1>7, <1>8, <1>9, <1>10,
     <1>11, <1>12, <1>13, <1>14, <1>15, <1>16, <1>17, <1>18, <1>19, <1>20, <1>21,
     <1>22, <1>23, <1>24 DEF Next, Step, Bridge

\* No step begins a second turn in a pause.
LEMMA PauseStep == IInv /\ Next => PauseInv'
<1> SUFFICES ASSUME IInv, Next PROVE PauseInv'
  OBVIOUS
<1> USE SizeAssumption, BoundAssumption DEF SizeAssumption, BoundAssumption, IInv,
        TypeOK, TalkOK, ReplyOK, QuestionOK, PersonOK, HistoryOK, PauseInv, Steps,
        Goto, End, NoReply, vars, talk, reply, notebook, question, person, flags,
        history, client, Sent, conversation
<1>1. CASE Top
  BY <1>1 DEF Top
<1>2. CASE WaitWhilePaused
  BY <1>2 DEF WaitWhilePaused
<1>3. CASE CapReached
  BY <1>3 DEF CapReached, DrainNotes
<1>4. CASE Measure
  BY <1>4 DEF Measure, DrainNotes
<1>5. CASE CheckStop
  BY <1>5 DEF CheckStop
<1>6. CASE Send
  BY <1>6 DEF Send
<1>6a. CASE ClientRetries
  BY <1>6a DEF ClientRetries
<1>6b. CASE SendPlain
  BY <1>6b DEF SendPlain
<1>7. CASE Answered
  BY <1>7 DEF Answered
<1>8. CASE RequestFails
  BY <1>8 DEF RequestFails, Fails
<1>9. CASE Sleep
  BY <1>9 DEF Sleep
<1>10. CASE Ask
  BY <1>10 DEF Ask
<1>11. CASE TakeAnswer
  BY <1>11 DEF TakeAnswer
<1>12. CASE Decide
  BY <1>12 DEF Decide
<1>13. CASE Execute
  BY <1>13 DEF Execute, CallFinish, CallLoad, CallWork
<1>14. CASE CallsDone
  BY <1>14 DEF CallsDone
<1>15. CASE pc # "end" /\ Interrupt
  BY <1>15 DEF Interrupt
<1>16. CASE pc # "end" /\ Pause
  BY <1>16 DEF Pause
<1>17. CASE pc # "end" /\ Resume
  BY <1>17 DEF Resume
<1>18. CASE pc # "end" /\ ForceNote
  BY <1>18 DEF ForceNote
<1>19. CASE pc # "end" /\ Press
  BY <1>19 DEF Press
<1>20. CASE pc # "end" /\ Confirm
  BY <1>20 DEF Confirm
<1>21. CASE pc # "end" /\ BridgeLooks
  BY <1>21 DEF BridgeLooks
<1>22. CASE pc # "end" /\ BridgeRelays
  BY <1>22 DEF BridgeRelays
<1>23. CASE pc # "end" /\ Click
  BY <1>23 DEF Click
<1>24. CASE Over
  BY <1>24 DEF Over
<1> QED
  BY <1>1, <1>2, <1>3, <1>4, <1>5, <1>6, <1>6a, <1>6b, <1>7, <1>8, <1>9, <1>10,
     <1>11, <1>12, <1>13, <1>14, <1>15, <1>16, <1>17, <1>18, <1>19, <1>20, <1>21,
     <1>22, <1>23, <1>24 DEF Next, Step, Bridge

\* No step gives the run up.
LEMMA EndStep == IInv /\ Next => NeverGivesUp'
<1> SUFFICES ASSUME IInv, Next PROVE NeverGivesUp'
  OBVIOUS
<1> USE SizeAssumption, BoundAssumption DEF SizeAssumption, BoundAssumption, IInv,
        TypeOK, TalkOK, ReplyOK, QuestionOK, PersonOK, HistoryOK, NeverGivesUp,
        Goto, End, NoReply, vars, talk, reply, notebook, question, person, flags,
        history, client, Sent, conversation
<1>1. CASE Top
  BY <1>1 DEF Top
<1>2. CASE WaitWhilePaused
  BY <1>2 DEF WaitWhilePaused
<1>3. CASE CapReached
  BY <1>3 DEF CapReached, DrainNotes
<1>4. CASE Measure
  BY <1>4 DEF Measure, DrainNotes
<1>5. CASE CheckStop
  BY <1>5 DEF CheckStop
<1>6. CASE Send
  BY <1>6 DEF Send
<1>6a. CASE ClientRetries
  BY <1>6a DEF ClientRetries
<1>6b. CASE SendPlain
  BY <1>6b DEF SendPlain
<1>7. CASE Answered
  BY <1>7 DEF Answered
<1>8. CASE RequestFails
  BY <1>8 DEF RequestFails, Fails
<1>9. CASE Sleep
  BY <1>9 DEF Sleep
<1>10. CASE Ask
  BY <1>10 DEF Ask
<1>11. CASE TakeAnswer
  BY <1>11 DEF TakeAnswer
<1>12. CASE Decide
  BY <1>12 DEF Decide
<1>13. CASE Execute
  BY <1>13 DEF Execute, CallFinish, CallLoad, CallWork
<1>14. CASE CallsDone
  BY <1>14 DEF CallsDone
<1>15. CASE pc # "end" /\ Interrupt
  BY <1>15 DEF Interrupt
<1>16. CASE pc # "end" /\ Pause
  BY <1>16 DEF Pause
<1>17. CASE pc # "end" /\ Resume
  BY <1>17 DEF Resume
<1>18. CASE pc # "end" /\ ForceNote
  BY <1>18 DEF ForceNote
<1>19. CASE pc # "end" /\ Press
  BY <1>19 DEF Press
<1>20. CASE pc # "end" /\ Confirm
  BY <1>20 DEF Confirm
<1>21. CASE pc # "end" /\ BridgeLooks
  BY <1>21 DEF BridgeLooks
<1>22. CASE pc # "end" /\ BridgeRelays
  BY <1>22 DEF BridgeRelays
<1>23. CASE pc # "end" /\ Click
  BY <1>23 DEF Click
<1>24. CASE Over
  BY <1>24 DEF Over
<1> QED
  BY <1>1, <1>2, <1>3, <1>4, <1>5, <1>6, <1>6a, <1>6b, <1>7, <1>8, <1>9, <1>10,
     <1>11, <1>12, <1>13, <1>14, <1>15, <1>16, <1>17, <1>18, <1>19, <1>20, <1>21,
     <1>22, <1>23, <1>24 DEF Next, Step, Bridge

\* No step lets a measured request outgrow the budget.
LEMMA SizeStep == IInv /\ Next => SizeInv'
<1> SUFFICES ASSUME IInv, Next PROVE SizeInv'
  OBVIOUS
<1> USE SizeAssumption, BoundAssumption DEF SizeAssumption, BoundAssumption, IInv,
        TypeOK, TalkOK, ReplyOK, QuestionOK, PersonOK, HistoryOK, SizeInv, Asking,
        Size, Goto, End, NoReply, vars, talk, reply, notebook, question, person,
        flags, history, client, Sent, conversation
<1>1. CASE Top
  BY <1>1 DEF Top
<1>2. CASE WaitWhilePaused
  BY <1>2 DEF WaitWhilePaused
<1>3. CASE CapReached
  BY <1>3 DEF CapReached, DrainNotes
<1>4. CASE Measure
  BY <1>4 DEF Measure, DrainNotes
<1>5. CASE CheckStop
  BY <1>5 DEF CheckStop
<1>6. CASE Send
  BY <1>6 DEF Send
<1>6a. CASE ClientRetries
  BY <1>6a DEF ClientRetries
<1>6b. CASE SendPlain
  BY <1>6b DEF SendPlain
<1>7. CASE Answered
  BY <1>7 DEF Answered
<1>8. CASE RequestFails
  BY <1>8 DEF RequestFails, Fails
<1>9. CASE Sleep
  BY <1>9 DEF Sleep
<1>10. CASE Ask
  BY <1>10 DEF Ask
<1>11. CASE TakeAnswer
  BY <1>11 DEF TakeAnswer
<1>12. CASE Decide
  BY <1>12 DEF Decide
<1>13. CASE Execute
  BY <1>13 DEF Execute, CallFinish, CallLoad, CallWork
<1>14. CASE CallsDone
  BY <1>14 DEF CallsDone
<1>15. CASE pc # "end" /\ Interrupt
  BY <1>15 DEF Interrupt
<1>16. CASE pc # "end" /\ Pause
  BY <1>16 DEF Pause
<1>17. CASE pc # "end" /\ Resume
  BY <1>17 DEF Resume
<1>18. CASE pc # "end" /\ ForceNote
  BY <1>18 DEF ForceNote
<1>19. CASE pc # "end" /\ Press
  BY <1>19 DEF Press
<1>20. CASE pc # "end" /\ Confirm
  BY <1>20 DEF Confirm
<1>21. CASE pc # "end" /\ BridgeLooks
  BY <1>21 DEF BridgeLooks
<1>22. CASE pc # "end" /\ BridgeRelays
  BY <1>22 DEF BridgeRelays
<1>23. CASE pc # "end" /\ Click
  BY <1>23 DEF Click
<1>24. CASE Over
  BY <1>24 DEF Over
<1> QED
  BY <1>1, <1>2, <1>3, <1>4, <1>5, <1>6, <1>6a, <1>6b, <1>7, <1>8, <1>9, <1>10,
     <1>11, <1>12, <1>13, <1>14, <1>15, <1>16, <1>17, <1>18, <1>19, <1>20, <1>21,
     <1>22, <1>23, <1>24 DEF Next, Step, Bridge

\* No step gives up an accepted finish.
LEMMA FinishStep == IInv /\ Next => FinishInv'
<1> SUFFICES ASSUME IInv, Next PROVE FinishInv'
  OBVIOUS
<1> USE SizeAssumption, BoundAssumption DEF SizeAssumption, BoundAssumption, IInv,
        TypeOK, TalkOK, ReplyOK, QuestionOK, PersonOK, HistoryOK, FinishInv, Goto,
        End, NoReply, vars, talk, reply, notebook, question, person, flags, history,
        client, Sent, conversation
<1>1. CASE Top
  BY <1>1 DEF Top
<1>2. CASE WaitWhilePaused
  BY <1>2 DEF WaitWhilePaused
<1>3. CASE CapReached
  BY <1>3 DEF CapReached, DrainNotes
<1>4. CASE Measure
  BY <1>4 DEF Measure, DrainNotes
<1>5. CASE CheckStop
  BY <1>5 DEF CheckStop
<1>6. CASE Send
  BY <1>6 DEF Send
<1>6a. CASE ClientRetries
  BY <1>6a DEF ClientRetries
<1>6b. CASE SendPlain
  BY <1>6b DEF SendPlain
<1>7. CASE Answered
  BY <1>7 DEF Answered
<1>8. CASE RequestFails
  BY <1>8 DEF RequestFails, Fails
<1>9. CASE Sleep
  BY <1>9 DEF Sleep
<1>10. CASE Ask
  BY <1>10 DEF Ask
<1>11. CASE TakeAnswer
  BY <1>11 DEF TakeAnswer
<1>12. CASE Decide
  BY <1>12 DEF Decide
<1>13. CASE Execute
  BY <1>13 DEF Execute, CallFinish, CallLoad, CallWork
<1>14. CASE CallsDone
  BY <1>14 DEF CallsDone
<1>15. CASE pc # "end" /\ Interrupt
  BY <1>15 DEF Interrupt
<1>16. CASE pc # "end" /\ Pause
  BY <1>16 DEF Pause
<1>17. CASE pc # "end" /\ Resume
  BY <1>17 DEF Resume
<1>18. CASE pc # "end" /\ ForceNote
  BY <1>18 DEF ForceNote
<1>19. CASE pc # "end" /\ Press
  BY <1>19 DEF Press
<1>20. CASE pc # "end" /\ Confirm
  BY <1>20 DEF Confirm
<1>21. CASE pc # "end" /\ BridgeLooks
  BY <1>21 DEF BridgeLooks
<1>22. CASE pc # "end" /\ BridgeRelays
  BY <1>22 DEF BridgeRelays
<1>23. CASE pc # "end" /\ Click
  BY <1>23 DEF Click
<1>24. CASE Over
  BY <1>24 DEF Over
<1> QED
  BY <1>1, <1>2, <1>3, <1>4, <1>5, <1>6, <1>6a, <1>6b, <1>7, <1>8, <1>9, <1>10,
     <1>11, <1>12, <1>13, <1>14, <1>15, <1>16, <1>17, <1>18, <1>19, <1>20, <1>21,
     <1>22, <1>23, <1>24 DEF Next, Step, Bridge

\* The invariant holds at the start.
LEMMA InitInv == Init => IInv
<1> SUFFICES ASSUME Init PROVE IInv
  OBVIOUS
<1> USE SizeAssumption, BoundAssumption DEF SizeAssumption, BoundAssumption
<1>1. TypeOK
  <2>1. TalkOK
    <3>1. warned \in BOOLEAN /\ turnWarned \in BOOLEAN /\ loaded \in BOOLEAN
      BY Zenon DEF Init
    <3>2. usage \in BOOLEAN
      BY Zenon DEF Init
    <3>3. tries \in 0 .. SdkRetries + 1
      BY DEF Init
    <3>4. /\ turns \in 0 .. TurnCap /\ chat \in Nat /\ told \in Nat /\ attempt \in Nat
          /\ results \in Seq({1, Large})
      BY DEF Init
    <3> QED
      BY <3>1, <3>2, <3>3, <3>4 DEF TalkOK
  <2>2. ReplyOK
    <3>1. pc = "top" /\ calls = <<>> /\ finished = FALSE /\ end = "none"
      BY DEF Init
    <3> QED
      BY <3>1 DEF ReplyOK, Steps, Reply
  <2>3. QuestionOK
    <3>1. seen \in {"none", "nothing", "question"}
      BY DEF Init
    <3>2. /\ asked \in 0 .. MaxQuestions
          /\ awaiting \in 0 .. asked /\ pressed \in 0 .. asked /\ clicked \in 0 .. asked
          /\ answers \in Seq(Question)
      BY DEF Init
    <3>3. chosen \in Choice
      BY DEF Init, NoChoice, Choice, Key
    <3> QED
      BY <3>1, <3>2, <3>3 DEF QuestionOK
  <2>4. PersonOK
    <3>1. stop \in BOOLEAN /\ paused \in BOOLEAN
      BY Zenon DEF Init
    <3>2. pauses \in 0 .. MaxPauses /\ forced \in Nat /\ notes \in 0 .. MaxNotes
      BY DEF Init
    <3> QED
      BY <3>1, <3>2 DEF PersonOK
  <2>5. HistoryOK
    <3>1. excused \in BOOLEAN /\ late \in BOOLEAN /\ nudged \in BOOLEAN
      BY Zenon DEF Init
    <3>2. held \in Nat /\ after \in Nat
      BY DEF Init
    <3> QED
      BY <3>1, <3>2 DEF HistoryOK
  <2> QED
    BY <2>1, <2>2, <2>3, <2>4, <2>5 DEF TypeOK
<1>2. Places /\ StopInv /\ PauseInv /\ NeverGivesUp /\ SizeInv /\ FinishInv
  BY DEF Init, Places, Asking, StopInv, RequestsPerMessage, PauseInv, NeverGivesUp, SizeInv,
         FinishInv
<1> QED
  BY <1>1, <1>2 DEF IInv

\* Every step keeps the invariant.
LEMMA StepInv == IInv /\ [Next]_vars => IInv'
<1> SUFFICES ASSUME IInv, [Next]_vars PROVE IInv'
  OBVIOUS
<1>1. CASE Next
  BY <1>1, TypeStep, PlacesStep, StopStep, PauseStep, EndStep, SizeStep, FinishStep DEF IInv
<1>2. CASE UNCHANGED vars
  BY <1>2 DEF IInv, TypeOK, TalkOK, ReplyOK, QuestionOK, PersonOK, HistoryOK, Places, Asking,
              StopInv, PauseInv, NeverGivesUp, SizeInv, Size, FinishInv, vars
<1> QED
  BY <1>1, <1>2

\* The invariant, for every turn cap, budget, retry limit, and any number of
\* notes, pauses and questions.
THEOREM EpisodeInv == Spec => []IInv
BY InitInv, StepInv, PTL DEF Spec

\* Every variable of the episode, the console and the dashboard keeps its
\* type.
THEOREM TypeCorrect == Spec => []TypeOK
<1>1. IInv => TypeOK
  BY DEF IInv
<1> QED
  BY <1>1, EpisodeInv, PTL

\* After a stop no message is sent but the one that was on its way, from
\* wherever in _call_llm, the pause or the question the stop is seen; and for that
\* one no more requests go out than its client makes by itself.
THEOREM StopHoldsRequests == Spec => []LateRequests
<1>1. IInv => LateRequests
  BY DEF IInv, StopInv, LateRequests
<1> QED
  BY <1>1, EpisodeInv, PTL

\* During a pause at most the turn under way comes to its end.
THEOREM PauseHoldsTurns == Spec => []PausedHolds
<1>1. IInv => PausedHolds
  BY DEF IInv, PauseInv, PausedHolds
<1> QED
  BY <1>1, EpisodeInv, PTL

\* run_episode never ends with "error", and with "stopped" only in a run that
\* was stopped.
THEOREM OnlyStopped == Spec => []NeverGivesUp
<1>1. IInv => NeverGivesUp
  BY DEF IInv
<1> QED
  BY <1>1, EpisodeInv, PTL

\* The requests of a turn fit the budget until a nudge is added to them.
THEOREM RequestsFit == Spec => []MeasuredFits
<1>1. IInv => MeasuredFits
  BY DEF IInv, SizeInv, Asking, MeasuredFits
<1> QED
  BY <1>1, EpisodeInv, PTL

\* An accepted finish is what the episode ends with.
THEOREM FinishEnds == Spec => FinishWins
<1>1. IInv /\ IInv' /\ [Next]_vars => [finished => finished' /\ end' \in {"none", "finish"}]_vars
  <2> SUFFICES ASSUME IInv, IInv', Next, finished
               PROVE  finished' /\ end' \in {"none", "finish"}
    OBVIOUS
  <2>1. finished'
    BY DEF IInv, FinishInv, TypeOK, ReplyOK, Next, Step, Bridge, Top, WaitWhilePaused,
           CapReached, Measure, CheckStop, Send, ClientRetries, SendPlain, Answered,
           RequestFails, Fails, Sleep, Ask,
           TakeAnswer, Decide, Execute, CallFinish, CallLoad, CallWork, CallsDone, Interrupt,
           Pause, Resume, ForceNote, Press, Confirm, BridgeLooks, BridgeRelays, Click, Over,
           Goto, End, NoReply, vars, reply, client, conversation
  <2> QED
    BY <2>1 DEF IInv, FinishInv
<1> QED
  BY <1>1, EpisodeInv, PTL DEF Spec, FinishWins

-----------------------------------------------------------------------------
(* The two readers of a reply.                                             *)

\* The counts are numbers.
CountsTyped ==
  /\ got.reasoning \in Nat /\ got.answer \in Nat
  /\ read.reasoning \in Nat /\ read.streamed \in Nat
  /\ scrubbed \in Nat /\ fragments \in Nat

\* The console counts no more than the collector, and the same while nothing
\* was scrubbed and no tool call begun.
CountsAgree ==
  /\ read.streamed <= got.reasoning + got.answer
  /\ scrubbed + fragments = 0 =>
       /\ read.reasoning = got.reasoning
       /\ read.streamed = got.reasoning + got.answer
       /\ got.answer = 0 => ~read.begun

\* The collector broke off where it had to, and then so does the console.
CutWhereOver ==
  /\ ~cut => ~OverCap(got.reasoning + got.answer, Cap)
  /\ at = "streaming" => ~cut
  /\ cut /\ scrubbed + fragments = 0 => read.over

Told ==
  /\ direct => ~cut /\ at # "collected"
  /\ outcome = "reply" => at = "over" /\ (direct \/ ~read.over)

StreamInv == CountsTyped /\ Told /\ (~direct => CountsAgree /\ CutWhereOver)

\* More characters are not fewer tokens.
LEMMA OverGrows ==
  ASSUME NEW a \in Nat, NEW b \in Nat, NEW cap \in Nat, a <= b, OverCap(a, cap)
  PROVE  OverCap(b, cap)
  BY DEF OverCap

\* The sizes in a chunk.
LEMMA ChunkSizes ==
  ASSUME ChunkSize \subseteq Nat, NEW c \in Chunk
  PROVE  /\ c.reasoning \in Nat /\ c.leakedReasoning \in Nat /\ c.content \in Nat
         /\ c.leakedContent \in Nat /\ c.pieces \in Nat /\ c.arguments \in Nat
         /\ c.leakedReasoning <= c.reasoning /\ c.leakedContent <= c.content
         /\ c.pieces = 0 => c.arguments = 0
         /\ c.reasoning - c.leakedReasoning \in Nat /\ c.content - c.leakedContent \in Nat
<1>1. /\ c.reasoning \in Nat /\ c.leakedReasoning \in Nat /\ c.content \in Nat
      /\ c.leakedContent \in Nat /\ c.pieces \in Nat /\ c.arguments \in Nat
  BY DEF Chunk
<1>2. /\ c.leakedReasoning <= c.reasoning /\ c.leakedContent <= c.content
      /\ c.pieces = 0 => c.arguments = 0
  BY DEF Chunk
<1> QED BY <1>1, <1>2

\* What one chunk does to the counts of both readers.
LEMMA ChunkCounts ==
  ASSUME ChunkSize \subseteq Nat, Cap \in Nat, ReasoningCap \in Nat,
         CountsTyped, NEW c \in Chunk,
         scrubbed' = scrubbed + c.leakedReasoning + c.leakedContent,
         fragments' = fragments + c.pieces,
         read' = Reads(read, c),
         got' = Collects(got, c),
         CountsAgree
  PROVE  /\ CountsAgree'
         /\ scrubbed' + fragments' = 0 /\ Breaks(got') => read'.over
<1>1. /\ c.reasoning \in Nat /\ c.leakedReasoning \in Nat /\ c.content \in Nat
      /\ c.leakedContent \in Nat /\ c.pieces \in Nat /\ c.arguments \in Nat
      /\ c.leakedReasoning <= c.reasoning /\ c.leakedContent <= c.content
      /\ c.pieces = 0 => c.arguments = 0
  BY ChunkSizes
<1> DEFINE thought == c.reasoning - c.leakedReasoning
           said == c.content - c.leakedContent
<1>2. thought \in Nat /\ thought <= c.reasoning /\ said \in Nat /\ said <= c.content
  BY <1>1
<1>3. /\ read'.reasoning = read.reasoning + thought
      /\ read'.streamed = read.streamed + thought + said + c.arguments
      /\ read'.begun = (read.begun \/ said > 0 \/ c.pieces > 0)
      /\ read'.over = (\/ read.over
                       \/ ~read.begun /\ OverCap(read.reasoning + thought, ReasoningCap)
                       \/ OverCap(read.streamed + thought + said + c.arguments, Cap))
  BY DEF Reads
<1>4. /\ got'.reasoning = got.reasoning + c.reasoning
      /\ got'.answer = got.answer + c.content + c.pieces + c.arguments
  BY DEF Collects
<1> USE DEF CountsTyped
<1>5. read'.streamed <= got'.reasoning + got'.answer
  <2> HIDE DEF thought, said
  <2> QED BY <1>1, <1>2, <1>3, <1>4 DEF CountsAgree
<1>6. ASSUME scrubbed' + fragments' = 0
      PROVE  /\ scrubbed + fragments = 0 /\ thought = c.reasoning /\ said = c.content
             /\ c.pieces = 0 /\ c.arguments = 0
  <2>1. scrubbed + c.leakedReasoning + c.leakedContent + (fragments + c.pieces) = 0
    BY <1>6
  <2>2. /\ scrubbed = 0 /\ fragments = 0 /\ c.pieces = 0
        /\ c.leakedReasoning = 0 /\ c.leakedContent = 0
    <3>1. scrubbed \in Nat /\ fragments \in Nat
      OBVIOUS
    <3>2. scrubbed + c.leakedReasoning + c.leakedContent + fragments + c.pieces = 0
      BY <1>1, <2>1, <3>1
    <3> HIDE DEF CountsTyped
    <3> DEFINE s == scrubbed
               f == fragments
               lr == c.leakedReasoning
               lc == c.leakedContent
               p == c.pieces
    <3>3. s \in Nat /\ f \in Nat /\ lr \in Nat /\ lc \in Nat /\ p \in Nat
          /\ s + lr + lc + f + p = 0
      BY <1>1, <3>1, <3>2
    <3> HIDE DEF s, f, lr, lc, p
    <3>4. s = 0 /\ f = 0 /\ lr = 0 /\ lc = 0 /\ p = 0
      BY <3>3
    <3> QED BY <3>4 DEF s, f, lr, lc, p
  <2> QED BY <1>1, <2>2
<1> HIDE DEF thought, said
<1>7. ASSUME scrubbed' + fragments' = 0
      PROVE  /\ read'.reasoning = got'.reasoning
             /\ read'.streamed = got'.reasoning + got'.answer
  <2>1. /\ read.reasoning = got.reasoning
        /\ read.streamed = got.reasoning + got.answer
    BY <1>6, <1>7 DEF CountsAgree
  <2>2. thought = c.reasoning /\ said = c.content /\ c.pieces = 0
    BY <1>6, <1>7
  <2> QED BY <1>1, <1>3, <1>4, <2>1, <2>2
<1>8. ASSUME scrubbed' + fragments' = 0, got'.answer = 0
      PROVE  ~read'.begun /\ ~read.begun
  <2>1. said = 0 /\ c.pieces = 0 /\ got.answer = 0
    <3>1. said = c.content /\ c.pieces = 0
      BY <1>6, <1>8
    <3>2. got.answer + c.content + c.pieces + c.arguments = 0
      BY <1>4, <1>8
    <3> QED BY <1>1, <3>1, <3>2
  <2>2. ~read.begun
    BY <1>6, <1>8, <2>1 DEF CountsAgree
  <2>3. ~(said > 0) /\ ~(c.pieces > 0)
    BY <2>1
  <2> QED BY <1>3, <2>2, <2>3
<1>9. CountsAgree'
  BY <1>5, <1>7, <1>8 DEF CountsAgree
<1>10. ASSUME scrubbed' + fragments' = 0, Breaks(got') PROVE read'.over
  <2>1. CASE OverCap(got'.reasoning + got'.answer, Cap)
    BY <2>1, <1>3, <1>7, <1>10
  <2>2. CASE got'.answer = 0 /\ OverCap(got'.reasoning, ReasoningCap)
    <3>1. ~read.begun
      BY <1>8, <1>10, <2>2
    <3>2. OverCap(read.reasoning + thought, ReasoningCap)
      BY <1>3, <1>7, <1>10, <2>2
    <3> QED BY <1>3, <3>1, <3>2
  <2> QED BY <1>10, <2>1, <2>2 DEF Breaks
<1> QED BY <1>9, <1>10

\* A collected reply is within the cap of a whole reply, and one passed on
\* although the collector broke it off held leaked tokens or tool calls: for
\* any caps and any stream of chunks (parallel_console.py, print_agent_response).
THEOREM RepliesCollected ==
  ASSUME ChunkSize \subseteq Nat, Cap \in Nat, ReasoningCap \in Nat
  PROVE  StreamSpec => [](PassedOnWhole /\ CollectedWithinCap)
<1>1. StreamInit => StreamInv
  <2> SUFFICES ASSUME StreamInit PROVE StreamInv
    OBVIOUS
  <2>1. CountsTyped /\ Told
    BY DEF StreamInit, CountsTyped, Told
  <2>2. CountsAgree
    BY DEF StreamInit, CountsAgree
  <2>3. ~OverCap(0, Cap)
    BY DEF OverCap
  <2>4. CutWhereOver
    BY <2>3 DEF StreamInit, CutWhereOver
  <2> QED BY <2>1, <2>2, <2>4 DEF StreamInv
<1>2. StreamInv /\ [StreamNext]_streamVars => StreamInv'
  <2> SUFFICES ASSUME StreamInv, [StreamNext]_streamVars PROVE StreamInv'
    OBVIOUS
  <2>1. ASSUME NEW c \in Chunk, Receive(c) PROVE StreamInv'
    <3>0. c \in Chunk /\ read' = Reads(read, c)
      BY <2>1 DEF Receive
    <3>1. CountsTyped'
      <4>1. /\ c.reasoning \in Nat /\ c.leakedReasoning \in Nat /\ c.content \in Nat
            /\ c.leakedContent \in Nat /\ c.pieces \in Nat /\ c.arguments \in Nat
            /\ c.reasoning - c.leakedReasoning \in Nat /\ c.content - c.leakedContent \in Nat
        BY ChunkSizes
      <4>2. CountsTyped
        BY DEF StreamInv
      <4>3. /\ read'.reasoning = read.reasoning + (c.reasoning - c.leakedReasoning)
            /\ read'.streamed = read.streamed + (c.reasoning - c.leakedReasoning)
                                 + (c.content - c.leakedContent) + c.arguments
        BY <3>0 DEF Reads
      <4>4. read'.reasoning \in Nat /\ read'.streamed \in Nat
        BY <4>1, <4>2, <4>3 DEF CountsTyped
      <4>5. /\ scrubbed' = scrubbed + c.leakedReasoning + c.leakedContent
            /\ fragments' = fragments + c.pieces
        BY <2>1 DEF Receive
      <4>6. scrubbed' \in Nat /\ fragments' \in Nat
        BY <4>1, <4>2, <4>5 DEF CountsTyped
      <4>7. got' = got \/ got' = Collects(got, c)
        BY <2>1 DEF Receive
      <4>8. CASE got' = Collects(got, c)
        <5>1. /\ got'.reasoning = got.reasoning + c.reasoning
              /\ got'.answer = got.answer + c.content + c.pieces + c.arguments
          BY <4>8 DEF Collects
        <5> QED BY <4>1, <4>2, <4>4, <4>6, <5>1 DEF CountsTyped
      <4> QED BY <4>2, <4>4, <4>6, <4>7, <4>8 DEF CountsTyped
    <3>2. Told'
      BY <2>1 DEF Receive, StreamInv, Told
    <3>3. ASSUME ~direct' PROVE CountsAgree' /\ CutWhereOver'
      <4>1. ~direct /\ got' = Collects(got, c) /\ cut' = Breaks(got')
        BY <2>1, <3>3 DEF Receive
      <4>2. CountsAgree /\ CountsTyped /\ CutWhereOver
        BY <4>1 DEF StreamInv
      <4>3. /\ scrubbed' = scrubbed + c.leakedReasoning + c.leakedContent
            /\ fragments' = fragments + c.pieces
        BY <2>1 DEF Receive
      <4>4. CountsAgree' /\ (scrubbed' + fragments' = 0 /\ Breaks(got') => read'.over)
        BY <4>1, <4>2, <4>3, <3>0, ChunkCounts
      <4>5. at' = "streaming" => ~cut'
        BY <2>1, <4>1 DEF Receive
      <4>6. ~cut' => ~OverCap(got'.reasoning + got'.answer, Cap)
        BY <4>1 DEF Breaks
      <4> QED BY <4>1, <4>4, <4>5, <4>6 DEF CutWhereOver
    <3> QED BY <3>1, <3>2, <3>3 DEF StreamInv
  <2>2. CASE StreamEnds
    BY <2>2 DEF StreamEnds, StreamInv, CountsTyped, Told, CountsAgree, CutWhereOver
  <2>3. CASE BreakOff
    BY <2>3 DEF BreakOff, StreamInv, CountsTyped, Told, CountsAgree, CutWhereOver
  <2>4. CASE Replay
    BY <2>4 DEF Replay, StreamInv, CountsTyped, Told, CountsAgree, CutWhereOver
  <2>5. CASE Stop
    BY <2>5 DEF Stop, StreamInv, CountsTyped, Told, CountsAgree, CutWhereOver
  <2>6. CASE UNCHANGED streamVars
    BY <2>6 DEF streamVars, StreamInv, CountsTyped, Told, CountsAgree, CutWhereOver
  <2> QED BY <2>1, <2>2, <2>3, <2>4, <2>5, <2>6 DEF StreamNext
<1>3. StreamInv => PassedOnWhole /\ CollectedWithinCap
  <2> SUFFICES ASSUME StreamInv PROVE PassedOnWhole /\ CollectedWithinCap
    OBVIOUS
  <2>1. PassedOnWhole
    <3>1. ASSUME outcome = "reply", cut PROVE scrubbed + fragments > 0
      <4>1. ~direct /\ ~read.over
        BY <3>1 DEF StreamInv, Told
      <4>2. scrubbed + fragments # 0
        BY <3>1, <4>1 DEF StreamInv, CutWhereOver
      <4> QED BY <4>2 DEF StreamInv, CountsTyped
    <3> QED BY <3>1 DEF PassedOnWhole
  <2>2. CollectedWithinCap
    <3>1. ASSUME at = "collected", ~cut, OverCap(read.streamed, Cap) PROVE FALSE
      <4>1. ~direct
        BY <3>1 DEF StreamInv, Told
      <4>2. /\ read.streamed <= got.reasoning + got.answer
            /\ ~OverCap(got.reasoning + got.answer, Cap)
        BY <3>1, <4>1 DEF StreamInv, CountsAgree, CutWhereOver
      <4>3. read.streamed \in Nat /\ got.reasoning + got.answer \in Nat
        BY DEF StreamInv, CountsTyped
      <4> QED BY <3>1, <4>2, <4>3, OverGrows
    <3> QED BY <3>1 DEF CollectedWithinCap
  <2> QED BY <2>1, <2>2
<1> QED BY <1>1, <1>2, <1>3, PTL DEF StreamSpec
=============================================================================
