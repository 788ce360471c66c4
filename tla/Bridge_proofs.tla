---------------------------- MODULE Bridge_proofs ----------------------------
(***************************************************************************)
(* What holds of the clicks and answers that reach the console from the    *)
(* dashboard, the fleet server and the terminal, for every number of       *)
(* sessions, questions and messages: each is acted on at most once, an old *)
(* answer file isn't read, and an answer meets its question.               *)
(***************************************************************************)
EXTENDS Bridge, TLAPS

---------------------------------------------------------------------------
(* Where a message is.  The file and what was read of it are one place:    *)
(* acting on a message empties both, or the message is kept.               *)

Is(m, i) == m # Nothing /\ m.id = i
InFile(i) == Is(mail, i) \/ Is(bridge.read, i)
KeptId(i) == \E m \in kept : m.id = i
OnWire(i) == \E s \in Session : \E k \in DOMAIN wire[s] : wire[s][k].id = i

\* Messages on their way were sent and, but for those that were kept, not acted
\* on, and each is in one place.
Messages ==
  /\ \A i \in Id : InFile(i) => i <= sent /\ (delivered[i] = 0 \/ KeptId(i)) /\ ~ OnWire(i)
  /\ \A i \in Id : OnWire(i) => i <= sent /\ delivered[i] = 0
  /\ \A s, t \in Session : \A k \in DOMAIN wire[s], l \in DOMAIN wire[t] :
       wire[s][k].id = wire[t][l].id => s = t /\ k = l
  /\ \A i \in Id : i > sent => delivered[i] = 0

\* While the bridge's thread is there, the answer file is of its session, or
\* could not be removed.
Fresh ==
  /\ bridge.at # "off" /\ mail # Nothing => mail.session = opened \/ mail \in kept
  /\ bridge.at = "relay" <=> bridge.read # Nothing

---------------------------------------------------------------------------
(* Where the answers to a question are.                                    *)

FileHas(q) == About(mail, q) \/ About(bridge.read, q)
WireHas(q) == \E s \in Session : \E k \in DOMAIN wire[s] : About(wire[s][k], q)
LineHas(q) == entered = <<q>>
QueueHas(q) == \E k \in DOMAIN answers : answers[k] = q
Out(q) == FileHas(q) \/ WireHas(q) \/ LineHas(q) \/ QueueHas(q)

\* One answer to it is on its way, or none.
OneOut(q) ==
  /\ FileHas(q) => ~ WireHas(q) /\ ~ LineHas(q) /\ ~ QueueHas(q)
  /\ WireHas(q) => ~ LineHas(q) /\ ~ QueueHas(q)
  /\ LineHas(q) => ~ QueueHas(q)
  /\ \A s, t \in Session : \A k \in DOMAIN wire[s], l \in DOMAIN wire[t] :
       About(wire[s][k], q) /\ About(wire[t][l], q) => s = t /\ k = l
  /\ \A k, l \in DOMAIN answers : answers[k] = q /\ answers[l] = q => k = l

\* What is shown and answered was asked.
Questions ==
  /\ awaiting \in {0, asked} /\ before <= asked
  /\ \A q \in {0} \cup Question : Out(q) => q \in 1 .. asked
  /\ page # Nothing => page.awaiting <= asked
  /\ status # Nothing => status.awaiting <= asked

\* The answers given to a question of this process: none, one, or again.
Counted ==
  \A q \in Question : q > before =>
    /\ given[q] = 0 => ~ Out(q)
    /\ Again(q) \/ OneOut(q)

\* An answer too many strayed, and q's may be one question late.
Late(q) == \E r \in strayed \cap Question : r <= q /\ (Again(r) \/ r <= before)

\* A question of this process that is no longer on screen took its answer,
\* was answered twice, or is late; or a stop ended it, the last one then.
Settled ==
  \A q \in Question : before < q /\ q <= asked /\ q # awaiting =>
    \/ Again(q)
    \/ given[q] = 1 /\ ~ Out(q)
    \/ Late(q)
    \/ stop /\ awaiting = 0

BridgeInv ==
  /\ TypeOK /\ Messages /\ Fresh /\ LeftoversIgnored /\ ActedOnce
  /\ Questions /\ Counted /\ Settled /\ AnswersMeet

---------------------------------------------------------------------------
(* The types.                                                              *)

LEMMA Bounds ==
  /\ MaxSessions \in Nat /\ MaxQuestions \in Nat /\ MaxSent \in Nat
  /\ 0 \in 0 .. MaxSessions /\ 0 \in 0 .. MaxQuestions /\ 0 \in 0 .. MaxSent
  /\ \A n \in 0 .. MaxQuestions : n \in {0} \cup Question
  /\ \A n \in 0 .. MaxSessions : n \in {0} \cup Session
BY BridgeAssumption DEF Question, Session

\* What a page or the fleet server sends is a message.
LEMMA SentIsMessage ==
  ASSUME TypeOK, sent < MaxSent,
         NEW kind \in {"answer", "queue", "pause", "resume", "stop"},
         NEW about \in {0} \cup Question
  PROVE  /\ Sent(kind, about) \in Message /\ Sent(kind, about).kind = kind
         /\ Sent(kind, about).id = sent + 1 /\ Sent(kind, about).about = about
         /\ Sent(kind, about).session = opened
<1>1. sent + 1 \in Id /\ opened \in {0} \cup Session
  BY Bounds DEF TypeOK, Id
<1> QED
  BY <1>1 DEF Sent, Message

\* What a page offers is about the question it shows.
LEMMA OfferedIsMessage ==
  ASSUME TypeOK, sent < MaxSent, NEW m \in Offered(page)
  PROVE  /\ page # Nothing /\ m \in Message /\ m.id = sent + 1 /\ m.session = opened
         /\ m.kind = "answer" => m.about = page.awaiting /\ m.about # 0
<1>1. page # Nothing
  BY DEF Offered
<1>2. page \in Snapshot
  BY <1>1 DEF TypeOK
<1>3. page.awaiting \in {0} \cup Question
  BY <1>2 DEF Snapshot
<1>4. \/ page.awaiting # 0 /\ m = Sent("answer", page.awaiting)
      \/ \E kind \in {"queue", "resume", "pause"} : m = Sent(kind, 0)
  BY <1>1 DEF Offered
<1>5. CASE page.awaiting # 0 /\ m = Sent("answer", page.awaiting)
  <2>1. m \in Message /\ m.id = sent + 1 /\ m.session = opened /\ m.about = page.awaiting
    BY <1>3, <1>5, SentIsMessage
  <2> QED
    BY <1>1, <1>5, <2>1
<1>6. CASE \E kind \in {"queue", "resume", "pause"} : m = Sent(kind, 0)
  <2>1. PICK kind \in {"queue", "resume", "pause"} : m = Sent(kind, 0)
    BY <1>6
  <2>2. m \in Message /\ m.kind = kind /\ m.id = sent + 1 /\ m.session = opened
    BY <2>1, SentIsMessage
  <2> QED
    BY <1>1, <2>2
<1> QED
  BY <1>4, <1>5, <1>6

\* An answer counts for its question.
LEMMA GivenTyped ==
  ASSUME TypeOK, NEW m \in Message, m.kind = "answer" => m.about # 0, Given(m)
  PROVE  given' \in [Question -> Nat]
<1>1. m.kind = "answer" => m.about \in Question
  BY DEF Message
<1>2. given \in [Question -> Nat]
  BY DEF TypeOK
<1>3. CASE m.kind = "answer"
  <2>1. given' = [given EXCEPT ![m.about] = given[m.about] + 1] /\ given[m.about] + 1 \in Nat
    BY <1>1, <1>2, <1>3 DEF Given
  <2> QED
    BY <1>2, <2>1
<1>4. CASE m.kind # "answer"
  BY <1>2, <1>4 DEF Given
<1> QED
  BY <1>3, <1>4

LEMMA DeliverTyped ==
  ASSUME TypeOK, NEW m \in Message, Deliver(m)
  PROVE  /\ answers' \in Seq({0} \cup Question) /\ paused' \in BOOLEAN /\ stop' \in BOOLEAN
         /\ delivered' \in [Id -> Nat]
         /\ UNCHANGED <<awaiting, before, given, strayed>>
<1>1. m.id \in Id /\ m.about \in {0} \cup Question
  BY DEF Message
<1>2. answers' \in Seq({0} \cup Question)
  BY <1>1 DEF Deliver, TypeOK
<1>3. delivered' \in [Id -> Nat]
  BY <1>1 DEF Deliver, TypeOK
<1>4. paused' \in BOOLEAN
  <2>1. CASE m.kind \in {"pause", "resume"}
    BY <2>1 DEF Deliver
  <2>2. CASE m.kind \notin {"pause", "resume"}
    BY <2>2 DEF Deliver, TypeOK
  <2> QED
    BY <2>1, <2>2
<1>5. stop' \in BOOLEAN
  BY DEF Deliver
<1> QED
  BY <1>2, <1>3, <1>4, <1>5 DEF Deliver

\* A file that should be removed is gone, or is one of those that were not.
LEMMA RemovalTyped ==
  ASSUME TypeOK, Removed(Nothing) \/ Undeleted
  PROVE  /\ mail' \in {mail, Nothing} /\ mail' \in Message \cup {Nothing}
         /\ kept \subseteq kept' /\ kept' \subseteq Message
         /\ mail' # Nothing => mail' \in kept'
         /\ sent' \in {sent, sent + 1} /\ sent' \in 0 .. MaxSent
<1>1. CASE Removed(Nothing)
  BY <1>1 DEF Removed, TypeOK
<1>2. CASE Undeleted
  <2>1. sent' = sent + 1 /\ sent' \in 0 .. MaxSent
    BY <1>2, Bounds DEF Undeleted, TypeOK
  <2>2. mail' = mail /\ mail \in Message /\ kept' = kept \cup {mail} /\ kept \subseteq Message
    BY <1>2 DEF Undeleted, TypeOK
  <2> QED
    BY <2>1, <2>2
<1> QED
  BY <1>1, <1>2

LEMMA TypeKept ==
  ASSUME TypeOK, Fresh, [Next]_vars
  PROVE  TypeOK'
<1> USE Bounds
<1>1. CASE Ask
  BY <1>1 DEF Ask, TypeOK, dashboard, file, fleet, history
<1>2. CASE TakeAnswer
  <2>1. answers \in Seq({0} \cup Question) /\ answers # <<>>
    BY <1>2 DEF TakeAnswer, TypeOK
  <2>2. Head(answers) \in {0} \cup Question /\ Tail(answers) \in Seq({0} \cup Question)
    BY <2>1
  <2>3. strayed' \subseteq {0} \cup Question /\ awaiting' \in {0} \cup Question
    BY <1>2, <2>2 DEF TakeAnswer, TypeOK
  <2>4. answers' \in Seq({0} \cup Question)
    BY <1>2, <2>2 DEF TakeAnswer
  <2> QED
    BY <1>2, <2>3, <2>4 DEF TakeAnswer, TypeOK, dashboard, file, fleet, counters
<1>3. CASE StopAsking
  BY <1>3 DEF StopAsking, TypeOK, dashboard, file, fleet, counters, history
<1>4. CASE OpenSession
  <2>1. opened + 1 \in Session /\ opened + 1 \in 0 .. MaxSessions
    BY <1>4 DEF OpenSession, TypeOK, Session
  <2>2. /\ mail' \in Message \cup {Nothing} /\ kept' \subseteq Message
        /\ sent' \in 0 .. MaxSent
    BY <1>4, RemovalTyped DEF OpenSession, AtStart
  <2> QED
    BY <1>4, <2>1, <2>2 DEF OpenSession, Move, NoBridge, TypeOK, console, history
<1>5. CASE Hold \/ GoOn \/ NeverOpened
  BY <1>5 DEF Hold, GoOn, NeverOpened, Move, TypeOK, console, dashboard, file, fleet, counters,
              history
<1>6. CASE EndSession
  BY <1>6 DEF EndSession, Move, TypeOK, console, dashboard, file, fleet, counters, history
<1>7. CASE CloseSession
  <2>1. <<>> \in Seq(Message)
    OBVIOUS
  <2>2. worker' \in {"open", "run", "held", "close", "over"}
    BY <1>7 DEF CloseSession
  <2>3. wire' \in [Session -> Seq(Message)] /\ reporter' \in [Session -> {"off", "on", "left"}]
    <3>1. wire' = wire \/ wire' = [wire EXCEPT ![opened] = <<>>]
      BY <1>7 DEF CloseSession
    <3>2. \E w \in {"left", "off"} : reporter' = [reporter EXCEPT ![opened] = w]
      BY <1>7 DEF CloseSession
    <3>3. wire' \in [Session -> Seq(Message)]
      BY <2>1, <3>1 DEF TypeOK
    <3> QED
      BY <3>2, <3>3 DEF TypeOK
  <2>4. /\ status' \in {status, Nothing} /\ mail' \in {mail, Nothing}
        /\ UNCHANGED <<console, bridge, page, kept, entered, counters, history>>
    BY <1>7 DEF CloseSession
  <2> QED
    BY <2>2, <2>3, <2>4 DEF TypeOK, console, counters, history
<1>8. CASE NewProcess
  <2>1. <<>> \in Seq(Message) /\ <<>> \in Seq({0} \cup Question)
    OBVIOUS
  <2>2. wire' \in [Session -> Seq(Message)]
    BY <1>8, <2>1 DEF NewProcess
  <2> QED
    BY <1>8, <2>1, <2>2 DEF NewProcess, NoBridge, TypeOK, dashboard, file, counters
<1>9. CASE Render
  BY <1>9 DEF Render, TypeOK, console, file, fleet, counters, history
<1>10. CASE Click
  <2>1. PICK m \in Offered(page) : mail' = m /\ Given(m)
    BY <1>10 DEF Click
  <2>2. m \in Message
    BY <1>10, <2>1, OfferedIsMessage DEF Click
  <2>3. given' \in [Question -> Nat]
    BY <1>10, <2>1, <2>2, OfferedIsMessage, GivenTyped DEF Click
  <2>4. sent' \in 0 .. MaxSent
    BY <1>10 DEF Click, TypeOK
  <2> QED
    BY <1>10, <2>1, <2>2, <2>3, <2>4 DEF Click, TypeOK, console, fleet
<1>11. CASE Enter
  <2>1. sent' \in 0 .. MaxSent
    BY <1>11 DEF Enter, TypeOK
  <2>2. given' \in [Question -> Nat]
    <3>1. \A q \in Question : given[q] \in Nat /\ given[q] + 1 \in Nat
      BY DEF TypeOK
    <3> QED
      BY <1>11, <3>1 DEF Enter
  <2> QED
    BY <1>11, <2>1, <2>2 DEF Enter, TypeOK, console, dashboard, file, fleet
<1>12. CASE PutEntered
  <2>1. entered \in Seq({0} \cup Question)
    <3>1. entered = <<>> \/ \E q \in {0} \cup Question : entered = <<q>>
      BY DEF TypeOK
    <3>2. ASSUME NEW q \in {0} \cup Question PROVE <<q>> \in Seq({0} \cup Question)
      OBVIOUS
    <3>3. <<>> \in Seq({0} \cup Question)
      OBVIOUS
    <3> QED
      BY <3>1, <3>2, <3>3, Zenon
  <2>2. answers \in Seq({0} \cup Question)
    BY DEF TypeOK
  <2>3. answers \o entered \in Seq({0} \cup Question)
    BY <2>1, <2>2
  <2> QED
    BY <1>12, <2>3 DEF PutEntered, TypeOK, dashboard, file, fleet, counters, history
<1>13. CASE TogglePause \/ RequestStop
  <2>1. CASE TogglePause
    <3>1. sent' \in 0 .. MaxSent
      BY <2>1 DEF TogglePause, TypeOK
    <3> QED
      BY <2>1, <3>1 DEF TogglePause, TypeOK, dashboard, file, fleet, history
  <2>2. CASE RequestStop
    BY <2>2 DEF RequestStop, TypeOK, dashboard, file, fleet, counters, history
  <2> QED
    BY <1>13, <2>1, <2>2
<1>14. CASE Tick
  <2>1. Now \in Snapshot
    BY DEF Now, Snapshot, TypeOK
  <2>2. bridge' \in [at : {"off", "tick", "read", "relay"}, stopped : BOOLEAN, asking : BOOLEAN,
                     read : Message \cup {Nothing}]
    <3>1. bridge \in [at : {"off", "tick", "read", "relay"}, stopped : BOOLEAN, asking : BOOLEAN,
                      read : Message \cup {Nothing}]
      BY DEF TypeOK
    <3>2. CASE bridge.stopped
      <4>1. bridge' = NoBridge
        BY <1>14, <3>2 DEF Tick
      <4>2. NoBridge \in [at : {"off", "tick", "read", "relay"}, stopped : BOOLEAN,
                          asking : BOOLEAN, read : Message \cup {Nothing}]
        BY DEF NoBridge
      <4> QED
        BY <4>1, <4>2
    <3>3. CASE ~ bridge.stopped
      <4>1. bridge' = [bridge EXCEPT !.at = "read", !.asking = awaiting # 0]
        BY <1>14, <3>3 DEF Tick
      <4> QED
        BY <3>1, <4>1
    <3> QED
      BY <3>2, <3>3
  <2>3. status' \in Snapshot \cup {Nothing}
    BY <1>14, <2>1 DEF Tick, TypeOK
  <2> QED
    BY <1>14, <2>2, <2>3 DEF Tick, TypeOK, console, file, fleet, counters, history
<1>15. CASE ReadAnswer
  <2>1. bridge' \in [at : {"off", "tick", "read", "relay"}, stopped : BOOLEAN, asking : BOOLEAN,
                     read : Message \cup {Nothing}]
    <3>1. (mail # Nothing /\ bridge.asking) \in BOOLEAN
      BY DEF TypeOK
    <3> QED
      BY <1>15, <3>1 DEF ReadAnswer, TypeOK
  <2> QED
    BY <1>15, <2>1 DEF ReadAnswer, TypeOK, console, dashboard, file, fleet, counters, history
<1>16. CASE RelayAnswer
  <2> DEFINE m == bridge.read
  <2>1. m \in Message
    BY <1>16 DEF RelayAnswer, Fresh, TypeOK
  <2>5. /\ mail' \in Message \cup {Nothing} /\ kept' \subseteq Message
        /\ sent' \in 0 .. MaxSent
    BY <1>16, RemovalTyped DEF RelayAnswer, AfterReading
  <2>2. bridge' \in [at : {"off", "tick", "read", "relay"}, stopped : BOOLEAN, asking : BOOLEAN,
                     read : Message \cup {Nothing}]
    BY <1>16 DEF RelayAnswer, TypeOK
  <2>3. UNCHANGED <<console, history>> \/ Deliver(m)
    BY <1>16 DEF RelayAnswer
  <2>4. /\ answers' \in Seq({0} \cup Question) /\ paused' \in BOOLEAN /\ stop' \in BOOLEAN
        /\ delivered' \in [Id -> Nat]
        /\ UNCHANGED <<awaiting, before, given, strayed>>
    BY <2>1, <2>3, DeliverTyped DEF console, history, TypeOK
  <2> QED
    BY <1>16, <2>1, <2>2, <2>4, <2>5 DEF RelayAnswer, TypeOK, fleet
<1>17. ASSUME NEW s \in Session, ClickFleet(s)
       PROVE  TypeOK'
  <2>1. PICK m \in {Sent(kind, 0) : kind \in {"pause", "resume", "stop"}}
                     \cup {Sent("answer", q) : q \in 1 .. asked} :
          wire' = [wire EXCEPT ![s] = Append(@, m)] /\ Given(m)
    BY <1>17 DEF ClickFleet
  <2>2. 1 .. asked \subseteq Question /\ sent < MaxSent
    BY <1>17 DEF ClickFleet, TypeOK, Question
  <2>3. m \in Message
    BY <2>1, <2>2, SentIsMessage
  <2>4. Append(wire[s], m) \in Seq(Message)
    BY <2>3 DEF TypeOK
  <2>5. wire' \in [Session -> Seq(Message)]
    BY <2>1, <2>4 DEF TypeOK
  <2>6. given' \in [Question -> Nat]
    <3>1. m.kind = "answer" => m.about # 0
      BY <2>1, <2>2, SentIsMessage DEF Question
    <3> QED
      BY <2>1, <2>3, <3>1, GivenTyped
  <2>7. sent' \in 0 .. MaxSent
    BY <1>17 DEF ClickFleet, TypeOK
  <2> QED
    BY <1>17, <2>5, <2>6, <2>7 DEF ClickFleet, TypeOK, console, dashboard, file
<1>18. ASSUME NEW s \in Session, Drop(s)
       PROVE  TypeOK'
  <2>1. <<>> \in Seq(Message)
    OBVIOUS
  <2> QED
    BY <1>18, <2>1 DEF Drop, TypeOK, console, dashboard, file, counters, history
<1>19. ASSUME NEW s \in Session, DispatchControl(s)
       PROVE  TypeOK'
  <2>1. Head(wire[s]) \in Message /\ Tail(wire[s]) \in Seq(Message)
    BY <1>19 DEF DispatchControl, TypeOK
  <2>2. wire' \in [Session -> Seq(Message)]
    BY <1>19, <2>1 DEF DispatchControl, TypeOK
  <2>3. Deliver(Head(wire[s]))
    BY <1>19 DEF DispatchControl
  <2>4. /\ answers' \in Seq({0} \cup Question) /\ paused' \in BOOLEAN /\ stop' \in BOOLEAN
        /\ delivered' \in [Id -> Nat]
        /\ UNCHANGED <<awaiting, before, given, strayed>>
    BY <2>1, <2>3, DeliverTyped
  <2> QED
    BY <1>19, <2>2, <2>4 DEF DispatchControl, TypeOK, dashboard, file, counters
<1>20. CASE UNCHANGED vars
  BY <1>20 DEF vars, TypeOK, console, dashboard, file, fleet, counters, history
<1> QED
  BY <1>1, <1>2, <1>3, <1>4, <1>5, <1>6, <1>7, <1>8, <1>9, <1>10, <1>11, <1>12, <1>13, <1>14,
     <1>15, <1>16, <1>17, <1>18, <1>19, <1>20 DEF Next, Work
---------------------------------------------------------------------------
(* The answer file is of the session that reads it.                        *)

\* A tick ends the bridge's thread, or leaves what was read as it is.
LEMMA TickReads ==
  ASSUME TypeOK, Tick
  PROVE  /\ bridge' = NoBridge \/ (bridge'.at = "read" /\ bridge'.read = bridge.read)
         /\ status' \in {status, Now}
<1>1. CASE bridge.stopped
  BY <1>1 DEF Tick
<1>2. CASE ~ bridge.stopped
  <2>1. /\ bridge' = [bridge EXCEPT !.at = "read", !.asking = awaiting # 0]
        /\ status' = Now
    BY <1>2 DEF Tick
  <2>2. bridge \in [at : {"off", "tick", "read", "relay"}, stopped : BOOLEAN, asking : BOOLEAN,
                    read : Message \cup {Nothing}]
    BY DEF TypeOK
  <2> QED
    BY <2>1, <2>2
<1> QED
  BY <1>1, <1>2

LEMMA FreshKept ==
  ASSUME BridgeInv, TypeOK', [Next]_vars
  PROVE  Fresh' /\ LeftoversIgnored'
<1> USE DEF BridgeInv, Fresh, LeftoversIgnored
<1>1. CASE Work \/ NewProcess
  <2>1. CASE Ask \/ TakeAnswer \/ StopAsking \/ Hold \/ GoOn \/ NeverOpened
    BY <2>1 DEF Ask, TakeAnswer, StopAsking, Hold, GoOn, NeverOpened, dashboard, file, counters
  <2>2. CASE OpenSession
    <3>1. mail' # Nothing => mail' \in kept'
      BY <2>2, RemovalTyped DEF OpenSession, AtStart
    <3>2. bridge'.at = "tick" /\ bridge'.read = Nothing
      BY <2>2 DEF OpenSession, NoBridge
    <3> QED
      BY <3>1, <3>2
  <2>3. CASE EndSession
    BY <2>3 DEF EndSession, TypeOK, dashboard, file, counters
  <2>4. CASE CloseSession
    BY <2>4 DEF CloseSession, counters
  <2>5. CASE NewProcess
    BY <2>5 DEF NewProcess, NoBridge, counters
  <2> QED
    BY <1>1, <2>1, <2>2, <2>3, <2>4, <2>5 DEF Work
<1>2. CASE Tick
  <2>1. /\ mail' = mail /\ kept' = kept /\ opened' = opened
        /\ bridge.at = "tick" /\ bridge.read = Nothing
    BY <1>2 DEF Tick, file, counters
  <2>2. bridge' = NoBridge \/ (bridge'.at = "read" /\ bridge'.read = Nothing)
    BY <1>2, <2>1, TickReads
  <2> QED
    BY <2>1, <2>2 DEF NoBridge
<1>3. CASE ReadAnswer
  <2>1. /\ bridge.at = "read" /\ mail' = mail /\ kept' = kept /\ opened' = opened
        /\ bridge'.read = mail
        /\ bridge'.at = IF mail = Nothing THEN "tick" ELSE "relay"
    BY <1>3 DEF ReadAnswer, TypeOK, dashboard, file, counters
  <2> QED
    BY <2>1
<1>4. CASE RelayAnswer
  <2>1. opened' = opened /\ bridge'.at = "tick" /\ bridge'.read = Nothing
    BY <1>4 DEF RelayAnswer, TypeOK
  <2>2. mail' # Nothing => mail' \in kept'
    BY <1>4, RemovalTyped DEF RelayAnswer, AfterReading
  <2> QED
    BY <2>1, <2>2
<1>5. CASE Click
  <2>1. PICK m \in Offered(page) : mail' = m
    BY <1>5 DEF Click
  <2>2. m.session = opened
    BY <1>5, <2>1, OfferedIsMessage DEF Click
  <2>3. bridge' = bridge /\ opened' = opened /\ kept' = kept
    BY <1>5 DEF Click
  <2> QED
    BY <2>1, <2>2, <2>3
<1>6. CASE Render \/ Enter \/ PutEntered \/ TogglePause \/ RequestStop
  BY <1>6 DEF Render, Enter, PutEntered, TogglePause, RequestStop, dashboard, file, counters
<1>7. ASSUME NEW s \in Session, ClickFleet(s) \/ Drop(s) \/ DispatchControl(s)
      PROVE  Fresh' /\ LeftoversIgnored'
  BY <1>7 DEF ClickFleet, Drop, DispatchControl, dashboard, file, counters
<1>8. CASE UNCHANGED vars
  BY <1>8 DEF vars, dashboard, file, counters
<1> QED
  BY <1>1, <1>2, <1>3, <1>4, <1>5, <1>6, <1>7, <1>8 DEF Next

---------------------------------------------------------------------------
(* Steps that give no answer and act on none.                              *)

Quiet ==
  /\ UNCHANGED <<answers, entered, asked, before, given, strayed, delivered>>
  /\ sent' \in {sent, sent + 1} /\ kept \subseteq kept'
  /\ awaiting' = awaiting \/ (awaiting' = 0 /\ stop')
  /\ stop => stop'
  /\ mail' \in {mail, Nothing} /\ bridge'.read \in {bridge.read, mail, Nothing}
  /\ \A s \in Session : wire'[s] \in {wire[s], <<>>}
  /\ page' \in {page, status} /\ status' \in {status, Now, Nothing}

\* Nothing is no message.
LEMMA NothingIs ==
  \A q : ~ About(Nothing, q) /\ ~ Is(Nothing, q)
BY DEF About, Is, Nothing

\* What is on its way was on its way.
LEMMA QuietPlaces ==
  ASSUME Quiet, NEW q
  PROVE  /\ FileHas(q)' => FileHas(q)
         /\ WireHas(q)' => WireHas(q)
         /\ LineHas(q)' <=> LineHas(q)
         /\ QueueHas(q)' <=> QueueHas(q)
         /\ Out(q)' => Out(q)
         /\ OneOut(q) => OneOut(q)'
         /\ InFile(q)' => InFile(q)
         /\ OnWire(q)' => OnWire(q)
<1>1. FileHas(q)' => FileHas(q)
  BY NothingIs DEF Quiet, FileHas, About
<1>2. InFile(q)' => InFile(q)
  BY NothingIs DEF Quiet, InFile, Is
<1>3. ASSUME NEW s \in Session, NEW k \in DOMAIN wire'[s]
      PROVE  k \in DOMAIN wire[s] /\ wire'[s][k] = wire[s][k]
  <2>1. wire'[s] = wire[s] \/ wire'[s] = <<>>
    BY DEF Quiet
  <2> QED
    BY <2>1, <1>3
<1>4. WireHas(q)' => WireHas(q)
  BY <1>3 DEF WireHas, About
<1>5. OnWire(q)' => OnWire(q)
  BY <1>3 DEF OnWire
<1>6. (LineHas(q)' <=> LineHas(q)) /\ (QueueHas(q)' <=> QueueHas(q))
  BY DEF Quiet, LineHas, QueueHas
<1>7. Out(q)' => Out(q)
  BY <1>1, <1>4, <1>6 DEF Out
<1>8. ASSUME OneOut(q)
      PROVE  OneOut(q)'
  <2>1. \A k, l \in DOMAIN answers' : answers'[k] = q /\ answers'[l] = q => k = l
    BY <1>8 DEF Quiet, OneOut
  <2>2. \A s, t \in Session : \A k \in DOMAIN wire'[s], l \in DOMAIN wire'[t] :
          (About(wire[s][k], q))' /\ (About(wire[t][l], q))' => s = t /\ k = l
    BY <1>3, <1>8 DEF OneOut, About
  <2> QED
    BY <1>1, <1>4, <1>6, <1>8, <2>1, <2>2 DEF OneOut
<1> QED
  BY <1>1, <1>2, <1>4, <1>5, <1>6, <1>7, <1>8

\* What came again has come again for good.
LEMMA AgainStays ==
  ASSUME kept \subseteq kept', NEW q \in Question,
         given'[q] >= given[q], given[q] \in Nat, given'[q] \in Nat, Again(q)
  PROVE  Again(q)'
BY DEF Again

\* Nothing that was late is in time again.
LEMMA LateStays ==
  ASSUME TypeOK, UNCHANGED before, strayed \subseteq strayed', kept \subseteq kept',
         \A r \in Question : given'[r] >= given[r] /\ given'[r] \in Nat, NEW q, Late(q)
  PROVE  Late(q)'
<1>1. PICK r \in strayed \cap Question : r <= q /\ (Again(r) \/ r <= before)
  BY DEF Late
<1>2. Again(r) => Again(r)'
  BY <1>1, AgainStays DEF TypeOK
<1> QED
  BY <1>1, <1>2 DEF Late

\* While the counts and what strayed stay, so does what they say.
LEMMA MeetStays ==
  ASSUME BridgeInv, UNCHANGED <<before, strayed>>, kept \subseteq kept',
         \A r \in Question : given'[r] >= given[r] /\ given'[r] \in Nat
  PROVE  AnswersMeet'
<1>1. \A q \in strayed : Late(q)
  BY DEF BridgeInv, AnswersMeet, Late
<1>2. \A q \in strayed : Late(q)'
  BY <1>1, LateStays DEF BridgeInv
<1> QED
  BY <1>2 DEF AnswersMeet, Late

LEMMA QuietKeeps ==
  ASSUME BridgeInv, TypeOK', Quiet
  PROVE  /\ Messages' /\ ActedOnce' /\ Questions' /\ Counted' /\ Settled' /\ AnswersMeet'
<1>0. TypeOK /\ Messages /\ ActedOnce /\ Questions /\ Counted /\ Settled /\ AnswersMeet
  BY DEF BridgeInv
<1>1. Messages'
  <2>1. ASSUME NEW s \in Session, NEW k \in DOMAIN wire'[s]
        PROVE  k \in DOMAIN wire[s] /\ wire'[s][k] = wire[s][k]
    <3>1. wire'[s] = wire[s] \/ wire'[s] = <<>>
      BY DEF Quiet
    <3> QED
      BY <2>1, <3>1
  <2>2. \A s, t \in Session : \A k \in DOMAIN wire'[s], l \in DOMAIN wire'[t] :
          wire'[s][k].id = wire'[t][l].id => s = t /\ k = l
    BY <1>0, <2>1 DEF Messages
  <2>3. delivered' = delivered /\ \A i \in Id : i <= sent => i <= sent'
    BY <1>0 DEF Quiet, TypeOK, Id
  <2>4. \A i \in Id : (InFile(i)' => InFile(i)) /\ (OnWire(i)' => OnWire(i))
    BY QuietPlaces
  <2> QED
    <3>1. \A i \in Id : i > sent' => i > sent
      BY <1>0 DEF Quiet, TypeOK, Id
    <3>2. \A i \in Id : KeptId(i) => KeptId(i)'
      BY DEF Quiet, KeptId
    <3> QED
      BY <1>0, <2>2, <2>3, <2>4, <3>1, <3>2 DEF Messages
<1>2. ActedOnce'
  BY <1>0 DEF Quiet, ActedOnce
<1>3. Questions'
  <2>1. asked' = asked /\ before' = before /\ awaiting' \in {awaiting, 0}
    BY DEF Quiet
  <2>2. \A q \in {0} \cup Question : Out(q)' => q \in 1 .. asked'
    BY <1>0, <2>1, QuietPlaces DEF Questions
  <2>3. (page # Nothing => page.awaiting <= asked)'
    BY <1>0, <2>1 DEF Quiet, Questions
  <2>4. Now.awaiting <= asked
    <3>1. awaiting \in {0, asked} /\ asked \in Nat
      BY <1>0, Bounds DEF Questions, TypeOK
    <3> QED
      BY <3>1 DEF Now
  <2>5. (status # Nothing => status.awaiting <= asked)'
    BY <1>0, <2>1, <2>4 DEF Quiet, Questions
  <2> QED
    BY <1>0, <2>1, <2>2, <2>3, <2>5 DEF Questions
<1>4. Counted'
  <2>1. given' = given /\ before' = before /\ \A q \in Question : Again(q) => Again(q)'
    BY DEF Quiet, Again
  <2> QED
    BY <1>0, <2>1, QuietPlaces DEF Counted
<1>5. \A r \in Question : given'[r] >= given[r] /\ given'[r] \in Nat
  BY <1>0 DEF Quiet, TypeOK
<1>6. Settled'
  <2> SUFFICES ASSUME NEW q \in Question, before' < q, q <= asked', q # awaiting'
               PROVE  \/ Again(q)'
                      \/ given'[q] = 1 /\ ~ Out(q)'
                      \/ Late(q)'
                      \/ stop' /\ awaiting' = 0
    BY DEF Settled
  <2>1. CASE awaiting' = awaiting
    <3>1. \/ Again(q)
          \/ given[q] = 1 /\ ~ Out(q)
          \/ Late(q)
          \/ stop /\ awaiting = 0
      BY <1>0, <2>1 DEF Quiet, Settled
    <3>2. Late(q) => Late(q)'
      BY <1>0, <1>5, LateStays DEF Quiet
    <3>3. Again(q) => Again(q)'
      BY DEF Quiet, Again
    <3> QED
      BY <2>1, <3>1, <3>2, <3>3, QuietPlaces DEF Quiet
  <2>2. CASE awaiting' = 0 /\ stop'
    BY <2>2
  <2> QED
    BY <2>1, <2>2 DEF Quiet
<1>7. AnswersMeet'
  BY <1>5, MeetStays DEF Quiet
<1> QED
  BY <1>1, <1>2, <1>3, <1>4, <1>6, <1>7

\* Which steps they are.
LEMMA QuietSteps ==
  ASSUME BridgeInv, TypeOK',
         \/ StopAsking \/ OpenSession \/ Hold \/ GoOn \/ EndSession \/ CloseSession \/ NeverOpened
         \/ Render \/ TogglePause \/ RequestStop \/ Tick \/ ReadAnswer
         \/ \E s \in Session : Drop(s)
         \/ UNCHANGED vars
  PROVE  Quiet
<1>0. TypeOK /\ Fresh
  BY DEF BridgeInv
<1>1. CASE StopAsking \/ Hold \/ GoOn \/ NeverOpened \/ TogglePause \/ RequestStop
  BY <1>1 DEF StopAsking, Hold, GoOn, NeverOpened, TogglePause, RequestStop, Move, Quiet,
              console, dashboard, file, fleet, counters, history
<1>2. CASE OpenSession
  <2>1. mail' \in {mail, Nothing} /\ kept \subseteq kept' /\ sent' \in {sent, sent + 1}
    BY <1>0, <1>2, RemovalTyped DEF OpenSession, AtStart
  <2> QED
    BY <1>2, <2>1 DEF OpenSession, NoBridge, Quiet, console, history
<1>3. CASE EndSession
  BY <1>0, <1>3 DEF EndSession, TypeOK, Quiet, console, dashboard, file, fleet, counters, history
<1>4. CASE CloseSession
  BY <1>0, <1>4 DEF CloseSession, TypeOK, Quiet, console, counters, history
<1>5. CASE Render
  BY <1>5 DEF Render, Quiet, console, file, fleet, counters, history
<1>6. CASE Tick
  <2>1. bridge'.read \in {bridge.read, Nothing} /\ status' \in {status, Now}
    BY <1>0, <1>6, TickReads DEF NoBridge
  <2> QED
    BY <1>6, <2>1 DEF Tick, Quiet, console, file, fleet, counters, history
<1>7. CASE ReadAnswer
  <2>1. bridge'.read = mail
    BY <1>0, <1>7 DEF ReadAnswer, TypeOK
  <2> QED
    BY <1>7, <2>1 DEF ReadAnswer, Quiet, console, dashboard, file, fleet, counters, history
<1>8. ASSUME NEW s \in Session, Drop(s)
      PROVE  Quiet
  BY <1>0, <1>8 DEF Drop, TypeOK, Quiet, console, dashboard, file, counters, history
<1>9. CASE UNCHANGED vars
  BY <1>9 DEF vars, Quiet, console, dashboard, file, fleet, counters, history
<1> QED
  BY <1>1, <1>2, <1>3, <1>4, <1>5, <1>6, <1>7, <1>8, <1>9
---------------------------------------------------------------------------
(* A question is asked, answered, or forgotten with its process.           *)

LEMMA AskKeeps ==
  ASSUME BridgeInv, Ask
  PROVE  /\ Messages' /\ ActedOnce' /\ Questions' /\ Counted' /\ Settled' /\ AnswersMeet'
<1>0. TypeOK /\ Messages /\ ActedOnce /\ Questions /\ Counted /\ Settled /\ AnswersMeet
  BY DEF BridgeInv
<1>1. /\ awaiting = 0 /\ ~ stop /\ stop' = stop /\ asked' = asked + 1 /\ awaiting' = asked + 1
      /\ asked \in Nat /\ before \in Nat
      /\ UNCHANGED <<answers, entered, sent, before, given, strayed, delivered, mail, kept, bridge,
                     wire, page, status>>
  BY <1>0, Bounds DEF Ask, TypeOK, dashboard, file, fleet, history
<1>2. ASSUME NEW q
      PROVE  /\ Out(q)' <=> Out(q)
             /\ OneOut(q)' <=> OneOut(q)
             /\ Late(q)' <=> Late(q)
             /\ Again(q)' <=> Again(q)
  BY <1>1 DEF Out, OneOut, Late, Again, FileHas, WireHas, LineHas, QueueHas, About
<1>3. Messages' /\ ActedOnce'
  BY <1>0, <1>1 DEF Messages, ActedOnce, InFile, OnWire, KeptId, Is
<1>4. Questions'
  <2>1. \A q \in {0} \cup Question : Out(q)' => q \in 1 .. asked'
    BY <1>0, <1>1, <1>2 DEF Questions
  <2>2. /\ page # Nothing => page.awaiting <= asked + 1
        /\ status # Nothing => status.awaiting <= asked + 1
    <3>1. page # Nothing => page.awaiting \in Nat
      BY <1>0, Bounds DEF TypeOK, Snapshot, Question
    <3>2. status # Nothing => status.awaiting \in Nat
      BY <1>0, Bounds DEF TypeOK, Snapshot, Question
    <3> QED
      BY <1>0, <1>1, <3>1, <3>2 DEF Questions
  <2> QED
    BY <1>0, <1>1, <2>1, <2>2 DEF Questions
<1>5. Counted'
  BY <1>0, <1>1, <1>2 DEF Counted
<1>6. Settled'
  <2> SUFFICES ASSUME NEW q \in Question, before < q, q <= asked + 1, q # asked + 1
               PROVE  \/ Again(q)
                      \/ given[q] = 1 /\ ~ Out(q)
                      \/ Late(q)
    BY <1>1, <1>2 DEF Settled
  <2>1. q <= asked /\ q # awaiting
    BY <1>1 DEF Question
  <2> QED
    BY <1>0, <1>1, <2>1 DEF Settled
<1>7. AnswersMeet'
  BY <1>0, <1>1 DEF AnswersMeet, Again, About
<1> QED
  BY <1>3, <1>4, <1>5, <1>6, <1>7

\* The question on screen takes the first answer of the queue, its own or one
\* too many that was left there.
LEMMA TakeKeeps ==
  ASSUME BridgeInv, TakeAnswer
  PROVE  /\ Messages' /\ ActedOnce' /\ Questions' /\ Counted' /\ Settled' /\ AnswersMeet'
<1> PICK h : h = Head(answers)
  OBVIOUS
<1> PICK p : p = awaiting
  OBVIOUS
<1>0. TypeOK /\ Messages /\ ActedOnce /\ Questions /\ Counted /\ Settled /\ AnswersMeet
  BY DEF BridgeInv
<1>1. /\ p # 0 /\ answers # <<>> /\ answers' = Tail(answers) /\ awaiting' = 0
      /\ strayed' = strayed \cup ({h} \ {p})
      /\ UNCHANGED <<asked, entered, sent, before, given, delivered, mail, kept, bridge, wire,
                     page, status, stop>>
  BY DEF TakeAnswer, dashboard, file, fleet, counters
<1>2. /\ answers \in Seq({0} \cup Question) /\ h \in {0} \cup Question
      /\ h = answers[1] /\ 1 \in DOMAIN answers
      /\ \A k \in DOMAIN answers' : k + 1 \in DOMAIN answers /\ answers'[k] = answers[k + 1]
                                    /\ k \in Nat \ {0}
  <2>1. answers \in Seq({0} \cup Question) /\ answers # <<>>
    BY <1>0, <1>1 DEF TypeOK
  <2> QED
    BY <1>1, <2>1
<1>3. /\ h \in 1 .. asked /\ h \in Question /\ p = asked
      /\ asked \in Nat /\ p \in Question /\ before \in Nat
  <2>1. Out(h)
    BY <1>2 DEF Out, QueueHas
  <2>2. h \in 1 .. asked
    BY <1>0, <1>2, <2>1 DEF Questions
  <2>3. p = asked /\ asked \in Nat /\ p \in Question /\ before \in Nat
    BY <1>0, <1>1, Bounds DEF Questions, TypeOK
  <2> QED
    BY <1>2, <2>2, <2>3
<1>4. ASSUME NEW q
      PROVE  /\ FileHas(q)' <=> FileHas(q)
             /\ WireHas(q)' <=> WireHas(q)
             /\ LineHas(q)' <=> LineHas(q)
             /\ QueueHas(q)' => QueueHas(q)
             /\ Out(q)' => Out(q)
             /\ OneOut(q) => OneOut(q)'
             /\ OneOut(q) /\ q = h => ~ Out(q)'
  <2>1. (FileHas(q)' <=> FileHas(q)) /\ (WireHas(q)' <=> WireHas(q)) /\ (LineHas(q)' <=> LineHas(q))
    BY <1>1 DEF FileHas, WireHas, LineHas, About
  <2>2. QueueHas(q)' => QueueHas(q)
    BY <1>2 DEF QueueHas
  <2>3. Out(q)' => Out(q)
    BY <2>1, <2>2 DEF Out
  <2>4. OneOut(q) => OneOut(q)'
    <3> SUFFICES ASSUME OneOut(q) PROVE OneOut(q)'
      OBVIOUS
    <3>1. \A k, l \in DOMAIN answers' : answers'[k] = q /\ answers'[l] = q => k = l
      BY <1>2 DEF OneOut
    <3>2. \A s, t \in Session : \A k \in DOMAIN wire'[s], l \in DOMAIN wire'[t] :
            (About(wire[s][k], q))' /\ (About(wire[t][l], q))' => s = t /\ k = l
      BY <1>1 DEF OneOut, About
    <3> QED
      BY <2>1, <2>2, <3>1, <3>2 DEF OneOut
  <2>5. ASSUME OneOut(q), q = h
        PROVE  ~ Out(q)'
    <3>1. QueueHas(q)
      BY <1>2, <2>5 DEF QueueHas
    <3>2. ~ FileHas(q) /\ ~ WireHas(q) /\ ~ LineHas(q)
      BY <2>5, <3>1 DEF OneOut
    <3>3. ~ QueueHas(q)'
      BY <1>2, <2>5 DEF OneOut, QueueHas
    <3> QED
      BY <2>1, <3>2, <3>3 DEF Out
  <2> QED
    BY <2>1, <2>2, <2>3, <2>4, <2>5
<1>5. \A r \in Question : given'[r] >= given[r] /\ given'[r] \in Nat
  BY <1>0, <1>1 DEF TypeOK
<1>6. /\ \A q : Late(q) => Late(q)'
      /\ \A q : Again(q)' <=> Again(q)
  <2>1. \A q : Late(q) => Late(q)'
    BY <1>0, <1>1, <1>5, LateStays
  <2> QED
    BY <1>1, <2>1 DEF Again, About
<1>7. h # p => Late(h)'
  <2> SUFFICES ASSUME h # p PROVE Late(h)'
    OBVIOUS
  <2>1. h \in strayed' \cap Question /\ given' = given /\ before' = before /\ h <= h
    BY <1>1, <1>3
  <2>2. CASE h <= before \/ Again(h)
    BY <1>6, <2>1, <2>2 DEF Late
  <2>3. CASE ~ (h <= before) /\ ~ Again(h)
    <3>1. before < h /\ h <= asked
      BY <1>3, <2>3
    <3>2. Out(h)
      BY <1>2 DEF Out, QueueHas
    <3>3. Late(h)
      BY <1>0, <1>1, <1>3, <2>3, <3>1, <3>2 DEF Settled
    <3> QED
      BY <1>6, <3>3
  <2> QED
    BY <2>2, <2>3
<1>8. Messages' /\ ActedOnce'
  BY <1>0, <1>1 DEF Messages, ActedOnce, InFile, OnWire, KeptId, Is
<1>9. Questions'
  BY <1>0, <1>1, <1>4 DEF Questions
<1>10. Counted'
  BY <1>0, <1>1, <1>4, <1>6 DEF Counted
<1>11. Settled'
  <2> SUFFICES ASSUME NEW q \in Question, before < q, q <= asked
               PROVE  \/ Again(q)
                      \/ given[q] = 1 /\ ~ Out(q)'
                      \/ Late(q)'
    BY <1>1, <1>6 DEF Settled
  <2>1. CASE q = p /\ h = p
    <3>1. Out(q)
      BY <1>2, <2>1 DEF Out, QueueHas
    <3>2. given[q] # 0 /\ given[q] \in Nat
      BY <1>0, <3>1 DEF Counted, TypeOK
    <3>3. Again(q) \/ OneOut(q)
      BY <1>0 DEF Counted
    <3>4. given[q] > 1 => Again(q)
      BY DEF Again
    <3> QED
      BY <1>4, <2>1, <3>2, <3>3, <3>4
  <2>2. CASE q = p /\ h # p
    <3>1. PICK r \in strayed' \cap Question : r <= h /\ (Again(r)' \/ r <= before')
      BY <1>7, <2>2 DEF Late
    <3>2. r <= q
      BY <1>3, <2>2, <3>1 DEF Question
    <3> QED
      BY <3>1, <3>2 DEF Late
  <2>3. CASE q # p
    <3>1. \/ Again(q)
          \/ given[q] = 1 /\ ~ Out(q)
          \/ Late(q)
      BY <1>0, <1>1, <2>3 DEF Settled
    <3> QED
      BY <1>4, <1>6, <3>1
  <2> QED
    BY <2>1, <2>2, <2>3
<1>12. AnswersMeet'
  <2>1. \A q \in strayed : Late(q)
    BY <1>0 DEF AnswersMeet, Late
  <2>2. \A q \in strayed' : Late(q)'
    BY <1>1, <1>6, <1>7, <2>1
  <2> QED
    BY <2>2 DEF AnswersMeet, Late
<1> QED
  BY <1>8, <1>9, <1>10, <1>11, <1>12

\* What is on disk is about questions that this process never asked.
LEMMA RestartKeeps ==
  ASSUME BridgeInv, NewProcess
  PROVE  /\ Messages' /\ ActedOnce' /\ Questions' /\ Counted' /\ Settled' /\ AnswersMeet'
<1>0. TypeOK /\ Messages /\ ActedOnce /\ Questions /\ Counted /\ Settled /\ AnswersMeet
  BY DEF BridgeInv
<1>1. /\ awaiting' = 0 /\ answers' = <<>> /\ entered' = <<>> /\ bridge'.read = Nothing
      /\ before' = asked /\ strayed' = {} /\ asked \in Nat
      /\ \A s \in Session : wire'[s] = <<>>
      /\ UNCHANGED <<asked, sent, given, delivered, mail, kept, page, status>>
  BY <1>0, Bounds DEF NewProcess, NoBridge, TypeOK, dashboard, file, counters
<1>2. ASSUME NEW q \in {0} \cup Question, Out(q)'
      PROVE  q \in 1 .. asked
  <2>1. FileHas(q)
    BY <1>1, <1>2, NothingIs DEF Out, FileHas, WireHas, LineHas, QueueHas, About
  <2> QED
    BY <1>0, <2>1 DEF Questions, Out
<1>3. Messages' /\ ActedOnce'
  <2>1. \A i \in Id : (InFile(i)' => InFile(i)) /\ ~ OnWire(i)'
    BY <1>1, NothingIs DEF InFile, OnWire, Is
  <2> QED
    BY <1>0, <1>1, <2>1 DEF Messages, ActedOnce, KeptId
<1>4. Questions'
  BY <1>0, <1>1, <1>2 DEF Questions
<1>5. Counted'
  <2> SUFFICES ASSUME NEW q \in Question, q > asked
               PROVE  ~ Out(q)' /\ OneOut(q)'
    BY <1>1 DEF Counted
  <2>1. ~ Out(q)'
    BY <1>1, <1>2 DEF Question
  <2> QED
    BY <1>1, <2>1 DEF Out, OneOut
<1>6. Settled' /\ AnswersMeet'
  BY <1>1 DEF Settled, AnswersMeet, Question
<1> QED
  BY <1>3, <1>4, <1>5, <1>6
---------------------------------------------------------------------------
(* A message is acted on: it leaves the file or the wire, and an answer    *)
(* joins the queue.                                                        *)

LEMMA DeliverKeeps ==
  ASSUME BridgeInv, TypeOK', NEW m \in Message, Deliver(m),
         UNCHANGED <<entered, asked, page, status>>,
         sent' \in {sent, sent + 1}, kept \subseteq kept',
         InFile(m.id) \/ OnWire(m.id),
         \A i \in Id : /\ InFile(i)' => InFile(i) /\ (i # m.id \/ KeptId(i)')
                       /\ OnWire(i)' => OnWire(i) /\ i # m.id,
         \A s, t \in Session : \A k \in DOMAIN wire'[s], l \in DOMAIN wire'[t] :
           wire'[s][k].id = wire'[t][l].id => s = t /\ k = l,
         m.kind = "answer" => FileHas(m.about) \/ WireHas(m.about),
         \A q \in {0} \cup Question : /\ FileHas(q)' => FileHas(q)
                                      /\ WireHas(q)' => WireHas(q),
         \A q \in Question : OneOut(q) =>
           /\ About(m, q) => Again(q)' \/ (~ FileHas(q)' /\ ~ WireHas(q)')
           /\ \A s, t \in Session : \A k \in DOMAIN wire'[s], l \in DOMAIN wire'[t] :
                (About(wire[s][k], q))' /\ (About(wire[t][l], q))' => s = t /\ k = l
  PROVE  /\ Messages' /\ ActedOnce' /\ Questions' /\ Counted' /\ Settled' /\ AnswersMeet'
<1>0. TypeOK /\ Messages /\ ActedOnce /\ Questions /\ Counted /\ Settled /\ AnswersMeet
  BY DEF BridgeInv
<1>1. m.id \in Id /\ m.about \in {0} \cup Question
  BY DEF Message
<1>2. /\ delivered' = [delivered EXCEPT ![m.id] = delivered[m.id] + 1]
      /\ answers' = IF m.kind = "answer" THEN Append(answers, m.about) ELSE answers
      /\ stop => stop'
      /\ UNCHANGED <<awaiting, before, given, strayed>>
  BY DEF Deliver
<1>3. (delivered[m.id] = 0 \/ KeptId(m.id)) /\ m.id <= sent
  BY <1>0, <1>1 DEF Messages
<1>4. Messages' /\ ActedOnce'
  <2>0. ASSUME NEW i \in Id
        PROVE  /\ KeptId(i) => KeptId(i)'
               /\ i <= sent => i <= sent'
               /\ i > sent' => i > sent
    <3>1. i \in Nat /\ sent \in Nat
      BY <1>0, Bounds DEF TypeOK, Id
    <3>2. KeptId(i) => KeptId(i)'
      BY DEF KeptId
    <3> QED
      BY <3>1, <3>2
  <2>1. /\ delivered[m.id] = 0 => delivered'[m.id] = 1
        /\ \A i \in Id \ {m.id} : delivered'[i] = delivered[i]
    BY <1>0, <1>1, <1>2 DEF TypeOK
  <2>2. ActedOnce'
    <3>1. \A i \in Id : delivered[i] <= 1 \/ KeptId(i)
      BY <1>0 DEF ActedOnce, KeptId
    <3>2. \A i \in Id : delivered'[i] <= 1 \/ KeptId(i)'
      BY <1>3, <2>0, <2>1, <3>1
    <3> QED
      BY <3>2 DEF ActedOnce, KeptId
  <2>3. \A i \in Id : i > sent' => delivered'[i] = 0
    <3>1. m.id > sent => FALSE
      BY <1>0, <1>1, <1>3, Bounds DEF TypeOK, Id
    <3> QED
      BY <1>0, <2>0, <2>1, <3>1 DEF Messages
  <2>4. \A i \in Id : InFile(i)' => /\ i <= sent' /\ (delivered'[i] = 0 \/ KeptId(i)')
                                   /\ ~ OnWire(i)'
    BY <1>0, <2>0, <2>1 DEF Messages
  <2>5. \A i \in Id : OnWire(i)' => i <= sent' /\ delivered'[i] = 0
    BY <1>0, <2>0, <2>1 DEF Messages
  <2> QED
    BY <2>2, <2>3, <2>4, <2>5 DEF Messages
<1>5. ASSUME NEW q \in {0} \cup Question
      PROVE  /\ LineHas(q)' <=> LineHas(q)
             /\ QueueHas(q)' <=> (QueueHas(q) \/ About(m, q))
  <2>1. LineHas(q)' <=> LineHas(q)
    BY DEF LineHas
  <2>2. CASE m.kind = "answer"
    <3>1. answers \in Seq({0} \cup Question) /\ answers' = Append(answers, m.about)
      BY <1>0, <1>2, <2>2 DEF TypeOK
    <3>2. /\ DOMAIN answers' = 1 .. Len(answers) + 1 /\ Len(answers) \in Nat
          /\ DOMAIN answers = 1 .. Len(answers)
          /\ answers'[Len(answers) + 1] = m.about
          /\ \A k \in 1 .. Len(answers) : answers'[k] = answers[k]
      BY <1>1, <3>1
    <3> QED
      BY <2>1, <2>2, <3>2 DEF QueueHas, About
  <2>3. CASE m.kind # "answer"
    BY <1>2, <2>1, <2>3 DEF QueueHas, About
  <2> QED
    BY <2>2, <2>3
<1>6. ASSUME NEW q \in {0} \cup Question, Out(q)'
      PROVE  Out(q)
  <2>1. About(m, q) => FileHas(q) \/ WireHas(q)
    BY DEF About
  <2> QED
    BY <1>5, <1>6, <2>1 DEF Out
<1>7. ASSUME NEW q \in Question, OneOut(q), ~ Again(q)'
      PROVE  OneOut(q)'
  <2>1. /\ FileHas(q)' => FileHas(q)
        /\ WireHas(q)' => WireHas(q)
        /\ LineHas(q)' <=> LineHas(q)
        /\ QueueHas(q)' <=> (QueueHas(q) \/ About(m, q))
    BY <1>5
  <2>2. About(m, q) => (FileHas(q) \/ WireHas(q)) /\ ~ FileHas(q)' /\ ~ WireHas(q)'
    BY <1>7 DEF About
  <2>3. About(m, q) => ~ QueueHas(q) /\ ~ LineHas(q)
    BY <1>7, <2>2 DEF OneOut
  <2>4. \A k, l \in DOMAIN answers' : answers'[k] = q /\ answers'[l] = q => k = l
    <3>1. CASE m.kind = "answer"
      <4>1. answers \in Seq({0} \cup Question) /\ answers' = Append(answers, m.about)
        BY <1>0, <1>2, <3>1 DEF TypeOK
      <4>2. /\ DOMAIN answers' = 1 .. Len(answers) + 1 /\ Len(answers) \in Nat
            /\ DOMAIN answers = 1 .. Len(answers)
            /\ answers'[Len(answers) + 1] = m.about
            /\ \A k \in 1 .. Len(answers) : answers'[k] = answers[k]
        BY <1>1, <4>1
      <4>3. m.about = q => \A k \in DOMAIN answers : answers[k] # q
        BY <2>3, <3>1 DEF QueueHas, About
      <4>4. \A k, l \in DOMAIN answers : answers[k] = q /\ answers[l] = q => k = l
        BY <1>7 DEF OneOut
      <4> QED
        BY <4>2, <4>3, <4>4
    <3>2. CASE m.kind # "answer"
      BY <1>2, <1>7, <3>2 DEF OneOut
    <3> QED
      BY <3>1, <3>2
  <2>5. \A s, t \in Session : \A k \in DOMAIN wire'[s], l \in DOMAIN wire'[t] :
          (About(wire[s][k], q))' /\ (About(wire[t][l], q))' => s = t /\ k = l
    BY <1>7
  <2>6. /\ FileHas(q) => ~ WireHas(q) /\ ~ LineHas(q) /\ ~ QueueHas(q)
        /\ WireHas(q) => ~ LineHas(q) /\ ~ QueueHas(q)
        /\ LineHas(q) => ~ QueueHas(q)
    BY <1>7 DEF OneOut
  <2>7. /\ FileHas(q)' => ~ WireHas(q)' /\ ~ LineHas(q)' /\ ~ QueueHas(q)'
        /\ WireHas(q)' => ~ LineHas(q)' /\ ~ QueueHas(q)'
        /\ LineHas(q)' => ~ QueueHas(q)'
    BY <2>1, <2>2, <2>3, <2>6
  <2> QED
    BY <2>4, <2>5, <2>7 DEF OneOut
<1>8. \A r \in Question : given'[r] >= given[r] /\ given'[r] \in Nat
  BY <1>0, <1>2 DEF TypeOK
<1>9. Questions'
  BY <1>0, <1>2, <1>6 DEF Questions
<1>13. \A q \in Question : Again(q) => Again(q)'
  BY <1>2 DEF Again
<1>10. Counted'
  BY <1>0, <1>2, <1>6, <1>7, <1>13 DEF Counted
<1>11. Settled'
  <2>1. \A q \in Question : Late(q) => Late(q)'
    BY <1>0, <1>2, <1>8, LateStays
  <2> QED
    BY <1>0, <1>2, <1>6, <1>13, <2>1 DEF Settled
<1>12. AnswersMeet'
  BY <1>2, <1>8, MeetStays
<1> QED
  BY <1>4, <1>9, <1>10, <1>11, <1>12

LEMMA RelayKeeps ==
  ASSUME BridgeInv, TypeOK', RelayAnswer
  PROVE  /\ Messages' /\ ActedOnce' /\ Questions' /\ Counted' /\ Settled' /\ AnswersMeet'
<1> PICK m : m = bridge.read
  OBVIOUS
<1>0. TypeOK /\ Messages /\ Fresh
  BY DEF BridgeInv
<1>1. /\ m \in Message /\ m # Nothing /\ bridge'.read = Nothing
      /\ UNCHANGED <<entered, asked, page, status, wire>>
  BY <1>0 DEF RelayAnswer, Fresh, TypeOK, fleet
<1>4. /\ mail' \in {mail, Nothing} /\ (mail' # Nothing => mail' \in kept')
      /\ kept \subseteq kept' /\ sent' \in {sent, sent + 1}
  BY <1>0, RemovalTyped DEF RelayAnswer, AfterReading
<1>2. CASE UNCHANGED <<console, history>>
  BY <1>0, <1>1, <1>2, <1>4, QuietKeeps DEF Quiet, console, history
<1>3. CASE Deliver(m)
  <2>1. InFile(m.id) /\ (m.kind = "answer" => FileHas(m.about)) /\ m.id \in Id
    BY <1>1 DEF InFile, Is, FileHas, About, Message
  <2>2. ~ OnWire(m.id)
    BY <1>0, <2>1 DEF Messages
  <2>3. \A i \in Id : (InFile(i)' => InFile(i) /\ KeptId(i)') /\ (OnWire(i)' <=> OnWire(i))
    BY <1>1, <1>4, NothingIs DEF InFile, OnWire, KeptId, Is
  <2>4. \A q : /\ FileHas(q)' => FileHas(q) /\ Again(q)'
               /\ WireHas(q)' <=> WireHas(q)
    BY <1>1, <1>4, NothingIs DEF FileHas, WireHas, Again, About
  <2>5. ASSUME NEW q \in Question, OneOut(q)
        PROVE  /\ About(m, q) => ~ WireHas(q)'
               /\ \A s, t \in Session : \A k \in DOMAIN wire'[s], l \in DOMAIN wire'[t] :
                    (About(wire[s][k], q))' /\ (About(wire[t][l], q))' => s = t /\ k = l
    <3>1. About(m, q) => FileHas(q)
      BY DEF FileHas
    <3>2. About(m, q) => ~ WireHas(q)'
      BY <2>4, <2>5, <3>1 DEF OneOut
    <3>3. \A s, t \in Session : \A k \in DOMAIN wire'[s], l \in DOMAIN wire'[t] :
            (About(wire[s][k], q))' /\ (About(wire[t][l], q))' => s = t /\ k = l
      BY <1>1, <2>5 DEF OneOut, About
    <3> QED
      BY <3>2, <3>3
  <2>6. \A s, t \in Session : \A k \in DOMAIN wire'[s], l \in DOMAIN wire'[t] :
          wire'[s][k].id = wire'[t][l].id => s = t /\ k = l
    BY <1>0, <1>1 DEF Messages
  <2> QED
    BY <1>1, <1>3, <1>4, <2>1, <2>2, <2>3, <2>4, <2>5, <2>6, DeliverKeeps
<1> QED
  BY <1>2, <1>3 DEF RelayAnswer

LEMMA DispatchKeeps ==
  ASSUME BridgeInv, TypeOK', NEW s0 \in Session, DispatchControl(s0)
  PROVE  /\ Messages' /\ ActedOnce' /\ Questions' /\ Counted' /\ Settled' /\ AnswersMeet'
<1> PICK m : m = Head(wire[s0])
  OBVIOUS
<1>0. TypeOK /\ Messages
  BY DEF BridgeInv
<1>1. /\ wire[s0] # <<>> /\ Deliver(m) /\ wire' = [wire EXCEPT ![s0] = Tail(wire[s0])]
      /\ UNCHANGED <<entered, asked, sent, page, status, mail, kept, bridge>>
  BY DEF DispatchControl, dashboard, file, counters
<1>2. /\ m \in Message /\ m = wire[s0][1] /\ 1 \in DOMAIN wire[s0]
      /\ m.id \in Id /\ m.about \in {0} \cup Question
      /\ \A k \in DOMAIN wire'[s0] : /\ k + 1 \in DOMAIN wire[s0] /\ k + 1 # 1
                                     /\ wire'[s0][k] = wire[s0][k + 1]
                                     /\ k \in Nat
      /\ \A s \in Session \ {s0} : wire'[s] = wire[s]
  <2>1. wire[s0] \in Seq(Message) /\ wire[s0] # <<>>
    BY <1>0, <1>1 DEF TypeOK
  <2>2. m \in Message /\ m = wire[s0][1] /\ 1 \in DOMAIN wire[s0]
    BY <2>1
  <2>3. m.id \in Id /\ m.about \in {0} \cup Question
    BY <2>2 DEF Message
  <2>4. wire'[s0] = Tail(wire[s0]) /\ \A s \in Session \ {s0} : wire'[s] = wire[s]
    BY <1>0, <1>1 DEF TypeOK
  <2>5. \A k \in DOMAIN Tail(wire[s0]) : /\ k + 1 \in DOMAIN wire[s0] /\ k + 1 # 1
                                         /\ Tail(wire[s0])[k] = wire[s0][k + 1]
                                         /\ k \in Nat
    BY <2>1
  <2> QED
    BY <2>2, <2>3, <2>4, <2>5
\* A message that stays was a place further back, or on another wire.
<1>3. ASSUME NEW s \in Session, NEW k \in DOMAIN wire'[s]
      PROVE  \E j \in DOMAIN wire[s] :
               /\ wire[s][j] = wire'[s][k] /\ ~ (s = s0 /\ j = 1)
               /\ j = IF s = s0 THEN k + 1 ELSE k
               /\ s = s0 => k \in Nat
  BY <1>2, <1>3
<1>4. \A s, t \in Session : \A k \in DOMAIN wire'[s], l \in DOMAIN wire'[t] :
        wire'[s][k].id = wire'[t][l].id => s = t /\ k = l
  <2> SUFFICES ASSUME NEW s \in Session, NEW t \in Session, NEW k \in DOMAIN wire'[s],
                      NEW l \in DOMAIN wire'[t], wire'[s][k].id = wire'[t][l].id
               PROVE  s = t /\ k = l
    OBVIOUS
  <2>1. PICK i \in DOMAIN wire[s] :
          /\ wire[s][i] = wire'[s][k] /\ i = IF s = s0 THEN k + 1 ELSE k
          /\ s = s0 => k \in Nat
    BY <1>3
  <2>2. PICK j \in DOMAIN wire[t] :
          /\ wire[t][j] = wire'[t][l] /\ j = IF t = s0 THEN l + 1 ELSE l
          /\ t = s0 => l \in Nat
    BY <1>3
  <2>3. s = t /\ i = j
    BY <1>0, <2>1, <2>2 DEF Messages
  <2> QED
    BY <2>1, <2>2, <2>3
<1>5. ASSUME NEW i \in Id, OnWire(i)'
      PROVE  OnWire(i) /\ i # m.id
  <2>1a. PICK s \in Session : \E k \in DOMAIN wire'[s] : wire'[s][k].id = i
    BY <1>5 DEF OnWire
  <2>1. PICK k \in DOMAIN wire'[s] : wire'[s][k].id = i
    BY <2>1a
  <2>2. PICK j \in DOMAIN wire[s] : wire[s][j] = wire'[s][k] /\ ~ (s = s0 /\ j = 1)
    BY <1>3
  <2>3. i = m.id => s = s0 /\ j = 1
    BY <1>0, <1>2, <2>1, <2>2 DEF Messages
  <2> QED
    BY <2>1, <2>2, <2>3 DEF OnWire
<1>6. OnWire(m.id) /\ (m.kind = "answer" => WireHas(m.about))
  BY <1>2 DEF OnWire, WireHas, About
<1>7. ASSUME NEW i \in Id, InFile(i)'
      PROVE  InFile(i) /\ i # m.id
  <2>1. InFile(i)
    BY <1>1, <1>7 DEF InFile, Is
  <2> QED
    BY <1>0, <1>6, <2>1 DEF Messages
<1>8. ASSUME NEW q
      PROVE  (FileHas(q)' <=> FileHas(q)) /\ (WireHas(q)' => WireHas(q))
  <2>1. FileHas(q)' <=> FileHas(q)
    BY <1>1 DEF FileHas, About
  <2>2. ASSUME WireHas(q)'
        PROVE  WireHas(q)
    <3>1a. PICK s \in Session : \E k \in DOMAIN wire'[s] : (About(wire[s][k], q))'
      BY <2>2 DEF WireHas
    <3>1. PICK k \in DOMAIN wire'[s] : (About(wire[s][k], q))'
      BY <3>1a
    <3>2. PICK j \in DOMAIN wire[s] : wire[s][j] = wire'[s][k]
      BY <1>3
    <3> QED
      BY <3>1, <3>2 DEF WireHas, About
  <2> QED
    BY <2>1, <2>2
<1>9. ASSUME NEW q \in Question, OneOut(q)
      PROVE  /\ About(m, q) => ~ FileHas(q)' /\ ~ WireHas(q)'
             /\ \A s, t \in Session : \A k \in DOMAIN wire'[s], l \in DOMAIN wire'[t] :
                  (About(wire[s][k], q))' /\ (About(wire[t][l], q))' => s = t /\ k = l
  <2>1. ASSUME About(m, q)
        PROVE  ~ FileHas(q)' /\ ~ WireHas(q)'
    <3>1. WireHas(q)
      BY <1>2, <2>1 DEF WireHas
    <3>2. ~ FileHas(q)'
      BY <1>8, <1>9, <3>1 DEF OneOut
    <3>3. ASSUME WireHas(q)'
          PROVE  FALSE
      <4>1a. PICK s \in Session : \E k \in DOMAIN wire'[s] : (About(wire[s][k], q))'
        BY <3>3 DEF WireHas
      <4>1. PICK k \in DOMAIN wire'[s] : (About(wire[s][k], q))'
        BY <4>1a
      <4>2. PICK j \in DOMAIN wire[s] : wire[s][j] = wire'[s][k] /\ ~ (s = s0 /\ j = 1)
        BY <1>3
      <4>3. About(wire[s][j], q) /\ About(wire[s0][1], q)
        BY <1>2, <2>1, <4>1, <4>2 DEF About
      <4> QED
        BY <1>2, <1>9, <4>2, <4>3 DEF OneOut
    <3> QED
      BY <3>2, <3>3
  <2>2. ASSUME NEW s \in Session, NEW t \in Session, NEW k \in DOMAIN wire'[s],
               NEW l \in DOMAIN wire'[t],
               (About(wire[s][k], q))', (About(wire[t][l], q))'
        PROVE  s = t /\ k = l
    <3>1. PICK i \in DOMAIN wire[s] :
            /\ wire[s][i] = wire'[s][k] /\ i = IF s = s0 THEN k + 1 ELSE k
            /\ s = s0 => k \in Nat
      BY <1>3
    <3>2. PICK j \in DOMAIN wire[t] :
            /\ wire[t][j] = wire'[t][l] /\ j = IF t = s0 THEN l + 1 ELSE l
            /\ t = s0 => l \in Nat
      BY <1>3
    <3>3. About(wire[s][i], q) /\ About(wire[t][j], q)
      BY <2>2, <3>1, <3>2 DEF About
    <3>4. s = t /\ i = j
      BY <1>9, <3>3 DEF OneOut
    <3> QED
      BY <3>1, <3>2, <3>4
  <2> QED
    BY <2>1, <2>2
<1> QED
  BY <1>1, <1>2, <1>4, <1>5, <1>6, <1>7, <1>8, <1>9, DeliverKeeps DEF KeptId
---------------------------------------------------------------------------
(* A message is sent; a is the question it answers, 0 if it is no answer.  *)

LEMMA GiveKeeps ==
  ASSUME BridgeInv, NEW a \in {0} \cup 1 .. asked,
         UNCHANGED <<awaiting, asked, before, strayed, stop, page, status, kept>>,
         \A q \in {0} \cup Question : Out(q)' => Out(q) \/ (q = a /\ a # 0),
         \A q \in Question : q # a => (OneOut(q) => OneOut(q)') /\ given'[q] = given[q],
         a # 0 => given'[a] = given[a] + 1 /\ (~ Out(a) => OneOut(a)')
  PROVE  Questions' /\ Counted' /\ Settled' /\ AnswersMeet'
<1>0. TypeOK /\ Questions /\ Counted /\ Settled /\ AnswersMeet
  BY DEF BridgeInv
<1>1. asked \in 0 .. MaxQuestions /\ 1 .. asked \subseteq Question /\ 0 \notin Question
  BY <1>0, Bounds DEF TypeOK, Question
<1>2. \A r \in Question : given[r] \in Nat /\ given'[r] \in Nat /\ given'[r] >= given[r]
  BY <1>0, <1>1 DEF TypeOK
<1>3. Questions'
  <2>1. \A q \in {0} \cup Question : Out(q)' => q \in 1 .. asked
    BY <1>0 DEF Questions
  <2> QED
    BY <1>0, <2>1 DEF Questions
<1>8. \A q \in Question : Again(q) => Again(q)'
  BY <1>2 DEF Again
<1>4. Counted'
  <2> SUFFICES ASSUME NEW q \in Question, q > before
               PROVE  (given'[q] = 0 => ~ Out(q)') /\ (Again(q)' \/ OneOut(q)')
    BY DEF Counted
  <2>1. (given[q] = 0 => ~ Out(q)) /\ (Again(q) \/ OneOut(q)) /\ (Again(q) => Again(q)')
    BY <1>0, <1>8 DEF Counted
  <2>2. CASE q = a
    <3>1. a # 0 /\ given'[q] = given[q] + 1 /\ (~ Out(q) => OneOut(q)')
      BY <1>1, <2>2
    <3>2. given'[q] > 1 => Again(q)'
      BY DEF Again
    <3> QED
      BY <1>2, <2>1, <3>1, <3>2
  <2>3. CASE q # a
    <3>1. /\ OneOut(q) => OneOut(q)'
          /\ given'[q] = given[q]
          /\ Out(q)' => Out(q)
      BY <2>3
    <3> QED
      BY <2>1, <3>1
  <2> QED
    BY <2>2, <2>3
<1>5. \A q \in Question : Late(q) => Late(q)'
  BY <1>0, <1>2, LateStays
<1>6. Settled'
  <2> SUFFICES ASSUME NEW q \in Question, before < q, q <= asked, q # awaiting
               PROVE  \/ Again(q)'
                      \/ given'[q] = 1 /\ ~ Out(q)'
                      \/ Late(q)'
                      \/ stop /\ awaiting = 0
    BY DEF Settled
  <2>1. \/ Again(q)'
        \/ given[q] = 1 /\ ~ Out(q)
        \/ Late(q)
        \/ stop /\ awaiting = 0
    BY <1>0, <1>8 DEF Settled
  <2>2. CASE q = a
    <3>1. given'[q] = given[q] + 1
      BY <1>1, <2>2
    <3>2. given'[q] > 1 => Again(q)'
      BY DEF Again
    <3> QED
      BY <1>2, <1>5, <2>1, <3>1, <3>2
  <2>3. CASE q # a
    <3>1. given'[q] = given[q] /\ (Out(q)' => Out(q))
      BY <2>3
    <3> QED
      BY <1>5, <2>1, <3>1
  <2> QED
    BY <2>2, <2>3
<1>7. AnswersMeet'
  BY <1>2, MeetStays
<1> QED
  BY <1>3, <1>4, <1>6, <1>7

LEMMA ClickKeeps ==
  ASSUME BridgeInv, Click
  PROVE  Messages' /\ ActedOnce' /\ Questions' /\ Counted' /\ Settled' /\ AnswersMeet'
<1>0. TypeOK /\ Messages /\ ActedOnce /\ Questions
  BY DEF BridgeInv
<1>1. PICK m \in Offered(page) : mail' = m /\ Given(m)
  BY DEF Click
<1>2. /\ sent < MaxSent /\ sent' = sent + 1 /\ sent \in Nat
      /\ UNCHANGED <<awaiting, answers, stop, bridge, wire, page, status, entered, asked, before,
                     strayed, delivered, kept>>
  BY <1>0, Bounds DEF Click, console, fleet, TypeOK
<1>3. /\ page # Nothing /\ m \in Message /\ m.id = sent + 1
      /\ m.kind = "answer" => m.about = page.awaiting /\ m.about # 0
  BY <1>0, <1>2, OfferedIsMessage
<1>4. m.about \in {0} \cup Question
  BY <1>3 DEF Message
<1>5. m.kind = "answer" => m.about \in 1 .. asked
  BY <1>0, <1>3, <1>4, Bounds DEF Questions, TypeOK, Question
<1>6. Messages' /\ ActedOnce'
  <2>1. \A i \in Id : /\ InFile(i)' => InFile(i) \/ i = sent + 1
                      /\ OnWire(i)' <=> OnWire(i)
                      /\ i \in Nat
    BY <1>1, <1>2, <1>3 DEF InFile, OnWire, Is, Id
  <2>2. \A i \in Id : i = sent + 1 => ~ OnWire(i) /\ delivered[i] = 0
    BY <1>0, <1>2 DEF Messages
  <2> QED
    BY <1>0, <1>2, <2>1, <2>2 DEF Messages, ActedOnce, KeptId
<1> PICK a : a = IF m.kind = "answer" THEN m.about ELSE 0
  OBVIOUS
<1>7. a \in {0} \cup 1 .. asked
  BY <1>5
<1>8. ASSUME NEW q
      PROVE  /\ FileHas(q)' => FileHas(q) \/ (q = a /\ a # 0)
             /\ WireHas(q)' <=> WireHas(q)
             /\ LineHas(q)' <=> LineHas(q)
             /\ QueueHas(q)' <=> QueueHas(q)
  BY <1>1, <1>2, <1>3 DEF FileHas, WireHas, LineHas, QueueHas, About
<1>9. ASSUME NEW q \in Question
      PROVE  /\ q # a => (OneOut(q) => OneOut(q)') /\ given'[q] = given[q]
             /\ q = a => given'[q] = given[q] + 1 /\ (~ Out(q) => OneOut(q)')
  <2>1. /\ q # a => given'[q] = given[q]
        /\ q = a => given'[q] = given[q] + 1
    BY <1>0, <1>1, <1>3, Bounds DEF Given, TypeOK, Question
  <2>2. q # a => (OneOut(q) => OneOut(q)')
    BY <1>2, <1>8 DEF OneOut, About
  <2>3. ASSUME ~ Out(q)
        PROVE  OneOut(q)'
    <3>1. ~ WireHas(q)' /\ ~ LineHas(q)' /\ ~ QueueHas(q)'
      BY <1>8, <2>3 DEF Out
    <3> QED
      BY <3>1 DEF OneOut, WireHas, QueueHas
  <2> QED
    BY <2>1, <2>2, <2>3
<1>10. a # 0 => a \in Question
  BY <1>4
<1>11. \A q : Out(q)' => Out(q) \/ (q = a /\ a # 0)
  BY <1>8 DEF Out
<1>12. Questions' /\ Counted' /\ Settled' /\ AnswersMeet'
  BY <1>2, <1>7, <1>9, <1>10, <1>11, GiveKeeps
<1> QED
  BY <1>6, <1>12

LEMMA FleetKeeps ==
  ASSUME BridgeInv, NEW s0 \in Session, ClickFleet(s0)
  PROVE  Messages' /\ ActedOnce' /\ Questions' /\ Counted' /\ Settled' /\ AnswersMeet'
<1>0. TypeOK /\ Messages /\ ActedOnce /\ Questions
  BY DEF BridgeInv
<1>1. PICK m \in {Sent(kind, 0) : kind \in {"pause", "resume", "stop"}}
                 \cup {Sent("answer", q) : q \in 1 .. asked} :
        wire' = [wire EXCEPT ![s0] = Append(wire[s0], m)] /\ Given(m)
  BY DEF ClickFleet
<1>2. /\ sent < MaxSent /\ sent' = sent + 1 /\ sent \in Nat
      /\ UNCHANGED <<awaiting, answers, stop, bridge, mail, kept, page, status, entered, asked,
                     before, strayed, delivered>>
  BY <1>0, Bounds DEF ClickFleet, console, dashboard, file, TypeOK
<1>3. /\ m \in Message /\ m.id = sent + 1
      /\ m.kind = "answer" => m.about \in 1 .. asked
      /\ 1 .. asked \subseteq Question /\ 0 \notin Question
  <2>1. 1 .. asked \subseteq Question /\ 0 \notin Question
    BY <1>0, Bounds DEF TypeOK, Question
  <2>2. CASE \E kind \in {"pause", "resume", "stop"} : m = Sent(kind, 0)
    BY <1>0, <1>2, <2>1, <2>2, SentIsMessage
  <2>3. CASE \E q \in 1 .. asked : m = Sent("answer", q)
    BY <1>0, <1>2, <2>1, <2>3, SentIsMessage
  <2> QED
    BY <1>1, <2>1, <2>2, <2>3
\* What is on a wire was there, or is the new message at the end of its wire.
<1>4. /\ wire[s0] \in Seq(Message) /\ Len(wire[s0]) \in Nat
      /\ DOMAIN wire[s0] = 1 .. Len(wire[s0])
      /\ DOMAIN wire'[s0] = 1 .. Len(wire[s0]) + 1
      /\ wire'[s0][Len(wire[s0]) + 1] = m
      /\ \A k \in DOMAIN wire[s0] : wire'[s0][k] = wire[s0][k]
      /\ \A s \in Session \ {s0} : wire'[s] = wire[s]
  <2>1. wire[s0] \in Seq(Message)
    BY <1>0 DEF TypeOK
  <2>2. wire'[s0] = Append(wire[s0], m) /\ \A s \in Session \ {s0} : wire'[s] = wire[s]
    BY <1>0, <1>1 DEF TypeOK
  <2> QED
    BY <1>3, <2>1, <2>2
<1>5. ASSUME NEW s \in Session, NEW k \in DOMAIN wire'[s]
      PROVE  \/ k \in DOMAIN wire[s] /\ wire'[s][k] = wire[s][k]
             \/ s = s0 /\ k = Len(wire[s0]) + 1 /\ wire'[s][k] = m
  BY <1>4, <1>5
<1>6. Messages' /\ ActedOnce'
  <2>1. ASSUME NEW i \in Id
        PROVE  /\ InFile(i)' <=> InFile(i)
               /\ OnWire(i)' => OnWire(i) \/ i = sent + 1
               /\ i \in Nat
    <3>1. OnWire(i)' => OnWire(i) \/ i = sent + 1
      BY <1>3, <1>5 DEF OnWire
    <3> QED
      BY <1>2, <3>1 DEF InFile, Is, Id
  <2>2. sent + 1 \in Id /\ ~ InFile(sent + 1) /\ ~ OnWire(sent + 1) /\ delivered[sent + 1] = 0
    <3>1. sent + 1 \in Id
      BY <1>3 DEF Message
    <3> QED
      BY <1>0, <1>2, <3>1 DEF Messages
  <2>3. \A s, t \in Session : \A k \in DOMAIN wire'[s], l \in DOMAIN wire'[t] :
          wire'[s][k].id = wire'[t][l].id => s = t /\ k = l
    <3> SUFFICES ASSUME NEW s \in Session, NEW t \in Session, NEW k \in DOMAIN wire'[s],
                        NEW l \in DOMAIN wire'[t], wire'[s][k].id = wire'[t][l].id
                 PROVE  s = t /\ k = l
      OBVIOUS
    <3>1. \A u \in Session : \A j \in DOMAIN wire[u] : wire[u][j].id # sent + 1
      BY <2>2 DEF OnWire
    <3>2. CASE /\ k \in DOMAIN wire[s] /\ wire'[s][k] = wire[s][k]
               /\ l \in DOMAIN wire[t] /\ wire'[t][l] = wire[t][l]
      BY <1>0, <3>2 DEF Messages
    <3>3. CASE ~ /\ k \in DOMAIN wire[s] /\ wire'[s][k] = wire[s][k]
                 /\ l \in DOMAIN wire[t] /\ wire'[t][l] = wire[t][l]
      BY <1>3, <1>5, <3>1, <3>3
    <3> QED
      BY <3>2, <3>3
  <2>4. \A i \in Id : InFile(i)' => /\ i <= sent' /\ (delivered'[i] = 0 \/ KeptId(i)')
                                   /\ ~ OnWire(i)'
    BY <1>0, <1>2, <2>1, <2>2 DEF Messages, KeptId
  <2>5. \A i \in Id : OnWire(i)' => i <= sent' /\ delivered'[i] = 0
    BY <1>0, <1>2, <2>1, <2>2 DEF Messages
  <2>6. \A i \in Id : i > sent' => delivered'[i] = 0
    BY <1>0, <1>2, <2>1 DEF Messages
  <2>7. ActedOnce'
    BY <1>0, <1>2 DEF ActedOnce
  <2> QED
    BY <2>3, <2>4, <2>5, <2>6, <2>7 DEF Messages
<1> PICK a : a = IF m.kind = "answer" THEN m.about ELSE 0
  OBVIOUS
<1>7. a \in {0} \cup 1 .. asked /\ (a # 0 => a \in Question)
  BY <1>3
<1>8. ASSUME NEW q
      PROVE  /\ FileHas(q)' <=> FileHas(q)
             /\ WireHas(q)' => WireHas(q) \/ (q = a /\ a # 0)
             /\ LineHas(q)' <=> LineHas(q)
             /\ QueueHas(q)' <=> QueueHas(q)
  <2>1. About(m, q) => q = a /\ a # 0
    BY <1>3 DEF About
  <2>2. WireHas(q)' => WireHas(q) \/ (q = a /\ a # 0)
    <3> SUFFICES ASSUME WireHas(q)' PROVE WireHas(q) \/ (q = a /\ a # 0)
      OBVIOUS
    <3>1. PICK s \in Session : \E k \in DOMAIN wire'[s] : (About(wire[s][k], q))'
      BY DEF WireHas
    <3>2. PICK k \in DOMAIN wire'[s] : (About(wire[s][k], q))'
      BY <3>1
    <3> QED
      BY <1>5, <2>1, <3>2 DEF WireHas, About
  <2>3. /\ FileHas(q)' <=> FileHas(q)
        /\ LineHas(q)' <=> LineHas(q)
        /\ QueueHas(q)' <=> QueueHas(q)
    BY <1>2 DEF FileHas, LineHas, QueueHas, About
  <2> QED
    BY <2>2, <2>3
<1>9. ASSUME NEW q \in Question
      PROVE  /\ q # a => (OneOut(q) => OneOut(q)') /\ given'[q] = given[q]
             /\ q = a => given'[q] = given[q] + 1 /\ (~ Out(q) => OneOut(q)')
  <2>1. /\ q # a => given'[q] = given[q]
        /\ q = a => given'[q] = given[q] + 1
    BY <1>0, <1>1, <1>3 DEF Given, TypeOK
  <2>2. ASSUME (OneOut(q) /\ ~ About(m, q)) \/ ~ Out(q)
        PROVE  \A s, t \in Session : \A k \in DOMAIN wire'[s], l \in DOMAIN wire'[t] :
                 (About(wire[s][k], q))' /\ (About(wire[t][l], q))' => s = t /\ k = l
    <3> SUFFICES ASSUME NEW s \in Session, NEW t \in Session, NEW k \in DOMAIN wire'[s],
                        NEW l \in DOMAIN wire'[t],
                        (About(wire[s][k], q))', (About(wire[t][l], q))'
                 PROVE  s = t /\ k = l
      OBVIOUS
    <3>1. /\ wire'[s][k] = m => About(m, q)
          /\ wire'[s][k] = wire[s][k] => About(wire[s][k], q)
          /\ wire'[t][l] = m => About(m, q)
          /\ wire'[t][l] = wire[t][l] => About(wire[t][l], q)
      BY DEF About
    <3>2. CASE OneOut(q) /\ ~ About(m, q)
      <4>1. /\ k \in DOMAIN wire[s] /\ About(wire[s][k], q)
            /\ l \in DOMAIN wire[t] /\ About(wire[t][l], q)
        BY <1>5, <3>1, <3>2
      <4> QED
        BY <3>2, <4>1 DEF OneOut
    <3>3. CASE ~ Out(q)
      <4>1. s = s0 /\ k = Len(wire[s0]) + 1 /\ t = s0 /\ l = Len(wire[s0]) + 1
        BY <1>5, <3>1, <3>3 DEF Out, WireHas
      <4> QED
        BY <4>1
    <3> QED
      BY <2>2, <3>2, <3>3
  <2>3. ASSUME q # a, OneOut(q)
        PROVE  OneOut(q)'
    <3>1. ~ About(m, q)
      BY <1>3, <2>3 DEF About
    <3>2. \A k, l \in DOMAIN answers' : answers'[k] = q /\ answers'[l] = q => k = l
      BY <1>2, <2>3 DEF OneOut
    <3>3. /\ FileHas(q)' => ~ WireHas(q)' /\ ~ LineHas(q)' /\ ~ QueueHas(q)'
          /\ WireHas(q)' => ~ LineHas(q)' /\ ~ QueueHas(q)'
          /\ LineHas(q)' => ~ QueueHas(q)'
      BY <1>8, <2>3 DEF OneOut
    <3> QED
      BY <2>2, <2>3, <3>1, <3>2, <3>3 DEF OneOut
  <2>4. ASSUME ~ Out(q)
        PROVE  OneOut(q)'
    <3>1. ~ FileHas(q)' /\ ~ LineHas(q)' /\ ~ QueueHas(q)'
      BY <1>8, <2>4 DEF Out
    <3>2. \A k, l \in DOMAIN answers' : answers'[k] = q /\ answers'[l] = q => k = l
      BY <3>1 DEF QueueHas
    <3> QED
      BY <2>2, <2>4, <3>1, <3>2 DEF OneOut
  <2> QED
    BY <2>1, <2>3, <2>4
<1>10. \A q : Out(q)' => Out(q) \/ (q = a /\ a # 0)
  BY <1>8 DEF Out
<1>11. Questions' /\ Counted' /\ Settled' /\ AnswersMeet'
  BY <1>2, <1>7, <1>9, <1>10, GiveKeeps
<1> QED
  BY <1>6, <1>11

\* A line of the terminal answers the question on screen.
LEMMA EnterKeeps ==
  ASSUME BridgeInv, Enter
  PROVE  Messages' /\ ActedOnce' /\ Questions' /\ Counted' /\ Settled' /\ AnswersMeet'
<1>0. TypeOK /\ Messages /\ ActedOnce /\ Questions
  BY DEF BridgeInv
<1> PICK a : a = awaiting
  OBVIOUS
<1>1. /\ a # 0 /\ a \in Question /\ a \in 1 .. asked /\ entered = <<>> /\ entered' = <<a>>
      /\ sent' = sent + 1 /\ sent \in Nat
      /\ \A q \in Question : given'[q] = IF q = a THEN given[q] + 1 ELSE given[q]
      /\ UNCHANGED <<awaiting, answers, stop, bridge, mail, kept, wire, page, status, asked,
                     before, strayed, delivered>>
  <2>1. a # 0 /\ a \in Question /\ a = asked
    BY <1>0 DEF Enter, IsAnswer, TypeOK, Questions
  <2>2. a \in 1 .. asked /\ sent \in Nat
    BY <1>0, <2>1, Bounds DEF TypeOK, Question
  <2> QED
    BY <2>1, <2>2 DEF Enter, IsAnswer, console, dashboard, file, fleet
<1>2. Messages' /\ ActedOnce'
  <2>1. \A i \in Id : (InFile(i)' <=> InFile(i)) /\ (OnWire(i)' <=> OnWire(i)) /\ i \in Nat
    BY <1>1 DEF InFile, OnWire, Is, Id
  <2> QED
    BY <1>0, <1>1, <2>1 DEF Messages, ActedOnce, KeptId
<1>3. ASSUME NEW q
      PROVE  /\ FileHas(q)' <=> FileHas(q)
             /\ WireHas(q)' <=> WireHas(q)
             /\ LineHas(q)' <=> q = a
             /\ QueueHas(q)' <=> QueueHas(q)
             /\ ~ LineHas(q)
  BY <1>1 DEF FileHas, WireHas, LineHas, QueueHas, About
<1>4. ASSUME NEW q \in Question
      PROVE  /\ q # a => (OneOut(q) => OneOut(q)')
             /\ q = a => (~ Out(q) => OneOut(q)')
  <2>1. q # a => (OneOut(q) => OneOut(q)')
    BY <1>1, <1>3 DEF OneOut, About
  <2>2. ASSUME ~ Out(q)
        PROVE  OneOut(q)'
    <3>1. ~ FileHas(q)' /\ ~ WireHas(q)' /\ ~ QueueHas(q)'
      BY <1>3, <2>2 DEF Out
    <3> QED
      BY <3>1 DEF OneOut, WireHas, QueueHas
  <2> QED
    BY <2>1, <2>2
<1>5. \A q : Out(q)' => Out(q) \/ (q = a /\ a # 0)
  BY <1>1, <1>3 DEF Out
<1>6. Questions' /\ Counted' /\ Settled' /\ AnswersMeet'
  BY <1>1, <1>4, <1>5, GiveKeeps
<1> QED
  BY <1>2, <1>6

\* It joins the queue a little later.
LEMMA PutKeeps ==
  ASSUME BridgeInv, PutEntered
  PROVE  Messages' /\ ActedOnce' /\ Questions' /\ Counted' /\ Settled' /\ AnswersMeet'
<1>0. TypeOK /\ Messages /\ ActedOnce /\ Questions /\ Counted /\ Settled
  BY DEF BridgeInv
<1>1. PICK e \in {0} \cup Question : entered = <<e>>
  BY <1>0 DEF PutEntered, TypeOK
<1>2. /\ entered' = <<>> /\ answers' = answers \o <<e>> /\ answers \in Seq({0} \cup Question)
      /\ UNCHANGED <<awaiting, stop, bridge, mail, kept, wire, page, status, asked, sent, before,
                     given, strayed, delivered>>
  BY <1>0, <1>1 DEF PutEntered, TypeOK, dashboard, file, fleet, counters, history
<1>3. /\ Len(answers) \in Nat /\ DOMAIN answers = 1 .. Len(answers)
      /\ DOMAIN answers' = 1 .. Len(answers) + 1 /\ answers'[Len(answers) + 1] = e
      /\ \A k \in DOMAIN answers : answers'[k] = answers[k]
  BY <1>2
<1>4. Messages' /\ ActedOnce'
  BY <1>0, <1>2 DEF Messages, ActedOnce, InFile, OnWire, KeptId, Is
<1>5. ASSUME NEW q
      PROVE  /\ FileHas(q)' <=> FileHas(q)
             /\ WireHas(q)' <=> WireHas(q)
             /\ ~ LineHas(q)'
             /\ LineHas(q) <=> q = e
             /\ QueueHas(q)' <=> (QueueHas(q) \/ q = e)
  <2>1. /\ FileHas(q)' <=> FileHas(q)
        /\ WireHas(q)' <=> WireHas(q)
        /\ ~ LineHas(q)'
        /\ LineHas(q) <=> q = e
    BY <1>1, <1>2 DEF FileHas, WireHas, LineHas, About
  <2>2. QueueHas(q)' <=> (QueueHas(q) \/ q = e)
    BY <1>3 DEF QueueHas
  <2> QED
    BY <2>1, <2>2
<1>6. \A q : Out(q)' <=> Out(q)
  BY <1>5 DEF Out
<1>7. ASSUME NEW q \in Question, OneOut(q)
      PROVE  OneOut(q)'
  <2>1. \A s, t \in Session : \A k \in DOMAIN wire'[s], l \in DOMAIN wire'[t] :
          (About(wire[s][k], q))' /\ (About(wire[t][l], q))' => s = t /\ k = l
    BY <1>2, <1>7 DEF OneOut, About
  <2>2. \A k, l \in DOMAIN answers' : answers'[k] = q /\ answers'[l] = q => k = l
    <3>1. q = e => ~ QueueHas(q)
      BY <1>5, <1>7 DEF OneOut
    <3>2. \A k, l \in DOMAIN answers : answers[k] = q /\ answers[l] = q => k = l
      BY <1>7 DEF OneOut
    <3>3. q = e => \A k \in DOMAIN answers : answers[k] # q
      BY <3>1 DEF QueueHas
    <3> QED
      BY <1>3, <3>2, <3>3
  <2>3. /\ FileHas(q)' => ~ WireHas(q)' /\ ~ LineHas(q)' /\ ~ QueueHas(q)'
        /\ WireHas(q)' => ~ LineHas(q)' /\ ~ QueueHas(q)'
        /\ LineHas(q)' => ~ QueueHas(q)'
    BY <1>5, <1>7 DEF OneOut
  <2> QED
    BY <2>1, <2>2, <2>3 DEF OneOut
<1>8. \A r \in Question : given'[r] >= given[r] /\ given'[r] \in Nat
  BY <1>0, <1>2 DEF TypeOK
<1>12. \A q \in Question : Again(q) => Again(q)'
  BY <1>2 DEF Again
<1>9. Questions' /\ Counted'
  BY <1>0, <1>2, <1>6, <1>7, <1>12 DEF Questions, Counted
<1>10. Settled'
  <2>1. \A q \in Question : Late(q) => Late(q)'
    BY <1>0, <1>2, <1>8, LateStays
  <2> QED
    BY <1>0, <1>2, <1>6, <1>12, <2>1 DEF Settled
<1>11. AnswersMeet'
  BY <1>2, <1>8, MeetStays
<1> QED
  BY <1>4, <1>9, <1>10, <1>11

---------------------------------------------------------------------------

LEMMA BridgeInvHolds == Spec => []BridgeInv
<1>1. Init => BridgeInv
  <2> SUFFICES ASSUME Init PROVE BridgeInv
    OBVIOUS
  <2>1. TypeOK
    <3>1. <<>> \in Seq(Message) /\ <<>> \in Seq({0} \cup Question)
      OBVIOUS
    <3>2. wire \in [Session -> Seq(Message)]
      BY <3>1 DEF Init
    <3>3. bridge \in [at : {"off", "tick", "read", "relay"}, stopped : BOOLEAN,
                      asking : BOOLEAN, read : Message \cup {Nothing}]
      BY DEF Init, NoBridge
    <3>4. reporter \in [Session -> {"off", "on", "left"}]
      BY DEF Init
    <3>5. given \in [Question -> Nat] /\ delivered \in [Id -> Nat]
      BY DEF Init
    <3> QED
      BY <3>1, <3>2, <3>3, <3>4, <3>5, Bounds DEF Init, TypeOK
  <2>2. \A q : /\ ~ FileHas(q) /\ ~ WireHas(q) /\ ~ LineHas(q) /\ ~ QueueHas(q)
               /\ ~ InFile(q) /\ ~ OnWire(q)
    BY NothingIs DEF Init, NoBridge, FileHas, WireHas, LineHas, QueueHas, InFile, OnWire
  <2>3. Messages /\ ActedOnce
    BY <2>2 DEF Init, Messages, ActedOnce
  <2>4. Fresh /\ LeftoversIgnored
    BY DEF Init, NoBridge, Fresh, LeftoversIgnored
  <2>5. Questions /\ AnswersMeet
    BY <2>2 DEF Init, Questions, AnswersMeet, Out
  <2>6. Counted
    BY <2>2 DEF Init, Counted, Out, OneOut, WireHas, QueueHas
  <2>7. Settled
    BY DEF Init, Settled, Question
  <2> QED
    BY <2>1, <2>3, <2>4, <2>5, <2>6, <2>7 DEF BridgeInv
<1>2. BridgeInv /\ [Next]_vars => BridgeInv'
  <2> SUFFICES ASSUME BridgeInv, [Next]_vars PROVE BridgeInv'
    OBVIOUS
  <2>1. TypeOK' /\ Fresh' /\ LeftoversIgnored'
    BY TypeKept, FreshKept DEF BridgeInv
  <2>2. Messages' /\ ActedOnce' /\ Questions' /\ Counted' /\ Settled' /\ AnswersMeet'
    <3>1. CASE \/ StopAsking \/ OpenSession \/ Hold \/ GoOn \/ EndSession \/ CloseSession
               \/ NeverOpened \/ Render \/ TogglePause \/ RequestStop \/ Tick \/ ReadAnswer
               \/ \E s \in Session : Drop(s)
               \/ UNCHANGED vars
      BY <2>1, <3>1, QuietSteps, QuietKeeps
    <3>2. CASE Ask
      BY <3>2, AskKeeps
    <3>3. CASE TakeAnswer
      BY <3>3, TakeKeeps
    <3>4. CASE NewProcess
      BY <3>4, RestartKeeps
    <3>5. CASE RelayAnswer
      BY <2>1, <3>5, RelayKeeps
    <3>6. CASE \E s \in Session : DispatchControl(s)
      BY <2>1, <3>6, DispatchKeeps
    <3>7. CASE Click
      BY <3>7, ClickKeeps
    <3>8. CASE \E s \in Session : ClickFleet(s)
      BY <3>8, FleetKeeps
    <3>9. CASE Enter \/ PutEntered
      BY <3>9, EnterKeeps, PutKeeps
    <3> QED
      BY <3>1, <3>2, <3>3, <3>4, <3>5, <3>6, <3>7, <3>8, <3>9 DEF Next, Work
  <2> QED
    BY <2>1, <2>2 DEF BridgeInv
<1> QED
  BY <1>1, <1>2, PTL DEF Spec

\* A click, an answer or a stop is acted on at most once, for every number of
\* sessions and messages, unless the file it was read from could not be
\* removed: however the ticks of the bridge, pages that are rendered late,
\* restarts and dropped connections fall (web_bridge.py:78-85, 117-120,
\* socket_reporter.py).
THEOREM ClicksActOnce == Spec => []ActedOnce
<1> QED
  BY BridgeInvHolds, PTL DEF BridgeInv

\* What lay in the answer file before a session is never read by its bridge,
\* unless the bridge could not remove it (WebBridge.start).
THEOREM OldAnswersUnread == Spec => []LeftoversIgnored
<1> QED
  BY BridgeInvHolds, PTL DEF BridgeInv

\* An answer meets its question, for every number of questions and hands that
\* answer them, until one comes too many: given twice, or read twice out of a
\* file that could not be removed; what then goes astray is that one and those
\* after it (_answers of the console).
THEOREM AnswersMeetQuestions == Spec => []AnswersMeet
<1> QED
  BY BridgeInvHolds, PTL DEF BridgeInv
=============================================================================
