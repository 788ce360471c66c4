-------------------------------- MODULE Bridge --------------------------------
(***************************************************************************)
(* Who answers the program's questions, pauses it and stops it besides the *)
(* terminal: the dashboard, through two files                              *)
(* (src/src/JFI/manager/web_bridge.py, src/src/JFI/web/dashboard.py), and  *)
(* a fleet server, through a socket (manager/socket_reporter.py).  A click *)
(* is made on a page that may be old.  A session has a bridge and a        *)
(* reporter of its own; the console is the process's.                      *)
(***************************************************************************)
EXTENDS Naturals, Sequences

CONSTANTS
  MaxSessions,   \* bound: sessions opened, by Ctrl+N or by a new process
  MaxQuestions,  \* bound: questions asked
  MaxSent        \* bound: clicks of the two pages, lines typed as answers, Ctrl+P, and
                 \* answer files that could not be removed

ASSUME BridgeAssumption ==
  MaxSessions \in Nat \ {0} /\ MaxQuestions \in Nat \ {0} /\ MaxSent \in Nat

Session == 1 .. MaxSessions
Question == 1 .. MaxQuestions
Id == 1 .. MaxSent

VARIABLES
  worker,    \* the pipeline thread: "open", "run", "held", "close", "over"
  awaiting,  \* the question on screen; 0: none
  answers,   \* _answers: what was given and not yet taken
  paused, stop,
  bridge,    \* the thread of the session's WebBridge
  reporter,  \* the thread of each session's SocketReporter: "off", "on", "left"
  status,    \* web_status.json
  mail,      \* web_answer.json
  wire,      \* control messages on the way to each reporter
  page,      \* what the dashboard shows
  entered,   \* a line the terminal takes for an answer, not yet in the queue
  asked, opened, sent, \* counters: questions, sessions, messages
  before,    \* history variable: how many questions earlier processes asked
  given,     \* history variable: how many answers each question was given
  strayed,   \* history variable: the questions whose answers others took, in this process
  delivered, \* history variable: how often each message was acted on
  kept       \* history variable: what was in the files that could not be removed

console == <<awaiting, answers, paused, stop>>
file == <<mail, kept>>
dashboard == <<status, file, page>>
fleet == <<reporter, wire>>
counters == <<asked, opened, sent>>
history == <<before, given, strayed, delivered>>
vars == <<worker, console, bridge, dashboard, fleet, entered, counters, history>>

Nothing == [kind |-> "nothing"]
\* about: the question the person saw; session: how many were opened then.
Message ==
  [kind : {"answer", "queue", "pause", "resume", "stop"}, id : Id,
   about : {0} \cup Question, session : {0} \cup Session]
Snapshot == [kind : {"snapshot"}, awaiting : {0} \cup Question, paused : BOOLEAN]
Now == [kind |-> "snapshot", awaiting |-> awaiting, paused |-> paused]

NoBridge == [at |-> "off", stopped |-> FALSE, asking |-> FALSE, read |-> Nothing]

TypeOK ==
  /\ worker \in {"open", "run", "held", "close", "over"}
  /\ awaiting \in {0} \cup Question
  /\ answers \in Seq({0} \cup Question)
  /\ paused \in BOOLEAN /\ stop \in BOOLEAN
  /\ bridge \in [at : {"off", "tick", "read", "relay"}, stopped : BOOLEAN, asking : BOOLEAN,
                 read : Message \cup {Nothing}]
  /\ reporter \in [Session -> {"off", "on", "left"}]
  /\ status \in Snapshot \cup {Nothing} /\ mail \in Message \cup {Nothing}
  /\ wire \in [Session -> Seq(Message)]
  /\ page \in Snapshot \cup {Nothing}
  /\ entered \in {<<>>} \cup {<<q>> : q \in {0} \cup Question}
  /\ asked \in 0 .. MaxQuestions /\ opened \in 0 .. MaxSessions /\ sent \in 0 .. MaxSent
  /\ before \in 0 .. MaxQuestions
  /\ given \in [Question -> Nat]
  /\ strayed \subseteq {0} \cup Question
  /\ delivered \in [Id -> Nat]
  /\ kept \subseteq Message

Init ==
  /\ worker = "open" /\ awaiting = 0 /\ answers = <<>> /\ paused = FALSE /\ stop = FALSE
  /\ bridge = NoBridge
  /\ reporter = [s \in Session |-> "off"]
  /\ status = Nothing /\ mail = Nothing /\ page = Nothing
  /\ wire = [s \in Session |-> <<>>]
  /\ entered = <<>>
  /\ asked = 0 /\ opened = 0 /\ sent = 0 /\ kept = {}
  /\ before = 0 /\ given = [q \in Question |-> 0] /\ strayed = {} /\ delivered = [i \in Id |-> 0]

(***************************************************************************)
(* The pipeline thread                                                     *)
(***************************************************************************)

Move(from, to) == worker = from /\ awaiting = 0 /\ worker' = to

\* get_user_input, get_user_choice; with a stop they return at once.
Ask ==
  /\ worker \in {"open", "run"} /\ awaiting = 0 /\ ~stop
  /\ asked < MaxQuestions
  /\ asked' = asked + 1 /\ awaiting' = asked + 1
  /\ UNCHANGED <<worker, answers, paused, stop, bridge, dashboard, fleet, entered, opened,
                 sent, history>>

TakeAnswer ==
  /\ awaiting # 0 /\ answers # <<>>
  /\ strayed' = strayed \cup ({Head(answers)} \ {awaiting})
  /\ answers' = Tail(answers)
  /\ awaiting' = 0
  /\ UNCHANGED <<worker, paused, stop, bridge, dashboard, fleet, entered, counters, before,
                 given, delivered>>

StopAsking ==
  /\ awaiting # 0 /\ stop
  /\ awaiting' = 0
  /\ UNCHANGED <<worker, answers, paused, stop, bridge, dashboard, fleet, entered, counters,
                 history>>

\* A file that cannot be removed stays (OSError is passed over): what is in it
\* is read once more.
Undeleted ==
  /\ mail # Nothing /\ mail' = mail
  /\ sent < MaxSent /\ sent' = sent + 1
  /\ kept' = kept \cup {mail}

Removed(after) == mail' = after /\ UNCHANGED <<sent, kept>>

\* WebBridge.start removes an old answer; SocketReporter.start.
\* Variant: the old answer stays.
AtStartKept == mail
AtStart == Nothing
OpenSession ==
  /\ Move("open", "run") /\ ~stop /\ opened < MaxSessions
  /\ opened' = opened + 1
  /\ Removed(AtStart) \/ Undeleted
  /\ bridge' = [NoBridge EXCEPT !.at = "tick"]
  /\ reporter' = [reporter EXCEPT ![opened'] = "on"]
  /\ UNCHANGED <<console, status, page, wire, entered, asked, history>>

\* The top of a turn: wait_while_paused.
Hold ==
  /\ Move("run", "held") /\ paused /\ ~stop
  /\ UNCHANGED <<console, bridge, dashboard, fleet, entered, counters, history>>

\* Variant: only a resume ends the wait.
MayGoOnResumed == ~paused
MayGoOn == ~paused \/ stop
GoOn ==
  /\ Move("held", "run") /\ MayGoOn
  /\ UNCHANGED <<console, bridge, dashboard, fleet, entered, counters, history>>

\* The session ends: of itself, by Ctrl+N in the idle wait, or stopped.
EndSession ==
  /\ Move("run", "close")
  /\ bridge' = [bridge EXCEPT !.stopped = TRUE]
  /\ UNCHANGED <<console, dashboard, fleet, entered, counters, history>>

\* WebBridge.stop: after the thread the files go, those that can be removed.
\* (The join has a limit of two seconds; what may take longer in a tick is
\* saving a request it has queued, its last act.)  SocketReporter.stop does
\* not end a thread that waits for a message: it is left until its connection
\* drops.
CloseSession ==
  /\ worker = "close" /\ bridge.at = "off"
  /\ worker' \in IF stop THEN {"over"} ELSE {"open", "over"}
  /\ status' \in {status, Nothing}
  /\ mail' \in {mail, Nothing}
  /\ \/ reporter' = [reporter EXCEPT ![opened] = "left"] /\ UNCHANGED wire
     \/ reporter' = [reporter EXCEPT ![opened] = "off"] /\ wire' = [wire EXCEPT ![opened] = <<>>]
  /\ UNCHANGED <<console, bridge, page, kept, entered, counters, history>>

\* A stop, or no name for the session.
NeverOpened ==
  /\ Move("open", "over")
  /\ UNCHANGED <<console, bridge, dashboard, fleet, entered, counters, history>>

\* The process is killed, or ends; another one starts with what is on disk.
NewProcess ==
  /\ opened < MaxSessions
  /\ worker' = "open" /\ awaiting' = 0 /\ answers' = <<>> /\ paused' = FALSE /\ stop' = FALSE
  /\ bridge' = NoBridge
  /\ reporter' = [s \in Session |-> "off"]
  /\ wire' = [s \in Session |-> <<>>]
  /\ entered' = <<>>
  /\ before' = asked /\ strayed' = {}
  /\ UNCHANGED <<dashboard, counters, given, delivered>>

(***************************************************************************)
(* What the console does with a message                                    *)
(***************************************************************************)

Deliver(m) ==
  /\ delivered' = [delivered EXCEPT ![m.id] = @ + 1]
  /\ answers' = IF m.kind = "answer" THEN Append(answers, m.about) ELSE answers
  /\ paused' = IF m.kind \in {"pause", "resume"} THEN m.kind = "pause" ELSE paused
  /\ stop' = (stop \/ m.kind = "stop")
  /\ UNCHANGED <<awaiting, before, given, strayed>>

(***************************************************************************)
(* WebBridge                                                               *)
(***************************************************************************)

Tick ==
  /\ bridge.at = "tick"
  /\ IF bridge.stopped
     THEN bridge' = NoBridge /\ UNCHANGED status
     ELSE /\ status' = Now
          /\ bridge' = [bridge EXCEPT !.at = "read", !.asking = awaiting # 0]
  /\ UNCHANGED <<worker, console, file, page, fleet, entered, counters, history>>

ReadAnswer ==
  /\ bridge.at = "read"
  /\ bridge' = [bridge EXCEPT !.at = IF mail = Nothing THEN "tick" ELSE "relay",
                              !.asking = mail # Nothing /\ @, !.read = mail]
  /\ UNCHANGED <<worker, console, dashboard, fleet, entered, counters, history>>

\* The file is removed, or stays; what was read is acted on, but an answer is
\* dropped when the snapshot of this tick shows no question.
\* Variant: what was read stays in the file.
AfterReadingKept == mail
AfterReading == Nothing
RelayAnswer ==
  LET m == bridge.read IN
  /\ bridge.at = "relay"
  /\ Removed(AfterReading) \/ Undeleted
  /\ bridge' = [bridge EXCEPT !.at = "tick", !.asking = FALSE, !.read = Nothing]
  /\ IF m.kind = "answer" /\ ~bridge.asking THEN UNCHANGED <<console, history>> ELSE Deliver(m)
  /\ UNCHANGED <<worker, status, page, fleet, entered, asked, opened>>

(***************************************************************************)
(* The dashboard and the fleet server                                      *)
(***************************************************************************)

Render ==
  /\ page' = status
  /\ UNCHANGED <<worker, console, bridge, status, file, fleet, entered, counters, history>>

Sent(kind, about) == [kind |-> kind, id |-> sent + 1, about |-> about, session |-> opened]

\* The messages a page with this snapshot can send.
Offered(snapshot) ==
  IF snapshot = Nothing THEN {}
  ELSE {IF snapshot.awaiting # 0 THEN Sent("answer", snapshot.awaiting) ELSE Sent("queue", 0),
        IF snapshot.paused THEN Sent("resume", 0) ELSE Sent("pause", 0)}

Given(m) == given' = IF m.kind = "answer" THEN [given EXCEPT ![m.about] = @ + 1] ELSE given

Click ==
  /\ sent < MaxSent /\ sent' = sent + 1
  /\ \E m \in Offered(page) : mail' = m /\ Given(m)
  /\ UNCHANGED <<worker, console, bridge, status, page, kept, fleet, entered, asked, opened,
                 before, strayed, delivered>>

\* The server shows a session as it was at some time: any question asked.
\* (The requests it sends are the remote submitters of InputQueue.)
ClickFleet(s) ==
  /\ reporter[s] # "off"
  /\ sent < MaxSent /\ sent' = sent + 1
  /\ \E m \in {Sent(kind, 0) : kind \in {"pause", "resume", "stop"}}
             \cup {Sent("answer", q) : q \in 1 .. asked} :
       wire' = [wire EXCEPT ![s] = Append(@, m)] /\ Given(m)
  /\ UNCHANGED <<worker, console, bridge, dashboard, reporter, entered, asked, opened, before, strayed,
                 delivered>>

(***************************************************************************)
(* SocketReporter                                                          *)
(***************************************************************************)

\* The connection drops: what was on the way is lost.  The reporter connects
\* again, unless it was stopped.
Drop(s) ==
  /\ wire[s] # <<>> \/ reporter[s] = "left"
  /\ reporter' = [reporter EXCEPT ![s] = IF @ = "left" THEN "off" ELSE @]
  /\ wire' = [wire EXCEPT ![s] = <<>>]
  /\ UNCHANGED <<worker, console, bridge, dashboard, entered, counters, history>>

DispatchControl(s) ==
  /\ reporter[s] # "off" /\ wire[s] # <<>>
  /\ Deliver(Head(wire[s]))
  /\ wire' = [wire EXCEPT ![s] = Tail(@)]
  /\ UNCHANGED <<worker, bridge, dashboard, reporter, entered, counters>>

(***************************************************************************)
(* The terminal                                                            *)
(***************************************************************************)

\* _on_accept looks at awaiting under the lock; a line typed with no question
\* on screen is queued.
\* Variant: every line is an answer.
IsAnswerAlways == worker # "over"
IsAnswer == awaiting # 0
Enter ==
  /\ entered = <<>> /\ IsAnswer
  /\ sent < MaxSent /\ sent' = sent + 1
  /\ entered' = <<awaiting>>
  /\ given' = [q \in Question |-> IF q = awaiting THEN given[q] + 1 ELSE given[q]]
  /\ UNCHANGED <<worker, console, bridge, dashboard, fleet, asked, opened, before, strayed,
                 delivered>>

\* It puts the line when it has let go of the lock.
PutEntered ==
  /\ entered # <<>>
  /\ answers' = answers \o entered
  /\ entered' = <<>>
  /\ UNCHANGED <<worker, awaiting, paused, stop, bridge, dashboard, fleet, counters, history>>

\* Ctrl+P and Ctrl+C.
TogglePause ==
  /\ worker \in {"run", "held"} /\ awaiting = 0
  /\ sent < MaxSent /\ sent' = sent + 1
  /\ paused' = ~paused
  /\ UNCHANGED <<worker, awaiting, answers, stop, bridge, dashboard, fleet, entered, asked, opened,
                 history>>

RequestStop ==
  /\ worker # "over" /\ ~stop
  /\ stop' = TRUE
  /\ UNCHANGED <<worker, awaiting, answers, paused, bridge, dashboard, fleet, entered, counters,
                 history>>

Work ==
  \/ Ask \/ TakeAnswer \/ StopAsking \/ OpenSession \/ Hold \/ GoOn
  \/ EndSession \/ CloseSession \/ NeverOpened

Next ==
  \/ Work \/ NewProcess \/ Render \/ Click \/ Enter \/ PutEntered \/ TogglePause \/ RequestStop
  \/ Tick \/ ReadAnswer \/ RelayAnswer
  \/ \E s \in Session : ClickFleet(s) \/ Drop(s) \/ DispatchControl(s)

\* Once stopped, the pipeline thread comes to the end of its session: it looks
\* at stop five times a second wherever it waits.  The bridge's thread runs.
Fairness ==
  /\ WF_vars(stop /\ (StopAsking \/ GoOn \/ EndSession \/ CloseSession \/ NeverOpened))
  /\ WF_vars(Tick \/ ReadAnswer \/ RelayAnswer)

Spec == Init /\ [][Next]_vars
FairSpec == Spec /\ Fairness

(***************************************************************************)
(* Properties.                                                             *)
(***************************************************************************)

\* No click is acted on twice, however ticks, clicks, closing sessions and
\* the dropped connections of two sessions interleave, unless the file it was
\* read from could not be removed (web_bridge.py:35-36, 117-120).
ActedOnce == \A i \in Id : delivered[i] <= 1 \/ \E m \in kept : m.id = i

\* What lay in the answer file before a session started is not for it, also
\* when it was written after the last session removed its files, when that
\* one could not remove them, or was killed; unless its own start could not
\* remove it either (WebBridge.start, web_bridge.py:78-85).
LeftoversIgnored ==
  bridge.read # Nothing => bridge.read.session = opened \/ bridge.read \in kept

About(m, q) == m.kind = "answer" /\ m.about = q
Again(q) == given[q] > 1 \/ \E m \in kept : About(m, q)

\* A question takes an answer meant for another one only after an answer too
\* many: of a question answered twice, by two hands or out of a file that was
\* not removed, or one an earlier process asked.  That one strays, and every
\* later answer may then be one question late, since nobody empties the
\* queue.  With one person at a time, on a page that is of this process,
\* every answer meets its question.
AnswersMeet ==
  \A q \in strayed :
    \E r \in strayed \cap Question : r <= q /\ (Again(r) \/ r <= before)

\* A stop ends the run, whatever it waits for: an answer, a resume, a bridge
\* (should_stop in each of the console's waits).
StopEnds == stop ~> (worker = "over" \/ ~stop)
=============================================================================
