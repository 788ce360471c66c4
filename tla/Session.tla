------------------------------- MODULE Session -------------------------------
(***************************************************************************)
(* The sessions of a project: what processes that open them read from and  *)
(* write to the shared database (src/src/JFI/session, runbook_tools.py,    *)
(* runner.py's _run_session).  The lock of SessionLock keeps processes     *)
(* apart; the threads of one process (a batch of planner episodes) are     *)
(* kept apart by a lock around the append to the history only.             *)
(***************************************************************************)
EXTENDS SessionLock, Sequences, SequencesExt

CONSTANTS
  Runner,    \* managers made by _run_session; the others only look
  Ids,       \* session ids
  OldId,     \* ids of sessions the v1 pipeline left in the database
  Thread,    \* "main" and the workers of a parallel batch
  Command,   \* what a runbook entry may run
  NoSession,
  MaxRows    \* bound: history rows of one session

ASSUME SessionAssumption ==
  /\ Runner \subseteq Manager
  /\ \A m, n \in Runner : Home[m] = Home[n] => m = n  \* run_pipeline runs one session after another
  /\ OldId \subseteq Ids
  /\ NoSession \notin Ids
  /\ "main" \in Thread
  /\ MaxRows \in Nat \ {0}

VARIABLES
  pc,        \* where the object of a manager is
  sess,      \* session_id of a manager
  memory,    \* self.history
  flushed,   \* _flushed_count
  stage,     \* what a thread is in the middle of
  appending, \* _APPEND_LOCK of each process: the manager's thread that has it
  version,   \* SessionRecord.pipeline_version; "none" is no record
  born,      \* SessionRecords in the order of updated_at, set at insert
  rows,      \* HistoryMessage rows of each session, in the order of commit
  runbook,   \* the RunbookEntry "test" of each session
  vouched    \* history variable: commands some runbook_set called verified

memoryVars == <<pc, sess, memory, flushed>>
threadVars == <<stage, appending>>
recordVars == <<version, born>>
runbookVars == <<runbook, vouched>>
vars == <<lockVars, memoryVars, threadVars, recordVars, rows, runbookVars>>

Goal == "goal"
Said == {Goal, "said"}
Row == [seq : Nat, text : Said, episode : BOOLEAN]
NoEntry == [command |-> "none", verified |-> FALSE]
Entry == [command : Command, verified : BOOLEAN] \cup {NoEntry}

Idle == [at |-> "idle"]
Stage ==
  {Idle}
  \cup [at : {"append"}, max : 0 .. MaxRows, new : Seq(Said), episode : BOOLEAN]

Free == <<>>

TypeOK ==
  /\ LockTypeOK
  /\ pc \in [Manager -> {"away", "opened", "asking", "running", "leaving"}]
  /\ sess \in [Manager -> Ids \cup {NoSession}]
  /\ \A m \in Manager : memory[m] \in Seq(Said) /\ flushed[m] \in 0 .. Len(memory[m])
  /\ \A m \in Manager : \A t \in Thread : stage[m][t] \in Stage
  /\ appending \in [Process -> (Manager \X Thread) \cup {Free}]
  /\ version \in [Ids -> {"none", "v1", "v2"}]
  /\ born \in Seq(Ids) /\ IsInjective(born)
  /\ \A s \in Ids : rows[s] \in Seq(Row) /\ Len(rows[s]) <= MaxRows
  /\ runbook \in [Ids -> Entry]
  /\ vouched \in [Ids -> SUBSET Command]

Init ==
  /\ LockInit
  /\ pc = [m \in Manager |-> "away"]
  /\ sess = [m \in Manager |-> NoSession]
  /\ memory = [m \in Manager |-> <<>>]
  /\ flushed = [m \in Manager |-> 0]
  /\ stage = [m \in Manager |-> [t \in Thread |-> Idle]]
  /\ appending = [p \in Process |-> Free]
  /\ version = [s \in Ids |-> IF s \in OldId THEN "v1" ELSE "none"]
  /\ born = SetToSeq(OldId)
  /\ rows = [s \in Ids |-> IF s \in OldId
                THEN <<[seq |-> 1, text |-> Goal, episode |-> FALSE]>> ELSE <<>>]
  /\ runbook = [s \in Ids |-> NoEntry]
  /\ vouched = [s \in Ids |-> {}]

---------------------------------------------------------------------------
(* Opening and leaving a session.                                          *)

\* Where the messages of the session itself are; the others are an episode's.
Own(s) == {i \in DOMAIN rows[s] : ~ rows[s][i].episode}

\* load_history_from_db: the session's own messages, in seq order.
Conversation(s) ==
  LET nth(k) == CHOOSE i \in Own(s) : Cardinality({j \in Own(s) : j <= i}) = k
  IN [k \in 1 .. Cardinality(Own(s)) |-> rows[s][nth(k)].text]

HasHistory(s) == rows[s] # <<>>

\* carry_over: the latest other v2 session that has a runbook, if any.
CarriedFrom(s) ==
  LET sources == {i \in 1 .. Len(born) : /\ born[i] # s /\ version[born[i]] = "v2"
                                         /\ runbook[born[i]] # NoEntry}
  IN IF sources = {} THEN NoEntry
     ELSE LET last == CHOOSE i \in sources : \A j \in sources : j <= i
          IN [command |-> runbook[born[last]].command, verified |-> FALSE]

\* _record: the record of a session that has none, with what is carried over.
EnsureRecord(s) ==
  IF version[s] # "none" THEN UNCHANGED <<recordVars, runbook>>
  ELSE /\ version' = [version EXCEPT ![s] = "v2"]
       /\ born' = Append(born, s)
       /\ runbook' = [runbook EXCEPT ![s] = CarriedFrom(s)]

\* Variant: what was read back counts as not saved yet.
OpenUnflushed(m, s) ==
  /\ pc[m] = "away" /\ Acquire(m)
  /\ pc' = [pc EXCEPT ![m] = "opened"]
  /\ sess' = [sess EXCEPT ![m] = s]
  /\ memory' = [memory EXCEPT ![m] = Conversation(s)]
  /\ flushed' = [flushed EXCEPT ![m] = 0]
  /\ EnsureRecord(s)
  /\ UNCHANGED <<threadVars, rows, vouched>>

\* SimpleSessionManager(console, s).
Open(m, s) ==
  /\ pc[m] = "away" /\ Acquire(m)
  /\ pc' = [pc EXCEPT ![m] = "opened"]
  /\ sess' = [sess EXCEPT ![m] = s]
  /\ LET history == IF HasHistory(s) THEN Conversation(s) ELSE <<>>
     IN /\ memory' = [memory EXCEPT ![m] = history]
        /\ flushed' = [flushed EXCEPT ![m] = Len(history)]
  /\ EnsureRecord(s)
  /\ UNCHANGED <<threadVars, rows, vouched>>

\* The object is dropped, its claim released.
Drop(m) ==
  /\ Release(m)
  /\ pc' = [pc EXCEPT ![m] = "away"]
  /\ sess' = [sess EXCEPT ![m] = NoSession]
  /\ memory' = [memory EXCEPT ![m] = <<>>]
  /\ flushed' = [flushed EXCEPT ![m] = 0]

\* A manager that only looked; and the runner, faced with a v1 session.
Refuse(m) ==
  /\ pc[m] = "opened"
  /\ m \in Runner => HasHistory(sess[m]) /\ version[sess[m]] # "v2"
  /\ Drop(m)
  /\ UNCHANGED <<threadVars, recordVars, rows, runbookVars>>

\* Variant: a session that has a record is resumed.
BeginRecorded(m) ==
  /\ pc[m] = "opened" /\ m \in Runner
  /\ HasHistory(sess[m]) => version[sess[m]] = "v2"
  /\ pc' = [pc EXCEPT ![m] = IF version[sess[m]] = "v2" THEN "running" ELSE "asking"]
  /\ UNCHANGED <<lockVars, sess, memory, flushed, threadVars, recordVars, rows, runbookVars>>

\* is_resuming goes straight on; a new session asks for its goal.
Begin(m) ==
  /\ pc[m] = "opened" /\ m \in Runner
  /\ HasHistory(sess[m]) => version[sess[m]] = "v2"
  /\ pc' = [pc EXCEPT ![m] = IF HasHistory(sess[m]) THEN "running" ELSE "asking"]
  /\ UNCHANGED <<lockVars, sess, memory, flushed, threadVars, recordVars, rows, runbookVars>>

\* The end of the run, a stop, an empty goal: `finally`.  A batch has ended.
Leave(m) ==
  /\ pc[m] \in {"asking", "running"}
  /\ \A t \in Thread : stage[m][t] = Idle
  /\ Drop(m)
  /\ UNCHANGED <<threadVars, recordVars, rows, runbookVars>>

\* Killed between any two commits.
Crash(p) ==
  LET mine == {m \in Manager : Home[m] = p} IN
  /\ Claims(p) # {}
  /\ Die(p)
  /\ pc' = [m \in Manager |-> IF m \in mine THEN "away" ELSE pc[m]]
  /\ sess' = [m \in Manager |-> IF m \in mine THEN NoSession ELSE sess[m]]
  /\ memory' = [m \in Manager |-> IF m \in mine THEN <<>> ELSE memory[m]]
  /\ flushed' = [m \in Manager |-> IF m \in mine THEN 0 ELSE flushed[m]]
  /\ stage' = [m \in Manager |->
                 IF m \in mine THEN [t \in Thread |-> Idle] ELSE stage[m]]
  /\ appending' = [appending EXCEPT ![p] = Free]
  /\ UNCHANGED <<recordVars, rows, runbookVars>>

---------------------------------------------------------------------------
(* The history.  A message of the session joins memory and is saved; a     *)
(* message of an episode is appended to the rows only.                     *)

MaxSeq(s) ==
  LET seqs == {rows[s][i].seq : i \in DOMAIN rows[s]}
  IN IF seqs = {} THEN 0 ELSE CHOOSE n \in seqs : \A k \in seqs : k <= n

\* Variant: max(seq) is read without the lock.
ReadUnlocked(m, t, new, episode) ==
  /\ stage[m][t] = Idle
  /\ Len(rows[sess[m]]) + Len(new) <= MaxRows
  /\ stage' = [stage EXCEPT ![m][t] =
                 [at |-> "append", max |-> MaxSeq(sess[m]), new |-> new,
                  episode |-> episode]]
  /\ UNCHANGED appending

\* append_history_to_db: _APPEND_LOCK, then max(seq) is read.
LockAndRead(m, t, new, episode) ==
  /\ appending[Home[m]] = Free
  /\ stage[m][t] = Idle
  /\ Len(rows[sess[m]]) + Len(new) <= MaxRows
  /\ appending' = [appending EXCEPT ![Home[m]] = <<m, t>>]
  /\ stage' = [stage EXCEPT ![m][t] =
                 [at |-> "append", max |-> MaxSeq(sess[m]), new |-> new,
                  episode |-> episode]]

\* add_message of the goal, a phase's marker or an iteration's feedback:
\* by the pipeline's own thread, which has no batch running then.
AddMessage(m) ==
  LET text == IF pc[m] = "asking" THEN Goal ELSE "said"
      history == Append(memory[m], text)
  IN /\ pc[m] \in {"asking", "running"}
     /\ \A t \in Thread : stage[m][t] = Idle
     /\ memory' = [memory EXCEPT ![m] = history]
     /\ LockAndRead(m, "main", SubSeq(history, flushed[m] + 1, Len(history)), FALSE)
     /\ UNCHANGED <<lockVars, pc, sess, flushed, recordVars, rows, runbookVars>>

\* run_episode's add.
AddToEpisode(m, t) ==
  /\ pc[m] = "running"
  /\ LockAndRead(m, t, <<"said">>, TRUE)
  /\ UNCHANGED <<lockVars, memoryVars, recordVars, rows, runbookVars>>

\* The commit; save_history then counts what it saved.
CommitAppend(m, t) ==
  LET w == stage[m][t]
      s == sess[m]
      added == [i \in 1 .. Len(w.new) |->
                  [seq |-> w.max + i, text |-> w.new[i], episode |-> w.episode]]
  IN /\ w.at = "append"
     /\ rows' = [rows EXCEPT ![s] = @ \o added]
     /\ IF w.episode THEN UNCHANGED <<flushed, pc>>
        ELSE /\ flushed' = [flushed EXCEPT ![m] = Len(memory[m])]
             /\ pc' = [pc EXCEPT ![m] = "running"]
     /\ stage' = [stage EXCEPT ![m][t] = Idle]
     /\ appending' = [appending EXCEPT ![Home[m]] = Free]
     /\ UNCHANGED <<lockVars, sess, memory, recordVars, runbookVars>>

---------------------------------------------------------------------------
(* The runbook.                                                            *)

\* Variant: a verified entry stays so.
RunbookSetKept(m, command, verified) ==
  LET s == sess[m]
  IN /\ pc[m] = "running" /\ stage[m]["main"] = Idle
     /\ runbook' = [runbook EXCEPT ![s] =
                      [command |-> command, verified |-> verified \/ @.verified]]
     /\ vouched' = [vouched EXCEPT ![s] = IF verified THEN @ \cup {command} ELSE @]
     /\ runbook' # runbook \/ vouched' # vouched
     /\ UNCHANGED <<lockVars, memoryVars, threadVars, recordVars, rows>>

\* runbook_set: another command is unverified, unless this call verifies it.
\* The planner's threads are in its write lock, so one call is one step.
RunbookSet(m, command, verified) ==
  LET s == sess[m]
      same == runbook[s].command = command
  IN /\ pc[m] = "running" /\ stage[m]["main"] = Idle
     /\ runbook' = [runbook EXCEPT ![s] =
                      [command |-> command,
                       verified |-> verified \/ (same /\ @.verified)]]
     /\ vouched' = [vouched EXCEPT ![s] = IF verified THEN @ \cup {command} ELSE @]
     /\ runbook' # runbook \/ vouched' # vouched
     /\ UNCHANGED <<lockVars, memoryVars, threadVars, recordVars, rows>>

Next ==
  \/ \E m \in Manager, s \in Ids : Open(m, s)
  \/ \E m \in Manager : Refuse(m) \/ Begin(m) \/ Leave(m) \/ AddMessage(m)
  \/ \E m \in Manager, t \in Thread : AddToEpisode(m, t) \/ CommitAppend(m, t)
  \/ \E m \in Manager, c \in Command, v \in BOOLEAN : RunbookSet(m, c, v)
  \/ \E p \in Process : Crash(p)

Spec == Init /\ [][Next]_vars

---------------------------------------------------------------------------
\* The rows of a session are numbered 1, 2, 3, ... in the order they were
\* committed, whatever threads of a batch and whatever processes wrote them
\* (append_history_to_db): two writers never take the same seq, and export-db,
\* which sorts by it, shows the run in order.
RowsInOrder ==
  \A s \in Ids : \A i \in DOMAIN rows[s] : rows[s][i].seq = i

\* What a session was told survives: the database has exactly the messages
\* of self.history counted in _flushed_count, each once and in order, while a
\* run is on; so a run that resumes reads back all that was saved before a
\* crash, and saves none of it a second time.
HistoryKept ==
  \A m \in Runner : pc[m] # "away" =>
    Conversation(sess[m]) = SubSeq(memory[m], 1, flushed[m])

\* A session has one goal, and it comes first: a process that dies between the
\* record of a session and its goal leaves a session that asks again, and one
\* that resumes doesn't ask (runner.py 674-680).
OneGoal ==
  \A s \in Ids : LET said == Conversation(s)
                 IN \A i \in DOMAIN said : said[i] = Goal <=> i = 1

\* A runbook entry marked verified has a command that some runbook_set of this
\* very session called verified, the claim of a role, or Dev's after a run
\* (runbook_tools.py:83-84): one carried over from an earlier session, or changed
\* since, is not verified (runbook_set, carry_over).
VerifiedHere ==
  \A s \in Ids : runbook[s].verified => runbook[s].command \in vouched[s]
=============================================================================
