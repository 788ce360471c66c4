--------------------------- MODULE Session_proofs ---------------------------
(***************************************************************************)
(* Machine-checked theorems about sessions, for any number of processes,   *)
(* managers, threads, sessions, rows and requests.  The queue (module      *)
(* InputQueue): a request is taken up once and in order, as RequestQueue   *)
(* promises, and stays in the store until then.  The lock: claims are      *)
(* counted right, and the counts and the flock implement ProjectLock.  The *)
(* history: its rows are in order and hold what was said, once.  The       *)
(* runbook: verified means called so here.  And of what a person is asked  *)
(* (module Approvals) only what was typed stands.                          *)
(***************************************************************************)
EXTENDS Session, Approvals, InputQueue, FiniteSetTheorems, SequenceTheorems, TLAPS

---------------------------------------------------------------------------
(* How often a request is in a queue.                                      *)

LEMMA Shifted ==
  ASSUME NEW A \in SUBSET Nat, IsFiniteSet(A), NEW k \in Nat
  PROVE  /\ IsFiniteSet({a + k : a \in A})
         /\ Cardinality({a + k : a \in A}) = Cardinality(A)
<1> DEFINE T == {a + k : a \in A}
           f == [a \in A |-> a + k]
<1>1. f \in [A -> T] /\ \A a, b \in A : f[a] = f[b] => a = b
  OBVIOUS
<1>2. \A x \in T : \E a \in A : f[a] = x
  OBVIOUS
<1>3. f \in Bijection(A, T)
  <2> HIDE DEF f, T
  <2> QED
    BY <1>1, <1>2, Zenon DEF Bijection, Injection, Surjection, IsInjective
<1>4. ExistsBijection(A, T)
  BY <1>3 DEF ExistsBijection
<1> HIDE DEF T
<1>5. IsFiniteSet(T) /\ Cardinality(T) = Cardinality(A)
  BY <1>4, FS_Bijection
<1> QED
  BY <1>5 DEF T

Places(r, q) == {i \in DOMAIN q : q[i] = r}

LEMMA TimesType ==
  ASSUME NEW q \in Seq(Request), NEW r
  PROVE  /\ Places(r, q) \in SUBSET Nat /\ IsFiniteSet(Places(r, q))
         /\ Times(r, q) = Cardinality(Places(r, q)) /\ Times(r, q) \in Nat
         /\ r \in ToSet(q) <=> Times(r, q) # 0
         /\ q = <<>> => Times(r, q) = 0
<1>1. Places(r, q) \subseteq 1 .. Len(q)
  BY DEF Places
<1>2. IsFiniteSet(1 .. Len(q))
  BY FS_Interval
<1>3. IsFiniteSet(Places(r, q))
  BY <1>1, <1>2, FS_Subset
<1>4. Times(r, q) = Cardinality(Places(r, q))
  BY DEF Times, Places
<1>5. Times(r, q) \in Nat
  BY <1>3, <1>4, FS_CardinalityType
<1>6. Times(r, q) = 0 <=> Places(r, q) = {}
  BY <1>3, <1>4, FS_EmptySet
<1>7. r \in ToSet(q) <=> Places(r, q) # {}
  BY DEF ToSet, Places
<1>8. q = <<>> => Places(r, q) = {}
  BY DEF Places
<1> QED
  BY <1>1, <1>3, <1>4, <1>5, <1>6, <1>7, <1>8

LEMMA TimesAppend ==
  ASSUME NEW q \in Seq(Request), NEW x \in Request, NEW r
  PROVE  Times(r, Append(q, x)) = Times(r, q) + (IF x = r THEN 1 ELSE 0)
<1> DEFINE a == Append(q, x)
<1>1. /\ a \in Seq(Request) /\ Len(a) = Len(q) + 1
      /\ \A i \in 1 .. Len(q) : a[i] = q[i]
      /\ a[Len(q) + 1] = x
  BY AppendProperties
<1> HIDE DEF a
<1>2. CASE x = r
  <2>1. Places(r, a) = Places(r, q) \cup {Len(q) + 1} /\ Len(q) + 1 \notin Places(r, q)
    BY <1>1, <1>2 DEF Places
  <2>2. Cardinality(Places(r, q) \cup {Len(q) + 1}) = Cardinality(Places(r, q)) + 1
    BY <2>1, TimesType, FS_AddElement
  <2>3. Times(r, a) = Times(r, q) + 1
    BY <1>1, <2>1, <2>2, TimesType
  <2> QED
    BY <1>2, <2>3 DEF a
<1>3. CASE x # r
  <2>1. Places(r, a) = Places(r, q)
    BY <1>1, <1>3 DEF Places
  <2>2. Times(r, a) = Times(r, q)
    BY <1>1, <2>1, TimesType
  <2> QED
    BY <1>3, <2>2, TimesType DEF a
<1> QED
  BY <1>2, <1>3

LEMMA TimesTail ==
  ASSUME NEW q \in Seq(Request), q # <<>>, NEW r
  PROVE  Times(r, q) = Times(r, Tail(q)) + (IF Head(q) = r THEN 1 ELSE 0)
<1> DEFINE a == Tail(q)
           b == {i + 1 : i \in Places(r, a)}
<1>1. a \in Seq(Request) /\ Len(a) = Len(q) - 1 /\ \A i \in 1 .. Len(a) : a[i] = q[i + 1]
  BY HeadTailProperties
<1>2. Head(q) = q[1] /\ Len(q) \in Nat /\ Len(q) > 0
  BY EmptySeq
<1> HIDE DEF a
<1>3. b = Places(r, q) \ {1}
  <2>1. ASSUME NEW i \in Places(r, a) PROVE i + 1 \in Places(r, q) \ {1}
    BY <1>1, <1>2 DEF Places
  <2>2. ASSUME NEW j \in Places(r, q) \ {1} PROVE j \in b
    <3>1. j \in 1 .. Len(q) /\ q[j] = r /\ j # 1
      BY DEF Places
    <3>2. j - 1 \in 1 .. Len(a)
      BY <1>1, <1>2, <3>1
    <3>3. a[j - 1] = r
      BY <1>1, <3>1, <3>2
    <3>4. j - 1 \in Places(r, a) /\ j = (j - 1) + 1
      BY <1>1, <3>1, <3>2, <3>3 DEF Places
    <3> QED
      BY <3>4
  <2> QED
    BY <2>1, <2>2
<1>4. IsFiniteSet(b) /\ Cardinality(b) = Times(r, a)
  <2>1. Places(r, a) \in SUBSET Nat /\ IsFiniteSet(Places(r, a)) /\ Times(r, a) = Cardinality(Places(r, a))
    BY <1>1, TimesType
  <2> QED
    BY <2>1, Shifted
<1>5. Times(r, a) \in Nat /\ Times(r, q) = Cardinality(Places(r, q))
  BY <1>1, TimesType
<1> HIDE DEF b
<1>6. CASE Head(q) = r
  <2>1. Places(r, q) = b \cup {1} /\ 1 \notin b
    BY <1>2, <1>3, <1>6 DEF Places
  <2>2. Cardinality(b \cup {1}) = Cardinality(b) + 1
    BY <1>4, <2>1, FS_AddElement
  <2> QED
    BY <1>4, <1>5, <1>6, <2>1, <2>2 DEF a
<1>7. CASE Head(q) # r
  <2>1. Places(r, q) = b
    BY <1>2, <1>3, <1>7 DEF Places
  <2> QED
    BY <1>4, <1>5, <1>7, <2>1 DEF a
<1> QED
  BY <1>6, <1>7

LEMMA TimesConcat ==
  ASSUME NEW q \in Seq(Request), NEW p \in Seq(Request), NEW r
  PROVE  Times(r, q \o p) = Times(r, q) + Times(r, p)
<1> DEFINE a == q \o p
           b == {i + Len(q) : i \in Places(r, p)}
<1>1. /\ a \in Seq(Request) /\ Len(a) = Len(q) + Len(p)
      /\ \A i \in 1 .. Len(q) + Len(p) : a[i] = IF i <= Len(q) THEN q[i] ELSE p[i - Len(q)]
  BY ConcatProperties
<1>2. Len(q) \in Nat /\ Len(p) \in Nat
  OBVIOUS
<1> HIDE DEF a
<1>3. Places(r, a) = Places(r, q) \cup b
  <2>1. ASSUME NEW i \in Places(r, q) PROVE i \in Places(r, a)
    BY <1>1, <1>2 DEF Places
  <2>2. ASSUME NEW i \in Places(r, p) PROVE i + Len(q) \in Places(r, a)
    <3>1. i \in 1 .. Len(p) /\ p[i] = r
      BY DEF Places
    <3>2. i + Len(q) \in 1 .. Len(q) + Len(p) /\ ~ (i + Len(q) <= Len(q)) /\ (i + Len(q)) - Len(q) = i
      BY <1>2, <3>1
    <3>3. a[i + Len(q)] = r
      BY <1>1, <3>1, <3>2
    <3> QED
      BY <1>1, <3>2, <3>3 DEF Places
  <2>3. ASSUME NEW j \in Places(r, a) PROVE j \in Places(r, q) \cup b
    <3>1. j \in 1 .. Len(q) + Len(p) /\ a[j] = r
      BY <1>1 DEF Places
    <3>2. CASE j <= Len(q)
      BY <1>1, <1>2, <3>1, <3>2 DEF Places
    <3>3. CASE ~ (j <= Len(q))
      <4>1. j - Len(q) \in 1 .. Len(p) /\ (j - Len(q)) + Len(q) = j
        BY <1>2, <3>1, <3>3
      <4>2. p[j - Len(q)] = r
        BY <1>1, <3>1, <3>3
      <4>3. j - Len(q) \in Places(r, p)
        BY <4>1, <4>2 DEF Places
      <4> QED
        BY <4>1, <4>3
    <3> QED
      BY <3>2, <3>3
  <2> QED
    BY <2>1, <2>2, <2>3
<1>4. Places(r, q) \cap b = {}
  <2>1. ASSUME NEW i \in Places(r, p) PROVE i + Len(q) \notin Places(r, q)
    BY <1>2 DEF Places
  <2> QED
    BY <2>1
<1>5. IsFiniteSet(b) /\ Cardinality(b) = Times(r, p)
  <2>1. Places(r, p) \in SUBSET Nat /\ IsFiniteSet(Places(r, p)) /\ Times(r, p) = Cardinality(Places(r, p))
    BY TimesType
  <2> QED
    BY <1>2, <2>1, Shifted
<1>6. /\ IsFiniteSet(Places(r, q)) /\ Times(r, q) = Cardinality(Places(r, q))
      /\ Times(r, q) \in Nat /\ Times(r, p) \in Nat
  BY TimesType
<1>7. Times(r, a) = Cardinality(Places(r, a))
  BY <1>1, TimesType
<1> HIDE DEF b
<1>8. Cardinality(Places(r, q) \cup b)
        = Cardinality(Places(r, q)) + Cardinality(b) - Cardinality(Places(r, q) \cap b)
  BY <1>5, <1>6, FS_Union
<1>9. Cardinality(Places(r, q) \cap b) = 0
  BY <1>4, FS_EmptySet
<1> QED
  BY <1>3, <1>5, <1>6, <1>7, <1>8, <1>9 DEF a

---------------------------------------------------------------------------
(* The invariant of the queues.                                            *)

QueueTyped ==
  /\ forced \in Seq(Request) /\ queued \in Seq(Request)
  /\ items \in Seq(Request) /\ snapshot \in Seq(Request)
  /\ stop \in BOOLEAN /\ restart \in BOOLEAN /\ idle \in BOOLEAN /\ clean \in BOOLEAN
  /\ stored \in [Session -> Seq(Request)] /\ session \in Nat /\ session <= MaxSessions
  /\ step \in [Party -> Reporting \cup WorkerSteps \cup {"rest", "moving", "gone"}]
  /\ step["worker"] \in {"clear", "copy", "save", "gone"} \cup WorkerSteps
  /\ hand \in [Submitter -> Request \cup {0}]
  /\ copy \in [Party -> [session : Nat, items : Seq(Request)]]
  /\ next \in 1 .. MaxRequests + 1
  /\ handed \in [Request -> 0 .. 2]

\* A thread that is no worker has the steps of a submitter, and what it
\* appends to the snapshot is a request.
Submitting ==
  \A t \in Submitter :
    /\ step[t] \in Reporting \cup {"rest", "moving", "gone"}
    /\ step[t] = "append" => hand[t] \in Request

\* A session is opened where there is one more, with nothing in the store of
\* a later one; what is saved goes to a session that has begun.
SessionsOpen ==
  /\ \A t \in Party : step[t] = "save" => copy[t].session >= 1 /\ copy[t].session <= session
  /\ \A s \in Session : s > session /\ s # 1 => stored[s] = <<>>
  /\ restart => session < MaxSessions
  /\ step["worker"] = "opening" => session < MaxSessions /\ ~ restart /\ ~ idle
  /\ idle => step["worker"] \in {"idle", "taking", "clear", "copy", "save", "return", "gone"}

\* The worker has taken something between a drain and the return only.
ItemsTaken ==
  items # <<>> => step["worker"] \in {"drain", "taking", "clear", "copy", "save", "return", "gone"}

\* Every request made is in one place, in the store of the first session
\* before that opens; the others are nowhere.
OncePlaced ==
  \A r \in Request :
    Times(r, queued) + Times(r, forced) + Times(r, items) + handed[r]
      + (IF session = 0 THEN Times(r, stored[1]) ELSE 0) = (IF r < next THEN 1 ELSE 0)

\* What a thread in the middle of a report has still to do.
Midway(t) ==
  /\ step[t] = "append" => queued = Append(snapshot, hand[t])
  /\ step[t] = "clear" => queued = <<>>
  /\ step[t] \in {"copy", "save"} => snapshot = queued
  /\ step[t] = "save" => copy[t].items = queued /\ copy[t].session = session

\* While no two changes of the queue overlapped: at most one thread is at
\* one, and what it has still to do is all that is missing.
Settled ==
  clean /\ step["ui"] # "gone" =>
    /\ \A t, u \in Changing : t = u
    /\ Changing = {} => snapshot = queued /\ (session > 0 => stored[session] = queued)
    /\ \A t \in Party : Midway(t)

QueueInv == QueueTyped /\ Submitting /\ SessionsOpen /\ ItemsTaken /\ OncePlaced /\ Settled

LEMMA Parties ==
  /\ "worker" \in Party /\ "ui" \in Submitter /\ "worker" \notin Submitter
  /\ Submitter \subseteq Party /\ \A t \in Party : t \in Submitter \/ t = "worker"
  /\ 1 \in Session /\ Session = 1 .. MaxSessions /\ MaxSessions \in Nat /\ MaxRequests \in Nat
  /\ Request \subseteq Nat /\ Request = 1 .. MaxRequests
  /\ "ui" # "worker"
BY ThreadAssumption, BoundAssumption DEF Party, Submitter, Session, Request

\* What the last run has left: the requests up to n, once each.
LEMMA Remaining ==
  ASSUME NEW n \in 0 .. MaxRequests
  PROVE  /\ [i \in 1 .. n |-> i] \in Seq(Request)
         /\ \A r \in Request : Times(r, [i \in 1 .. n |-> i]) = IF r <= n THEN 1 ELSE 0
         /\ ToSet([i \in 1 .. n |-> i]) = 1 .. n /\ IsInjective([i \in 1 .. n |-> i])
<1> DEFINE q == [i \in 1 .. n |-> i]
<1>1. n \in Nat /\ 1 .. n \subseteq Request
  BY Parties
<1>2. q \in Seq(Request)
  BY <1>1
<1>3. \A i \in DOMAIN q : q[i] = i
  OBVIOUS
<1>4. DOMAIN q = 1 .. n
  OBVIOUS
<1> HIDE DEF q
<1>5. ASSUME NEW r \in Request PROVE Times(r, q) = IF r <= n THEN 1 ELSE 0
  <2>1. r \in Nat /\ r >= 1
    BY Parties
  <2>2. Times(r, q) = Cardinality(Places(r, q))
    BY <1>2, TimesType
  <2>3. CASE r <= n
    <3>1. Places(r, q) = {r}
      BY <1>1, <1>3, <1>4, <2>1, <2>3 DEF Places
    <3> QED
      BY <2>2, <2>3, <3>1, FS_Singleton
  <2>4. CASE ~ (r <= n)
    <3>1. Places(r, q) = {}
      BY <1>1, <1>3, <1>4, <2>1, <2>4 DEF Places
    <3> QED
      BY <2>2, <2>4, <3>1, FS_EmptySet
  <2> QED
    BY <2>3, <2>4
<1>6. ToSet(q) = 1 .. n /\ IsInjective(q)
  BY <1>3, <1>4 DEF ToSet, IsInjective
<1> QED
  BY <1>2, <1>5, <1>6 DEF q

LEMMA QueueBegins ==
  ASSUME QueueInit
  PROVE  QueueInv
<1>1. PICK n \in 0 .. MaxRequests :
        /\ stored = [s \in Session |-> IF s = 1 THEN [i \in 1 .. n |-> i] ELSE <<>>]
        /\ next = n + 1
  BY DEF QueueInit
<1> DEFINE left == [i \in 1 .. n |-> i]
<1>2. left \in Seq(Request) /\ \A r \in Request : Times(r, left) = IF r <= n THEN 1 ELSE 0
  BY Remaining
<1>9. stored = [s \in Session |-> IF s = 1 THEN left ELSE <<>>] /\ n \in Nat
  BY <1>1, Parties
<1> HIDE DEF left
<1>3. QueueTyped
  <2>1. stored \in [Session -> Seq(Request)]
    BY <1>2, <1>9
  <2>2. next \in 1 .. MaxRequests + 1
    BY <1>1, BoundAssumption
  <2>3. /\ step \in [Party -> Reporting \cup WorkerSteps \cup {"rest", "moving", "gone"}]
        /\ step["worker"] \in {"clear", "copy", "save", "gone"} \cup WorkerSteps
    BY Parties DEF QueueInit, WorkerSteps
  <2>4. /\ session \in Nat /\ session <= MaxSessions
        /\ handed \in [Request -> 0 .. 2] /\ hand \in [Submitter -> Request \cup {0}]
    BY Parties DEF QueueInit
  <2>5. copy \in [Party -> [session : Nat, items : Seq(Request)]]
    BY DEF QueueInit, NoCopy
  <2>6. /\ forced \in Seq(Request) /\ queued \in Seq(Request)
        /\ items \in Seq(Request) /\ snapshot \in Seq(Request)
    BY DEF QueueInit
  <2>7. stop \in BOOLEAN /\ restart \in BOOLEAN /\ idle \in BOOLEAN /\ clean \in BOOLEAN
    BY DEF QueueInit
  <2> QED
    BY <2>1, <2>2, <2>3, <2>4, <2>5, <2>6, <2>7 DEF QueueTyped
<1>4. Submitting
  BY Parties DEF QueueInit, Submitting
<1>5. SessionsOpen
  BY <1>9, Parties, BoundAssumption DEF QueueInit, SessionsOpen
<1>6. ItemsTaken
  BY DEF QueueInit, ItemsTaken
<1>7. OncePlaced
  <2> SUFFICES ASSUME NEW r \in Request
               PROVE  Times(r, queued) + Times(r, forced) + Times(r, items) + handed[r]
                        + (IF session = 0 THEN Times(r, stored[1]) ELSE 0)
                        = (IF r < next THEN 1 ELSE 0)
    BY DEF OncePlaced
  <2>1. <<>> \in Seq(Request)
    OBVIOUS
  <2>2. Times(r, <<>>) = 0
    BY <2>1, TimesType
  <2>3. Times(r, stored[1]) = (IF r < next THEN 1 ELSE 0)
    <3>1. stored[1] = left
      BY <1>9, Parties
    <3>2. Times(r, left) = IF r <= n THEN 1 ELSE 0
      BY <1>2
    <3>3. next = n + 1 /\ r \in Nat
      BY <1>1, Parties
    <3> QED
      BY <1>9, <3>1, <3>2, <3>3
  <2>4. queued = <<>> /\ forced = <<>> /\ items = <<>> /\ handed[r] = 0 /\ session = 0
    BY DEF QueueInit
  <2> QED
    BY <2>2, <2>3, <2>4
<1>8. Settled
  BY Parties DEF QueueInit, Settled, Midway, Changing, Reporting
<1> QED
  BY <1>3, <1>4, <1>5, <1>6, <1>7, <1>8 DEF QueueInv

---------------------------------------------------------------------------
(* Types.                                                                  *)

StepsTyped(p) ==
  /\ p \in [Party -> Reporting \cup WorkerSteps \cup {"rest", "moving", "gone"}]
  /\ p["worker"] \in {"clear", "copy", "save", "gone"} \cup WorkerSteps

LEMMA WorkerGoes ==
  ASSUME StepsTyped(step), NEW x \in {"clear"} \cup WorkerSteps, step' = [step EXCEPT !["worker"] = x]
  PROVE  StepsTyped(step')
BY Parties DEF StepsTyped, Reporting

LEMMA TypesKept ==
  ASSUME QueueInv, QueueNext
  PROVE  QueueTyped'
<1> USE Parties DEF QueueTyped, flags, queues, made, store, Go, AfterReport
<1>0. QueueTyped /\ Submitting /\ SessionsOpen
  BY DEF QueueInv
<1>1. ASSUME NEW t \in Party, Report(t) PROVE QueueTyped'
  <2>1. CASE AppendSnapshot(t)
    <3>1. t \in Submitter
      BY <1>0, <2>1 DEF AppendSnapshot, WorkerSteps
    <3>2. snapshot' \in Seq(Request)
      BY <1>0, <2>1, <3>1 DEF AppendSnapshot, Submitting
    <3>3. /\ step' \in [Party -> Reporting \cup WorkerSteps \cup {"rest", "moving", "gone"}]
          /\ step'["worker"] \in {"clear", "copy", "save", "gone"} \cup WorkerSteps
      BY <1>0, <2>1 DEF AppendSnapshot, Reporting
    <3>4. hand' \in [Submitter -> Request \cup {0}]
      BY <1>0, <2>1 DEF AppendSnapshot
    <3>5. UNCHANGED <<flags, queues, store, next, handed, clean>>
      BY <2>1 DEF AppendSnapshot
    <3> QED
      BY <1>0, <3>2, <3>3, <3>4, <3>5
  <2>2. CASE ClearSnapshot(t)
    <3>1. /\ step' \in [Party -> Reporting \cup WorkerSteps \cup {"rest", "moving", "gone"}]
          /\ step'["worker"] \in {"clear", "copy", "save", "gone"} \cup WorkerSteps
      BY <1>0, <2>2 DEF ClearSnapshot, Reporting
    <3>2. snapshot' \in Seq(Request)
      BY <2>2 DEF ClearSnapshot
    <3>3. UNCHANGED <<flags, queues, made, store, handed, clean>>
      BY <2>2 DEF ClearSnapshot
    <3> QED
      BY <1>0, <3>1, <3>2, <3>3
  <2>3. CASE CopySnapshot(t)
    <3>1. copy' \in [Party -> [session : Nat, items : Seq(Request)]]
      BY <1>0, <2>3 DEF CopySnapshot, NoCopy
    <3>2. /\ step' \in [Party -> Reporting \cup WorkerSteps \cup {"rest", "moving", "gone"}]
          /\ step'["worker"] \in {"clear", "copy", "save", "gone"} \cup WorkerSteps
      BY <1>0, <2>3 DEF CopySnapshot, Reporting, WorkerSteps
    <3>3. UNCHANGED <<flags, queues, made, snapshot, stored, session, handed, clean>>
      BY <2>3 DEF CopySnapshot
    <3> QED
      BY <1>0, <3>1, <3>2, <3>3
  <2>4. CASE SaveCopy(t)
    <3>1. copy' \in [Party -> [session : Nat, items : Seq(Request)]]
      BY <1>0, <2>4 DEF SaveCopy, NoCopy
    <3>2. /\ step' \in [Party -> Reporting \cup WorkerSteps \cup {"rest", "moving", "gone"}]
          /\ step'["worker"] \in {"clear", "copy", "save", "gone"} \cup WorkerSteps
      BY <1>0, <2>4 DEF SaveCopy, Reporting, WorkerSteps
    <3>3. stored' \in [Session -> Seq(Request)]
      BY <1>0, <2>4 DEF SaveCopy
    <3>4. UNCHANGED <<flags, queues, made, snapshot, session, handed, clean>>
      BY <2>4 DEF SaveCopy
    <3> QED
      BY <1>0, <3>1, <3>2, <3>3, <3>4
  <2> QED
    BY <1>1, <2>1, <2>2, <2>3, <2>4 DEF Report
<1>2. ASSUME NEW t \in Submitter, Submit(t) PROVE QueueTyped'
  <2>1. /\ step' \in [Party -> Reporting \cup WorkerSteps \cup {"rest", "moving", "gone"}]
        /\ step'["worker"] = step["worker"]
    BY <1>0, <1>2 DEF Submit, Reporting, WorkerSteps
  <2>2. queued' \in Seq(Request) /\ hand' \in [Submitter -> Request \cup {0}]
    BY <1>0, <1>2 DEF Submit
  <2>3. next' \in 1 .. MaxRequests + 1
    BY <1>0, <1>2 DEF Submit
  <2>4. clean' \in BOOLEAN
    BY <1>2 DEF Submit, Alone
  <2>5. UNCHANGED <<flags, forced, items, snapshot, store, handed>>
    BY <1>2 DEF Submit
  <2> QED
    BY <1>0, <2>1, <2>2, <2>3, <2>4, <2>5
<1>3. CASE ForceLine
  <2>1. next' \in 1 .. MaxRequests + 1
    BY <1>0, <1>3 DEF ForceLine
  <2>2. forced' \in Seq(Request)
    BY <1>0, <1>3 DEF ForceLine
  <2>3. UNCHANGED <<flags, queued, items, hand, snapshot, store, step, handed, clean>>
    BY <1>3 DEF ForceLine
  <2> QED
    BY <1>0, <2>1, <2>2, <2>3
<1>4. ASSUME NEW from \in {"rest", "moving"}, MoveOne(from) PROVE QueueTyped'
  <2>1. Head(queued) \in Request /\ Tail(queued) \in Seq(Request)
    BY <1>0, <1>4, HeadTailProperties DEF MoveOne
  <2>2. forced' \in Seq(Request) /\ queued' \in Seq(Request)
    BY <1>0, <1>4, <2>1 DEF MoveOne
  <2>3. /\ step' \in [Party -> Reporting \cup WorkerSteps \cup {"rest", "moving", "gone"}]
        /\ step'["worker"] = step["worker"]
    BY <1>0, <1>4 DEF MoveOne
  <2>4. clean' \in BOOLEAN
    BY <1>4 DEF MoveOne, Alone
  <2>5. UNCHANGED <<flags, items, made, snapshot, store, handed>>
    BY <1>4 DEF MoveOne
  <2> QED
    BY <1>0, <2>2, <2>3, <2>4, <2>5
<1>5. CASE MoveDone
  <2>1. /\ step' \in [Party -> Reporting \cup WorkerSteps \cup {"rest", "moving", "gone"}]
        /\ step'["worker"] \in {"clear", "copy", "save", "gone"} \cup WorkerSteps
    BY <1>0, <1>5 DEF MoveDone, Reporting
  <2>2. UNCHANGED <<flags, queues, made, snapshot, store, handed, clean>>
    BY <1>5 DEF MoveDone
  <2> QED
    BY <1>0, <2>1, <2>2
<1>6. CASE Interrupt
  <2>1. /\ step' \in [Party -> Reporting \cup WorkerSteps \cup {"rest", "moving", "gone"}]
        /\ step'["worker"] \in {"clear", "copy", "save", "gone"} \cup WorkerSteps
    BY <1>0, <1>6 DEF Interrupt, Exit
  <2>2. stop' \in BOOLEAN /\ UNCHANGED <<restart, idle, queues, made, snapshot, store, handed, clean>>
    BY <1>6 DEF Interrupt
  <2> QED
    BY <1>0, <2>1, <2>2
<1>7. CASE NewSession
  <2>1. restart' = TRUE /\ UNCHANGED <<stop, idle, queues, made, snapshot, store, step, handed, clean>>
    BY <1>7 DEF NewSession
  <2> QED
    BY <1>0, <2>1
<1>8. CASE CloseApp
  <2>1. /\ step' \in [Party -> Reporting \cup WorkerSteps \cup {"rest", "moving", "gone"}]
        /\ step'["worker"] \in {"clear", "copy", "save", "gone"} \cup WorkerSteps
    BY <1>8 DEF CloseApp, Exit
  <2>2. UNCHANGED <<flags, queues, made, snapshot, store, handed, clean>>
    BY <1>8 DEF CloseApp
  <2> QED
    BY <1>0, <2>1, <2>2
<1>9. CASE OpenSession
  <2>1. session < MaxSessions
    BY <1>0, <1>9 DEF OpenSession, SessionsOpen
  <2>2. session' \in Nat /\ session' <= MaxSessions /\ session + 1 \in Session
    BY <1>0, <1>9, <2>1 DEF OpenSession
  <2>3. queued' \in Seq(Request) /\ snapshot' \in Seq(Request)
    BY <1>0, <1>9, <2>2, ConcatProperties DEF OpenSession
  <2>4. /\ step' \in [Party -> Reporting \cup WorkerSteps \cup {"rest", "moving", "gone"}]
        /\ step'["worker"] \in {"clear", "copy", "save", "gone"} \cup WorkerSteps
    BY <1>0, <1>9 DEF OpenSession, WorkerSteps
  <2>5. clean' \in BOOLEAN
    BY <1>0, <1>9 DEF OpenSession
  <2>6. UNCHANGED <<flags, forced, items, made, stored, copy, handed>>
    BY <1>9 DEF OpenSession
  <2> QED
    BY <1>0, <2>2, <2>3, <2>4, <2>5, <2>6
<1>10. CASE TakeForced \/ ReturnItems
  <2>1. handed' \in [Request -> 0 .. 2]
    <3>1. handed \in [Request -> 0 .. 2]
      BY <1>0
    <3>2. \E q : HandOver(q)
      BY <1>10 DEF TakeForced, ReturnItems
    <3>3. ASSUME NEW n \in 0 .. 2, n < 2 PROVE n + 1 \in 0 .. 2
      BY <3>3
    <3>4. PICK q : handed' = [r \in Request |-> IF r \in ToSet(q) /\ handed[r] < 2 THEN handed[r] + 1
                                                ELSE handed[r]]
      BY <3>2 DEF HandOver
    <3> QED
      BY <3>1, <3>3, <3>4
  <2>2. step' = step \/ \E x \in {"top", "left"} : step' = [step EXCEPT !["worker"] = x]
    BY <1>10 DEF TakeForced, ReturnItems
  <2>3. StepsTyped(step')
    BY <1>0, <2>2, WorkerGoes DEF StepsTyped, WorkerSteps
  <2>4. forced' \in Seq(Request) /\ items' \in Seq(Request) /\ idle' \in BOOLEAN
    <3>1. <<>> \in Seq(Request)
      OBVIOUS
    <3>2. CASE TakeForced
      <4>1. forced' = <<>> /\ items' = items /\ idle' = idle
        BY <3>2 DEF TakeForced
      <4> QED
        BY <1>0, <3>1, <4>1
    <3>3. CASE ReturnItems
      <4>1. items' = <<>> /\ forced' = forced /\ idle' = FALSE
        BY <3>3 DEF ReturnItems
      <4> QED
        BY <1>0, <3>1, <4>1
    <3> QED
      BY <1>10, <3>2, <3>3
  <2>5. /\ queued' = queued /\ snapshot' = snapshot /\ stop' = stop /\ restart' = restart
        /\ clean' = clean /\ stored' = stored /\ session' = session /\ copy' = copy
        /\ hand' = hand /\ next' = next
    BY <1>10 DEF TakeForced, ReturnItems
  <2> QED
    BY <1>0, <2>1, <2>3, <2>4, <2>5 DEF StepsTyped
<1>11. CASE DrainOne
  <2>1. Head(queued) \in Request /\ Tail(queued) \in Seq(Request)
    BY <1>0, <1>11, HeadTailProperties DEF DrainOne
  <2>2. items' \in Seq(Request) /\ queued' \in Seq(Request)
    BY <1>0, <1>11, <2>1 DEF DrainOne
  <2>3. clean' \in BOOLEAN
    BY <1>11 DEF DrainOne, Alone
  <2>4. UNCHANGED <<flags, forced, made, snapshot, store, step, handed>>
    BY <1>11 DEF DrainOne
  <2> QED
    BY <1>0, <2>2, <2>3, <2>4
<1>12. CASE TopOfLoop \/ PhaseStopped \/ PhasesDone \/ DrainedSome \/ StayIdle
  <2>1. \E x \in {"left", "work", "drain", "clear", "taking", "idle"} :
          step' = [step EXCEPT !["worker"] = x]
    BY <1>12 DEF TopOfLoop, PhaseStopped, PhasesDone, DrainedSome, StayIdle
  <2>2. StepsTyped(step')
    BY <1>0, <2>1, WorkerGoes DEF StepsTyped, WorkerSteps
  <2>3. UNCHANGED <<flags, queues, made, snapshot, store, handed, clean>>
    BY <1>12 DEF TopOfLoop, PhaseStopped, PhasesDone, DrainedSome, StayIdle
  <2> QED
    BY <1>0, <2>2, <2>3 DEF StepsTyped
<1>13. CASE DrainedNone \/ LeaveIdle \/ LeaveSession
  <2>1. \E x \in {"top", "left", "idle", "ended", "opening"} : step' = [step EXCEPT !["worker"] = x]
    BY <1>13 DEF DrainedNone, LeaveIdle, LeaveSession
  <2>2. StepsTyped(step')
    BY <1>0, <2>1, WorkerGoes DEF StepsTyped, WorkerSteps
  <2>3. restart' \in BOOLEAN /\ idle' \in BOOLEAN
    BY <1>0, <1>13 DEF DrainedNone, LeaveIdle, LeaveSession
  <2>4. UNCHANGED <<stop, queues, made, snapshot, store, handed, clean>>
    BY <1>13 DEF DrainedNone, LeaveIdle, LeaveSession
  <2> QED
    BY <1>0, <2>2, <2>3, <2>4 DEF StepsTyped
<1>14. CASE Over
  BY <1>0, <1>14 DEF Over, queueVars
<1> QED
  BY <1>1, <1>2, <1>3, <1>4, <1>5, <1>6, <1>7, <1>8, <1>9, <1>10, <1>11, <1>12, <1>13, <1>14
  DEF QueueNext, Person, Promote, Work

---------------------------------------------------------------------------
(* Who does what.                                                          *)

LEMMA SubmittersKept ==
  ASSUME QueueInv, QueueNext
  PROVE  Submitting'
<1>0. QueueTyped /\ Submitting
  BY DEF QueueInv
<1> USE Parties DEF Submitting, flags, queues, made, store, Go, AfterReport, Reporting
<1>9. step \in [Party -> Reporting \cup WorkerSteps \cup {"rest", "moving", "gone"}]
  BY <1>0 DEF QueueTyped
<1>1. ASSUME NEW t \in Party, Report(t) PROVE Submitting'
  <2>1. CASE AppendSnapshot(t)
    BY <1>0, <1>9, <2>1 DEF AppendSnapshot
  <2>2. CASE ClearSnapshot(t) \/ CopySnapshot(t) \/ SaveCopy(t)
    BY <1>0, <1>9, <2>2 DEF ClearSnapshot, CopySnapshot, SaveCopy
  <2> QED
    BY <1>1, <2>1, <2>2 DEF Report
<1>2. ASSUME NEW t \in Submitter, Submit(t) PROVE Submitting'
  <2>1. hand \in [Submitter -> Request \cup {0}]
    BY <1>0 DEF QueueTyped
  <2> QED
    BY <1>0, <1>2, <1>9, <2>1 DEF Submit
<1>3. ASSUME NEW from, MoveOne(from) PROVE Submitting'
  BY <1>0, <1>3, <1>9 DEF MoveOne
<1>4. CASE MoveDone
  BY <1>0, <1>4, <1>9 DEF MoveDone
<1>5. CASE Interrupt
  BY <1>0, <1>5 DEF Interrupt, Exit
<1>6. CASE CloseApp
  BY <1>0, <1>6 DEF CloseApp, Exit
<1>7. CASE ForceLine \/ NewSession \/ Over
  BY <1>0, <1>7 DEF ForceLine, NewSession, Over, queueVars
<1>8. CASE Work
  <2>1. (\A t \in Submitter : step'[t] = step[t]) /\ hand' = hand
    BY <1>8, <1>9 DEF Work, OpenSession, TopOfLoop, PhaseStopped, TakeForced, PhasesDone,
       DrainOne, DrainedSome, DrainedNone, StayIdle, LeaveIdle, ReturnItems, LeaveSession
  <2> QED
    BY <1>0, <2>1
<1> QED
  BY <1>1, <1>2, <1>3, <1>4, <1>5, <1>6, <1>7, <1>8 DEF QueueNext, Person, Promote

\* What the invariants below need to know of a worker's step.
LEMMA WorkIs ==
  ASSUME QueueInv, Work
  PROVE  /\ \A t \in Submitter : step'[t] = step[t]
         /\ copy' = copy /\ stored' = stored /\ hand' = hand /\ next' = next
         /\ step' = [step EXCEPT !["worker"] = step'["worker"]]
<1>1. step \in [Party -> Reporting \cup WorkerSteps \cup {"rest", "moving", "gone"}]
  BY DEF QueueInv, QueueTyped
<1>2. /\ \A t \in Submitter : step'[t] = step[t]
      /\ step' = [step EXCEPT !["worker"] = step'["worker"]]
  BY <1>1, Parties DEF Work, OpenSession, TopOfLoop, PhaseStopped, TakeForced, PhasesDone, Go,
     DrainOne, DrainedSome, DrainedNone, StayIdle, LeaveIdle, ReturnItems, LeaveSession
<1>3. copy' = copy /\ stored' = stored /\ hand' = hand /\ next' = next
  BY DEF Work, OpenSession, TopOfLoop, PhaseStopped, TakeForced, PhasesDone, store, made,
     DrainOne, DrainedSome, DrainedNone, StayIdle, LeaveIdle, ReturnItems, LeaveSession
<1> QED
  BY <1>2, <1>3

LEMMA SessionsKept ==
  ASSUME QueueInv, QueueNext
  PROVE  SessionsOpen'
<1>0. QueueTyped /\ Submitting /\ SessionsOpen
  BY DEF QueueInv
<1> USE Parties DEF SessionsOpen, flags, queues, made, store, Go, AfterReport, Reporting
<1>9. /\ step \in [Party -> Reporting \cup WorkerSteps \cup {"rest", "moving", "gone"}]
      /\ session \in Nat /\ session <= MaxSessions /\ stored \in [Session -> Seq(Request)]
      /\ copy \in [Party -> [session : Nat, items : Seq(Request)]]
      /\ step["worker"] \in {"clear", "copy", "save", "gone"} \cup WorkerSteps
  BY <1>0 DEF QueueTyped
<1>1. ASSUME NEW t \in Party, Report(t) PROVE SessionsOpen'
  <2>1. CASE AppendSnapshot(t) \/ ClearSnapshot(t)
    BY <1>0, <1>9, <2>1 DEF AppendSnapshot, ClearSnapshot
  <2>2. CASE CopySnapshot(t)
    <3>1. \A u \in Party : step'[u] = "save" =>
            copy'[u].session >= 1 /\ copy'[u].session <= session
      BY <1>0, <1>9, <2>2 DEF CopySnapshot
    <3>2. /\ session' = session /\ stored' = stored /\ restart' = restart /\ idle' = idle
          /\ step'["worker"] = "opening" => step["worker"] = "opening"
          /\ step["worker"] = "copy" => step'["worker"] \in {"copy", "return", "save"}
          /\ step["worker"] # "copy" => step'["worker"] = step["worker"]
      BY <1>9, <2>2 DEF CopySnapshot
    <3> QED
      BY <1>0, <3>1, <3>2
  <2>3. CASE SaveCopy(t)
    <3>1. \A u \in Party : step'[u] = "save" =>
            copy'[u].session >= 1 /\ copy'[u].session <= session
      BY <1>0, <1>9, <2>3 DEF SaveCopy
    <3>2. /\ session' = session /\ restart' = restart /\ idle' = idle
          /\ step'["worker"] = "opening" => step["worker"] = "opening"
          /\ step["worker"] = "save" => step'["worker"] \in {"save", "return"}
          /\ step["worker"] # "save" => step'["worker"] = step["worker"]
      BY <1>9, <2>3 DEF SaveCopy
    <3>3. \A s \in Session : s > session => stored'[s] = stored[s]
      <4>1. copy[t].session <= session /\ copy[t].session \in Nat
        BY <1>0, <1>9, <2>3 DEF SaveCopy
      <4>2. \A s \in Session : s > session => s # copy[t].session
        BY <1>9, <4>1
      <4>3. stored' = [stored EXCEPT ![copy[t].session] = copy[t].items]
        BY <2>3 DEF SaveCopy
      <4> QED
        BY <1>9, <4>2, <4>3
    <3> QED
      BY <1>0, <3>1, <3>2, <3>3
  <2> QED
    BY <1>1, <2>1, <2>2, <2>3 DEF Report
<1>2. ASSUME NEW t \in Submitter, Submit(t) PROVE SessionsOpen'
  BY <1>0, <1>2, <1>9 DEF Submit
<1>3. ASSUME NEW from, MoveOne(from) PROVE SessionsOpen'
  BY <1>0, <1>3, <1>9 DEF MoveOne
<1>4. CASE MoveDone
  BY <1>0, <1>4, <1>9 DEF MoveDone
<1>5. CASE Interrupt \/ CloseApp
  <2>1. step' = step \/ \A t \in Party : step'[t] = "gone"
    BY <1>5 DEF Interrupt, CloseApp, Exit
  <2>2. session' = session /\ stored' = stored /\ copy' = copy /\ restart' = restart /\ idle' = idle
    BY <1>5 DEF Interrupt, CloseApp
  <2> QED
    BY <1>0, <2>1, <2>2
<1>6. CASE NewSession
  BY <1>0, <1>6 DEF NewSession
<1>7. CASE ForceLine \/ Over
  BY <1>0, <1>7 DEF ForceLine, Over, queueVars
<1>8. CASE Work
  <2>0. /\ \A t \in Party : step'[t] = "save" => step[t] = "save"
        /\ copy' = copy /\ stored' = stored
    <3>1. step'["worker"] = "save" => step["worker"] = "save"
      BY <1>8, <1>9 DEF Work, OpenSession, TopOfLoop, PhaseStopped, TakeForced, PhasesDone,
         DrainOne, DrainedSome, DrainedNone, StayIdle, LeaveIdle, ReturnItems, LeaveSession
    <3> QED
      BY <1>8, <3>1, WorkIs
  <2>1. CASE OpenSession
    <3>1. session' = session + 1 /\ restart' = restart /\ idle' = idle /\ step'["worker"] = "top"
      BY <1>9, <2>1 DEF OpenSession
    <3>2. ~ restart /\ ~ idle
      BY <1>0, <2>1 DEF OpenSession
    <3>3. \A t \in Party : step'[t] = "save" =>
            copy'[t].session >= 1 /\ copy'[t].session <= session'
      <4>1. \A t \in Party : copy[t].session \in Nat
        BY <1>9
      <4> QED
        BY <1>0, <1>9, <2>0, <3>1, <4>1
    <3>4. \A s \in Session : s > session' /\ s # 1 => stored'[s] = <<>>
      BY <1>0, <1>9, <2>0, <3>1
    <3> QED
      BY <3>1, <3>2, <3>3, <3>4
  <2>2. CASE LeaveSession
    BY <1>0, <1>9, <2>0, <2>2 DEF LeaveSession
  <2>3. CASE TopOfLoop \/ PhaseStopped \/ TakeForced \/ PhasesDone \/ DrainOne \/ DrainedSome
             \/ DrainedNone \/ StayIdle \/ LeaveIdle \/ ReturnItems
    <3>1. session' = session /\ restart' = restart
      BY <2>3 DEF TopOfLoop, PhaseStopped, TakeForced, PhasesDone,
         DrainOne, DrainedSome, DrainedNone, StayIdle, LeaveIdle, ReturnItems
    <3>2. step'["worker"] # "opening"
      BY <1>9, <2>3 DEF TopOfLoop, PhaseStopped, TakeForced, PhasesDone,
         DrainOne, DrainedSome, DrainedNone, StayIdle, LeaveIdle, ReturnItems
    <3>3. idle' => step'["worker"] \in {"idle", "taking", "clear", "copy", "save", "return", "gone"}
      BY <1>0, <1>9, <2>3 DEF TopOfLoop, PhaseStopped, TakeForced, PhasesDone,
         DrainOne, DrainedSome, DrainedNone, StayIdle, LeaveIdle, ReturnItems
    <3> QED
      BY <1>0, <2>0, <3>1, <3>2, <3>3
  <2> QED
    BY <1>8, <2>1, <2>2, <2>3 DEF Work
<1> QED
  BY <1>1, <1>2, <1>3, <1>4, <1>5, <1>6, <1>7, <1>8 DEF QueueNext, Person, Promote

LEMMA TakenKept ==
  ASSUME QueueInv, QueueNext
  PROVE  ItemsTaken'
<1>0. QueueTyped /\ ItemsTaken
  BY DEF QueueInv
<1> USE Parties DEF ItemsTaken, flags, queues, made, store, Go, AfterReport, Reporting
<1>9. /\ step \in [Party -> Reporting \cup WorkerSteps \cup {"rest", "moving", "gone"}]
      /\ step["worker"] \in {"clear", "copy", "save", "gone"} \cup WorkerSteps
  BY <1>0 DEF QueueTyped
<1>1. ASSUME NEW t \in Party, Report(t) PROVE ItemsTaken'
  <2>1. items' = items
    BY <1>1 DEF Report, AppendSnapshot, ClearSnapshot, CopySnapshot, SaveCopy
  <2>2. step'["worker"] = step["worker"] \/ step'["worker"] \in {"copy", "return", "save"}
    BY <1>1, <1>9 DEF Report, AppendSnapshot, ClearSnapshot, CopySnapshot, SaveCopy
  <2> QED
    BY <1>0, <2>1, <2>2
<1>2. ASSUME NEW t \in Submitter, Submit(t) PROVE ItemsTaken'
  BY <1>0, <1>2, <1>9 DEF Submit
<1>3. ASSUME NEW from, MoveOne(from) PROVE ItemsTaken'
  BY <1>0, <1>3, <1>9 DEF MoveOne
<1>4. CASE MoveDone
  BY <1>0, <1>4, <1>9 DEF MoveDone
<1>5. CASE Interrupt \/ CloseApp
  BY <1>0, <1>5 DEF Interrupt, CloseApp, Exit
<1>6. CASE ForceLine \/ NewSession \/ Over
  BY <1>0, <1>6 DEF ForceLine, NewSession, Over, queueVars
<1>7. CASE Work
  <2>1. CASE OpenSession \/ TopOfLoop \/ PhaseStopped \/ TakeForced \/ PhasesDone \/ LeaveSession
             \/ DrainedSome \/ DrainOne
    BY <1>0, <1>9, <2>1 DEF OpenSession, TopOfLoop, PhaseStopped, TakeForced, PhasesDone, LeaveSession,
       DrainedSome, DrainOne
  <2>2. CASE DrainedNone \/ ReturnItems
    BY <1>0, <1>9, <2>2 DEF DrainedNone, ReturnItems
  <2>3. CASE StayIdle \/ LeaveIdle
    BY <1>0, <1>9, <2>3 DEF StayIdle, LeaveIdle
  <2> QED
    BY <1>7, <2>1, <2>2, <2>3 DEF Work
<1> QED
  BY <1>1, <1>2, <1>3, <1>4, <1>5, <1>6, <1>7 DEF QueueNext, Person, Promote

---------------------------------------------------------------------------
(* Every request is in one place.                                          *)

\* Handing over a queue that holds a request at most once, and holds none
\* that was handed over before, counts what left it.
LEMMA HandedOver ==
  ASSUME QueueTyped, NEW q \in Seq(Request), HandOver(q), NEW r \in Request,
         Times(r, q) + handed[r] <= 1
  PROVE  handed'[r] = handed[r] + Times(r, q)
<1>1. Times(r, q) \in Nat /\ (r \in ToSet(q) <=> Times(r, q) # 0)
  BY TimesType
<1>2. handed[r] \in 0 .. 2
  BY DEF QueueTyped
<1>3. handed'[r] = IF r \in ToSet(q) /\ handed[r] < 2 THEN handed[r] + 1 ELSE handed[r]
  BY DEF HandOver
<1>4. (Times(r, q) = 0) \/ (Times(r, q) = 1 /\ handed[r] = 0)
  BY <1>1, <1>2
<1>5. CASE Times(r, q) = 0
  BY <1>1, <1>2, <1>3, <1>5
<1>6. CASE Times(r, q) = 1 /\ handed[r] = 0
  BY <1>1, <1>2, <1>3, <1>6
<1> QED
  BY <1>4, <1>5, <1>6

LEMMA PlacedKept ==
  ASSUME QueueInv, QueueNext
  PROVE  OncePlaced'
<1>0. QueueTyped /\ OncePlaced /\ SessionsOpen /\ QueueTyped'
  BY TypesKept DEF QueueInv
<1> SUFFICES ASSUME NEW r \in Request
             PROVE  (Times(r, queued) + Times(r, forced) + Times(r, items) + handed[r]
                      + (IF session = 0 THEN Times(r, stored[1]) ELSE 0)
                      = (IF r < next THEN 1 ELSE 0))'
  BY DEF OncePlaced
<1> DEFINE Waits == IF session = 0 THEN Times(r, stored[1]) ELSE 0
           Made == IF r < next THEN 1 ELSE 0
           Total == Times(r, queued) + Times(r, forced) + Times(r, items) + handed[r] + Waits
<1>1. /\ forced \in Seq(Request) /\ queued \in Seq(Request) /\ items \in Seq(Request)
      /\ session \in Nat /\ session <= MaxSessions /\ stored \in [Session -> Seq(Request)]
      /\ next \in 1 .. MaxRequests + 1 /\ r \in Nat
      /\ handed[r] \in 0 .. 2 /\ stored[1] \in Seq(Request)
  BY <1>0, Parties DEF QueueTyped
<1>2. /\ Times(r, queued) \in Nat /\ Times(r, forced) \in Nat /\ Times(r, items) \in Nat
      /\ Times(r, stored[1]) \in Nat /\ handed[r] \in Nat
  BY <1>1, TimesType
<1>3. Total = Made
  BY <1>0 DEF OncePlaced
<1>4. <<>> \in Seq(Request)
  OBVIOUS
<1>5. Times(r, <<>>) = 0
  BY <1>4, TimesType
<1>6. ASSUME UNCHANGED <<queued, forced, items, handed, next, session>>,
             session = 0 => stored'[1] = stored[1]
      PROVE  (Total = Made)'
  <2>1. Waits' = Waits
    BY <1>6
  <2>2. /\ (Times(r, queued))' = Times(r, queued) /\ (Times(r, forced))' = Times(r, forced)
        /\ (Times(r, items))' = Times(r, items)
    BY <1>6 DEF Times
  <2>3. Made' = Made /\ handed' = handed
    BY <1>6
  <2> HIDE DEF Waits, Made
  <2> QED
    BY <1>3, <2>1, <2>2, <2>3
<1>7. ASSUME UNCHANGED <<session, stored>>
      PROVE  Waits' = Waits
  BY <1>7 DEF Times
<1>8. Waits \in Nat /\ Made \in 0 .. 1
  BY <1>2
<1>9. ASSUME next' = next
      PROVE  Made' = Made
  BY <1>9
<1>19. ASSUME next' = next + 1
       PROVE  Made' = Made + (IF next = r THEN 1 ELSE 0)
  BY <1>1, <1>19
<1> HIDE DEF Waits, Made
<1>10. ASSUME NEW t \in Party, Report(t)
       PROVE  (Total = Made)'
  <2>1. CASE AppendSnapshot(t) \/ ClearSnapshot(t) \/ CopySnapshot(t)
    <3>1. UNCHANGED <<queued, forced, items, handed, next, session, stored>>
      BY <2>1 DEF AppendSnapshot, ClearSnapshot, CopySnapshot, queues, made, store
    <3> QED
      BY <1>6, <3>1
  <2>2. CASE SaveCopy(t)
    <3>1. UNCHANGED <<queued, forced, items, handed, next, session>>
      BY <2>2 DEF SaveCopy, queues, made
    <3>2. session # 0
      <4>1. copy[t].session >= 1 /\ copy[t].session <= session /\ copy[t].session \in Nat
        BY <1>0, <2>2 DEF SaveCopy, SessionsOpen, Go, QueueTyped
      <4> QED
        BY <1>1, <4>1
    <3> QED
      BY <1>6, <3>1, <3>2
  <2> QED
    BY <1>10, <2>1, <2>2 DEF Report
<1>11. ASSUME NEW t \in Submitter, Submit(t)
       PROVE  (Total = Made)'
  <2>1. Times(r, queued') = Times(r, queued) + (IF next = r THEN 1 ELSE 0)
    BY <1>1, <1>11, TimesAppend DEF Submit
  <2>2. UNCHANGED <<forced, items, handed, session, stored>> /\ next' = next + 1
    BY <1>11 DEF Submit, store
  <2>3. /\ (Times(r, queued))' = Times(r, queued') /\ (Times(r, forced))' = Times(r, forced)
        /\ (Times(r, items))' = Times(r, items)
    BY <2>2 DEF Times
  <2>4. Waits' = Waits /\ handed'[r] = handed[r]
    BY <1>7, <2>2
  <2>5. Made' = Made + (IF next = r THEN 1 ELSE 0)
    BY <1>19, <2>2
  <2> QED
    BY <1>2, <1>3, <1>8, <2>1, <2>2, <2>3, <2>4, <2>5
<1>12. ASSUME ForceLine
       PROVE  (Total = Made)'
  <2>1. Times(r, forced') = Times(r, forced) + (IF next = r THEN 1 ELSE 0)
    BY <1>1, <1>12, TimesAppend DEF ForceLine
  <2>2. UNCHANGED <<queued, items, handed, session, stored>> /\ next' = next + 1
    BY <1>12 DEF ForceLine, store
  <2>3. /\ (Times(r, forced))' = Times(r, forced') /\ (Times(r, queued))' = Times(r, queued)
        /\ (Times(r, items))' = Times(r, items)
    BY <2>2 DEF Times
  <2>4. Waits' = Waits /\ handed'[r] = handed[r]
    BY <1>7, <2>2
  <2>5. Made' = Made + (IF next = r THEN 1 ELSE 0)
    BY <1>19, <2>2
  <2> QED
    BY <1>2, <1>3, <1>8, <2>1, <2>2, <2>3, <2>4, <2>5
<1>13. ASSUME NEW from, MoveOne(from)
       PROVE  (Total = Made)'
  <2>0. queued # <<>> /\ Head(queued) \in Request /\ Tail(queued) \in Seq(Request)
    BY <1>1, <1>13, HeadTailProperties DEF MoveOne
  <2>1. Times(r, forced') = Times(r, forced) + (IF Head(queued) = r THEN 1 ELSE 0)
    BY <1>1, <1>13, <2>0, TimesAppend DEF MoveOne
  <2>2. Times(r, queued) = Times(r, queued') + (IF Head(queued) = r THEN 1 ELSE 0)
    BY <1>1, <1>13, <2>0, TimesTail DEF MoveOne
  <2>3. UNCHANGED <<items, handed, session, stored, next>>
    BY <1>13 DEF MoveOne, store, made
  <2>4. /\ (Times(r, forced))' = Times(r, forced') /\ (Times(r, queued))' = Times(r, queued')
        /\ (Times(r, items))' = Times(r, items)
    BY <2>3 DEF Times
  <2>5. Waits' = Waits /\ handed'[r] = handed[r] /\ Made' = Made
    BY <1>7, <1>9, <2>3
  <2>6. Times(r, queued') \in Nat
    BY <1>13, <2>0, TimesType DEF MoveOne
  <2> QED
    BY <1>2, <1>3, <1>8, <2>1, <2>2, <2>3, <2>4, <2>5, <2>6
<1>14. ASSUME DrainOne
       PROVE  (Total = Made)'
  <2>0. queued # <<>> /\ Head(queued) \in Request /\ Tail(queued) \in Seq(Request)
    BY <1>1, <1>14, HeadTailProperties DEF DrainOne
  <2>1. Times(r, items') = Times(r, items) + (IF Head(queued) = r THEN 1 ELSE 0)
    BY <1>1, <1>14, <2>0, TimesAppend DEF DrainOne
  <2>2. Times(r, queued) = Times(r, queued') + (IF Head(queued) = r THEN 1 ELSE 0)
    BY <1>1, <1>14, <2>0, TimesTail DEF DrainOne
  <2>3. UNCHANGED <<forced, handed, session, stored, next>>
    BY <1>14 DEF DrainOne, store, made
  <2>4. /\ (Times(r, items))' = Times(r, items') /\ (Times(r, queued))' = Times(r, queued')
        /\ (Times(r, forced))' = Times(r, forced)
    BY <2>3 DEF Times
  <2>5. Waits' = Waits /\ handed'[r] = handed[r] /\ Made' = Made
    BY <1>7, <1>9, <2>3
  <2>6. Times(r, queued') \in Nat
    BY <1>14, <2>0, TimesType DEF DrainOne
  <2> QED
    BY <1>2, <1>3, <1>8, <2>1, <2>2, <2>3, <2>4, <2>5, <2>6
<1>15. ASSUME TakeForced
       PROVE  (Total = Made)'
  <2>1. Times(r, forced) + handed[r] <= 1
    BY <1>2, <1>3, <1>8
  <2>2. handed'[r] = handed[r] + Times(r, forced)
    BY <1>0, <1>1, <1>15, <2>1, HandedOver DEF TakeForced
  <2>3. forced' = <<>> /\ UNCHANGED <<queued, items, session, stored, next>>
    BY <1>15 DEF TakeForced, store, made
  <2>4. /\ (Times(r, forced))' = 0 /\ (Times(r, queued))' = Times(r, queued)
        /\ (Times(r, items))' = Times(r, items)
    BY <1>5, <2>3 DEF Times
  <2>5. Waits' = Waits /\ Made' = Made
    BY <1>7, <1>9, <2>3
  <2> QED
    BY <1>2, <1>3, <1>8, <2>2, <2>3, <2>4, <2>5
<1>16. ASSUME ReturnItems
       PROVE  (Total = Made)'
  <2>1. Times(r, items) + handed[r] <= 1
    BY <1>2, <1>3, <1>8
  <2>2. handed'[r] = handed[r] + Times(r, items)
    BY <1>0, <1>1, <1>16, <2>1, HandedOver DEF ReturnItems
  <2>3. items' = <<>> /\ UNCHANGED <<queued, forced, session, stored, next>>
    BY <1>16 DEF ReturnItems, store, made
  <2>4. /\ (Times(r, items))' = 0 /\ (Times(r, queued))' = Times(r, queued)
        /\ (Times(r, forced))' = Times(r, forced)
    BY <1>5, <2>3 DEF Times
  <2>5. Waits' = Waits /\ Made' = Made
    BY <1>7, <1>9, <2>3
  <2> QED
    BY <1>2, <1>3, <1>8, <2>2, <2>3, <2>4, <2>5
<1>17. ASSUME OpenSession
       PROVE  (Total = Made)'
  <2>1. session < MaxSessions
    BY <1>0, <1>17 DEF OpenSession, SessionsOpen, Go
  <2>2. session + 1 \in Session
    BY <1>1, <2>1, Parties
  <2>3. stored[session + 1] \in Seq(Request)
    BY <1>1, <2>2
  <2>4. Times(r, queued') = Times(r, queued) + Times(r, stored[session + 1])
    BY <1>1, <1>17, <2>3, TimesConcat DEF OpenSession
  <2>5. UNCHANGED <<forced, items, handed, stored, next>> /\ session' = session + 1
    BY <1>17 DEF OpenSession, made
  <2>6. /\ (Times(r, queued))' = Times(r, queued') /\ (Times(r, forced))' = Times(r, forced)
        /\ (Times(r, items))' = Times(r, items)
    BY <2>5 DEF Times
  <2>7. Waits' = 0 /\ Made' = Made
    <3>1. session' # 0
      BY <1>1, <2>5
    <3> QED
      BY <1>9, <2>5, <3>1 DEF Waits
  <2>8. Times(r, stored[session + 1]) = Waits
    <3>1. CASE session = 0
      BY <3>1 DEF Waits
    <3>2. CASE session # 0
      <4>1. session + 1 # 1 /\ session + 1 > session
        BY <1>1, <3>2
      <4>2. stored[session + 1] = <<>>
        BY <1>0, <2>2, <4>1 DEF SessionsOpen
      <4> QED
        BY <1>5, <3>2, <4>2 DEF Waits
    <3> QED
      BY <3>1, <3>2
  <2> QED
    BY <1>2, <1>3, <1>8, <2>4, <2>5, <2>6, <2>7, <2>8
<1>18. ASSUME \/ MoveDone \/ Interrupt \/ NewSession \/ CloseApp \/ Over
              \/ TopOfLoop \/ PhaseStopped \/ PhasesDone \/ DrainedSome
              \/ DrainedNone \/ StayIdle \/ LeaveIdle \/ LeaveSession
       PROVE  (Total = Made)'
  <2>1. UNCHANGED <<queued, forced, items, handed, next, session, stored>>
    BY <1>18 DEF MoveDone, Interrupt, NewSession, CloseApp, Over, queueVars, TopOfLoop,
       PhaseStopped, PhasesDone, DrainedSome, DrainedNone, StayIdle, LeaveIdle, LeaveSession,
       queues, made, store
  <2> QED
    BY <1>6, <2>1
<1> QED
  BY <1>10, <1>11, <1>12, <1>13, <1>14, <1>15, <1>16, <1>17, <1>18
  DEF QueueNext, Person, Promote, Work, Waits, Made

---------------------------------------------------------------------------
(* What is missing in the snapshot and in the store.                       *)

LEMMA OneChanges ==
  ASSUME NEW t \in Party, t \in Changing', \A u \in Party : u \in Changing' => u = t, Midway(t)'
  PROVE  Settled'
<1>1. \A u \in Changing' : u \in Party
  BY DEF Changing
<1>2. \A u \in Party : u # t => step'[u] \notin Reporting
  BY DEF Changing
<1>3. \A u \in Party : u # t => Midway(u)'
  BY <1>2 DEF Midway, Reporting
<1>4. \A u \in Party : Midway(u)'
  BY <1>3
<1> QED
  BY <1>1, <1>4 DEF Settled

LEMMA NoneChanges ==
  ASSUME \A u \in Party : u \notin Changing',
         snapshot' = queued', session' > 0 => stored'[session'] = queued'
  PROVE  Settled'
<1>1. Changing' = {}
  BY DEF Changing
<1>2. \A u \in Party : step'[u] \notin Reporting
  BY DEF Changing
<1>3. \A u \in Party : Midway(u)'
  BY <1>2 DEF Midway, Reporting
<1> QED
  BY <1>1, <1>3 DEF Settled

LEMMA SameChanges ==
  ASSUME Settled, clean' => clean, step'["ui"] # "gone" => step["ui"] # "gone",
         \A t \in Party : t \in Changing' <=> t \in Changing,
         UNCHANGED <<queued, snapshot, stored, session, hand, copy>>,
         \A t \in Party : step'[t] \in Reporting => step'[t] = step[t]
  PROVE  Settled'
<1>1. Changing' = Changing
  BY DEF Changing
<1>2. ASSUME NEW t \in Party, Midway(t) PROVE Midway(t)'
  BY <1>2 DEF Midway, Reporting
<1> QED
  BY <1>1, <1>2 DEF Settled

LEMMA SettledKept ==
  ASSUME QueueInv, QueueNext
  PROVE  Settled'
<1> SUFFICES ASSUME clean', step'["ui"] # "gone"
             PROVE  Settled'
  BY DEF Settled
<1>0. QueueTyped /\ Submitting /\ SessionsOpen /\ ItemsTaken /\ Settled
  BY DEF QueueInv
<1>1. /\ step \in [Party -> Reporting \cup WorkerSteps \cup {"rest", "moving", "gone"}]
      /\ clean \in BOOLEAN /\ session \in Nat /\ session <= MaxSessions
      /\ copy \in [Party -> [session : Nat, items : Seq(Request)]]
      /\ hand \in [Submitter -> Request \cup {0}] /\ stored \in [Session -> Seq(Request)]
      /\ queued \in Seq(Request) /\ items \in Seq(Request) /\ snapshot \in Seq(Request)
  BY <1>0 DEF QueueTyped
<1>2. ASSUME clean, step["ui"] # "gone"
      PROVE  /\ \A t, u \in Changing : t = u
             /\ Changing = {} => snapshot = queued /\ (session > 0 => stored[session] = queued)
             /\ \A t \in Party : Midway(t)
  BY <1>0, <1>2 DEF Settled
<1>3. ASSUME NEW t \in Party
      PROVE  t \in Changing <=> \/ step[t] \in Reporting \cup {"moving"}
                                \/ t = "worker" /\ step[t] \in {"drain", "taking"} /\ items # <<>>
  BY DEF Changing
<1>4. ASSUME NEW t \in Party
      PROVE  t \in Changing' <=> \/ step'[t] \in Reporting \cup {"moving"}
                                 \/ t = "worker" /\ step'[t] \in {"drain", "taking"} /\ items' # <<>>
  BY DEF Changing
<1> USE Parties DEF flags, queues, made, store, Go
<1>10. ASSUME NEW t \in Party, AppendSnapshot(t) PROVE Settled'
  <2>1. clean /\ step["ui"] # "gone" /\ step[t] = "append" /\ t \in Changing
    <3>1. step[t] = "append" /\ (t # "ui" => step'["ui"] = step["ui"])
      BY <1>1, <1>10 DEF AppendSnapshot
    <3> QED
      BY <1>3, <1>10, <3>1 DEF AppendSnapshot, Reporting
  <2>2. \A u \in Party : u \in Changing => u = t
    BY <1>2, <2>1
  <2>3. step'[t] = "copy" /\ items' = items /\ \A u \in Party : u # t => step'[u] = step[u]
    BY <1>1, <1>10 DEF AppendSnapshot
  <2>4. t \in Changing' /\ \A u \in Party : u \in Changing' => u = t
    BY <1>3, <1>4, <2>2, <2>3 DEF Reporting
  <2>5. snapshot' = queued'
    BY <1>2, <1>10, <2>1 DEF AppendSnapshot, Midway
  <2> QED
    BY <2>3, <2>4, <2>5, OneChanges DEF Midway
<1>11. ASSUME NEW t \in Party, ClearSnapshot(t) PROVE Settled'
  <2>1. clean /\ step["ui"] # "gone" /\ step[t] = "clear" /\ t \in Changing
    <3>1. step[t] = "clear" /\ (t # "ui" => step'["ui"] = step["ui"])
      BY <1>1, <1>11 DEF ClearSnapshot
    <3> QED
      BY <1>3, <1>11, <3>1 DEF ClearSnapshot, Reporting
  <2>2. \A u \in Party : u \in Changing => u = t
    BY <1>2, <2>1
  <2>3. step'[t] = "copy" /\ items' = items /\ \A u \in Party : u # t => step'[u] = step[u]
    BY <1>1, <1>11 DEF ClearSnapshot
  <2>4. t \in Changing' /\ \A u \in Party : u \in Changing' => u = t
    BY <1>3, <1>4, <2>2, <2>3 DEF Reporting
  <2>5. snapshot' = queued'
    BY <1>2, <1>11, <2>1 DEF ClearSnapshot, Midway
  <2> QED
    BY <2>3, <2>4, <2>5, OneChanges DEF Midway
<1>12. ASSUME NEW t \in Party, CopySnapshot(t) PROVE Settled'
  <2>1. clean /\ step["ui"] # "gone" /\ step[t] = "copy" /\ t \in Changing
    <3>1. step[t] = "copy" /\ (t # "ui" => step'["ui"] = step["ui"])
      BY <1>1, <1>12 DEF CopySnapshot
    <3> QED
      BY <1>3, <1>12, <3>1 DEF CopySnapshot, Reporting
  <2>2. \A u \in Party : u \in Changing => u = t
    BY <1>2, <2>1
  <2>3. items' = items /\ \A u \in Party : u # t => step'[u] = step[u]
    BY <1>1, <1>12 DEF CopySnapshot
  <2>5. snapshot' = queued' /\ session' = session /\ stored' = stored
    BY <1>2, <1>12, <2>1 DEF CopySnapshot, Midway
  <2>6. CASE session = 0
    <3>1. step'[t] = AfterReport(t)
      BY <1>1, <1>12, <2>6 DEF CopySnapshot
    <3>2. \A u \in Party : u \notin Changing'
      BY <1>3, <1>4, <2>2, <2>3, <3>1 DEF Reporting, AfterReport
    <3> QED
      BY <2>5, <2>6, <3>2, NoneChanges
  <2>7. CASE session # 0
    <3>1. step'[t] = "save" /\ copy'[t] = [session |-> session, items |-> snapshot]
      BY <1>1, <1>12, <2>7 DEF CopySnapshot
    <3>2. t \in Changing' /\ \A u \in Party : u \in Changing' => u = t
      BY <1>3, <1>4, <2>2, <2>3, <3>1 DEF Reporting
    <3>3. Midway(t)'
      BY <1>12, <2>5, <3>1 DEF Midway, CopySnapshot
    <3> QED
      BY <3>2, <3>3, OneChanges
  <2> QED
    BY <2>6, <2>7
<1>13. ASSUME NEW t \in Party, SaveCopy(t) PROVE Settled'
  <2>1. clean /\ step["ui"] # "gone" /\ step[t] = "save" /\ t \in Changing
    <3>1. step[t] = "save" /\ (t # "ui" => step'["ui"] = step["ui"])
      BY <1>1, <1>13 DEF SaveCopy
    <3> QED
      BY <1>3, <1>13, <3>1 DEF SaveCopy, Reporting
  <2>2. \A u \in Party : u \in Changing => u = t
    BY <1>2, <2>1
  <2>3. items' = items /\ step'[t] = AfterReport(t) /\ \A u \in Party : u # t => step'[u] = step[u]
    BY <1>1, <1>13 DEF SaveCopy
  <2>4. \A u \in Party : u \notin Changing'
    BY <1>3, <1>4, <2>2, <2>3 DEF Reporting, AfterReport
  <2>5. /\ snapshot = queued /\ copy[t].items = queued /\ copy[t].session = session
        /\ session >= 1
    BY <1>0, <1>2, <2>1 DEF Midway, SessionsOpen
  <2>6. snapshot' = queued' /\ stored'[session'] = queued'
    BY <1>1, <1>13, <2>5 DEF SaveCopy
  <2> QED
    BY <2>4, <2>6, NoneChanges
<1>14. ASSUME NEW t \in Submitter, Submit(t) PROVE Settled'
  <2>1. clean /\ step["ui"] # "gone" /\ step[t] = "rest" /\ \A u \in Party : u \in Changing => u = t
    <3>1. step[t] = "rest" /\ (t # "ui" => step'["ui"] = step["ui"])
      BY <1>1, <1>14 DEF Submit
    <3>2. clean /\ Changing \subseteq {t}
      BY <1>14 DEF Submit, Alone
    <3> QED
      BY <3>1, <3>2
  <2>2. \A u \in Party : u \notin Changing
    BY <1>3, <2>1 DEF Reporting
  <2>3. Changing = {}
    BY <2>2 DEF Changing
  <2>4. items' = items /\ step'[t] = "append" /\ \A u \in Party : u # t => step'[u] = step[u]
    BY <1>1, <1>14 DEF Submit
  <2>5. t \in Changing' /\ \A u \in Party : u \in Changing' => u = t
    BY <1>3, <1>4, <2>2, <2>4 DEF Reporting
  <2>6. snapshot = queued
    BY <1>2, <2>1, <2>3
  <2>7. hand'[t] = next /\ queued' = Append(queued, next) /\ snapshot' = snapshot
    BY <1>1, <1>14 DEF Submit
  <2> QED
    BY <2>4, <2>5, <2>6, <2>7, OneChanges DEF Midway
<1>15. ASSUME NEW from, MoveOne(from) PROVE Settled'
  <2>1. clean /\ Changing \subseteq {"ui"} /\ items' = items
    BY <1>15 DEF MoveOne, Alone
  <2>2. step'["ui"] = "moving" /\ \A u \in Party : u # "ui" => step'[u] = step[u]
    BY <1>1, <1>15 DEF MoveOne
  <2>3. "ui" \in Changing' /\ \A u \in Party : u \in Changing' => u = "ui"
    BY <1>3, <1>4, <2>1, <2>2
  <2> QED
    BY <2>2, <2>3, OneChanges DEF Midway
<1>16. ASSUME MoveDone PROVE Settled'
  <2>1. clean /\ step["ui"] = "moving" /\ "ui" \in Changing /\ items' = items
    BY <1>3, <1>16 DEF MoveDone
  <2>2. \A u \in Party : u \in Changing => u = "ui"
    BY <1>2, <2>1
  <2>3. step'["ui"] = "clear" /\ \A u \in Party : u # "ui" => step'[u] = step[u]
    BY <1>1, <1>16 DEF MoveDone
  <2>4. "ui" \in Changing' /\ \A u \in Party : u \in Changing' => u = "ui"
    BY <1>3, <1>4, <2>1, <2>2, <2>3 DEF Reporting
  <2>5. queued' = <<>>
    BY <1>16 DEF MoveDone
  <2> QED
    BY <2>3, <2>4, <2>5, OneChanges DEF Midway
<1>17. ASSUME ForceLine \/ Interrupt \/ NewSession \/ CloseApp \/ TakeForced \/ Over PROVE Settled'
  <2>1. step' = step
    BY <1>17 DEF ForceLine, Interrupt, NewSession, CloseApp, Exit, TakeForced, Over, queueVars
  <2>2. UNCHANGED <<queued, snapshot, stored, session, hand, copy, items, clean>>
    BY <1>17 DEF ForceLine, Interrupt, NewSession, CloseApp, TakeForced, Over, queueVars
  <2>3. \A t \in Party : t \in Changing' <=> t \in Changing
    BY <1>3, <1>4, <2>1, <2>2
  <2> QED
    BY <1>0, <2>1, <2>2, <2>3, SameChanges
<1>18. ASSUME OpenSession PROVE Settled'
  <2>1. clean /\ Changing = {} /\ queued = <<>>
    BY <1>18 DEF OpenSession
  <2>2. items' = items /\ step'["worker"] = "top" /\ \A u \in Party : u # "worker" => step'[u] = step[u]
    BY <1>1, <1>18 DEF OpenSession
  <2>3. \A u \in Party : u \notin Changing'
    BY <1>3, <1>4, <2>1, <2>2 DEF Reporting
  <2>4. session + 1 \in Session
    BY <1>0, <1>1, <1>18 DEF OpenSession, SessionsOpen
  <2>5. queued' = stored[session + 1]
    <3>1. stored[session + 1] \in Seq(Request)
      BY <1>1, <2>4
    <3>2. queued' = <<>> \o stored[session + 1]
      BY <1>18, <2>1 DEF OpenSession
    <3> QED
      BY <3>1, <3>2, ConcatEmptySeq
  <2>6. snapshot' = stored[session + 1] /\ stored' = stored /\ session' = session + 1
    BY <1>18 DEF OpenSession
  <2> QED
    BY <2>3, <2>5, <2>6, NoneChanges
<1>19. ASSUME DrainOne PROVE Settled'
  <2>1. clean /\ Changing \subseteq {"worker"} /\ step' = step /\ step["worker"] \in {"drain", "taking"}
    BY <1>19 DEF DrainOne, Alone
  <2>2. items' # <<>>
    <3>1. queued # <<>> /\ items' = Append(items, Head(queued))
      BY <1>19 DEF DrainOne
    <3> QED
      BY <1>1, <3>1
  <2>3. "worker" \in Changing' /\ \A u \in Party : u \in Changing' => u = "worker"
    BY <1>3, <1>4, <2>1, <2>2
  <2> QED
    BY <2>1, <2>3, OneChanges DEF Midway
<1>20. ASSUME DrainedSome PROVE Settled'
  <2>1. /\ clean /\ "worker" \in Changing /\ items' = items
        /\ step["ui"] = step'["ui"]
    BY <1>1, <1>3, <1>20 DEF DrainedSome
  <2>2. \A u \in Party : u \in Changing => u = "worker"
    BY <1>2, <2>1
  <2>3. step'["worker"] = "clear" /\ \A u \in Party : u # "worker" => step'[u] = step[u]
    BY <1>1, <1>20 DEF DrainedSome
  <2>4. "worker" \in Changing' /\ \A u \in Party : u \in Changing' => u = "worker"
    BY <1>3, <1>4, <2>1, <2>2, <2>3 DEF Reporting
  <2>5. queued' = <<>>
    BY <1>20 DEF DrainedSome
  <2> QED
    BY <2>3, <2>4, <2>5, OneChanges DEF Midway
<1>21. ASSUME TopOfLoop \/ PhaseStopped \/ PhasesDone \/ DrainedNone \/ StayIdle \/ LeaveIdle
              \/ ReturnItems \/ LeaveSession
       PROVE  Settled'
  <2>1. UNCHANGED <<queued, snapshot, stored, session, hand, copy, clean>>
    BY <1>21 DEF TopOfLoop, PhaseStopped, PhasesDone, DrainedNone, StayIdle, LeaveIdle,
       ReturnItems, LeaveSession
  <2>2. \A u \in Party : u # "worker" => step'[u] = step[u]
    BY <1>1, <1>21 DEF TopOfLoop, PhaseStopped, PhasesDone, DrainedNone, StayIdle, LeaveIdle,
       ReturnItems, LeaveSession
  <2>3. step'["worker"] \notin Reporting \cup {"moving"} /\ step["worker"] \notin Reporting \cup {"moving"}
    BY <1>1, <1>21 DEF TopOfLoop, PhaseStopped, PhasesDone, DrainedNone, StayIdle, LeaveIdle,
       ReturnItems, LeaveSession, Reporting
  <2>4. ~ (step["worker"] \in {"drain", "taking"} /\ items # <<>>)
    BY <1>21 DEF TopOfLoop, PhaseStopped, PhasesDone, DrainedNone, StayIdle, LeaveIdle,
       ReturnItems, LeaveSession
  <2>5. ~ (step'["worker"] \in {"drain", "taking"} /\ items' # <<>>)
    <3>1. CASE PhasesDone \/ StayIdle
      <4>1. items' = items
        BY <3>1 DEF PhasesDone, StayIdle
      <4>2. step["worker"] \in {"work", "idle"} \/ items = <<>>
        BY <3>1 DEF PhasesDone, StayIdle
      <4> QED
        BY <1>0, <4>1, <4>2 DEF ItemsTaken
    <3>2. CASE TopOfLoop \/ PhaseStopped \/ DrainedNone \/ LeaveIdle \/ ReturnItems \/ LeaveSession
      BY <1>1, <3>2 DEF TopOfLoop, PhaseStopped, DrainedNone, LeaveIdle, ReturnItems, LeaveSession
    <3> QED
      BY <1>21, <3>1, <3>2
  <2>6. \A t \in Party : t \in Changing' <=> t \in Changing
    <3>1. "worker" \notin Changing /\ "worker" \notin Changing'
      BY <1>3, <1>4, <2>3, <2>4, <2>5
    <3>2. \A t \in Party : t # "worker" => (t \in Changing' <=> t \in Changing)
      BY <1>3, <1>4, <2>2
    <3> QED
      BY <3>1, <3>2
  <2>7. \A t \in Party : step'[t] \in Reporting => step'[t] = step[t]
    BY <2>2, <2>3
  <2> QED
    BY <1>0, <2>1, <2>2, <2>6, <2>7, SameChanges
<1> QED
  BY <1>10, <1>11, <1>12, <1>13, <1>14, <1>15, <1>16, <1>17, <1>18, <1>19, <1>20, <1>21
  DEF QueueNext, Person, Promote, Work, Report

---------------------------------------------------------------------------
(* The theorems.                                                           *)

\* The queues, the snapshot, the store and the worker stay in step with
\* what was made and what was handed over, whatever threads do meanwhile.
THEOREM QueueAlways == QueueSpec => []QueueInv
<1>1. QueueInit => QueueInv
  BY QueueBegins
<1>2. QueueInv /\ [QueueNext]_queueVars => QueueInv'
  <2>1. CASE QueueNext
    BY <2>1, TypesKept, SubmittersKept, SessionsKept, TakenKept, PlacedKept, SettledKept
    DEF QueueInv
  <2>2. CASE UNCHANGED queueVars
    <3>1. Changing' = Changing
      BY <2>2 DEF queueVars, Changing
    <3>2. (QueueTyped /\ Submitting /\ SessionsOpen /\ ItemsTaken)'
            <=> QueueTyped /\ Submitting /\ SessionsOpen /\ ItemsTaken
      BY <2>2 DEF queueVars, QueueTyped, Submitting, SessionsOpen, ItemsTaken
    <3>3. (OncePlaced <=> OncePlaced') /\ (Settled <=> Settled')
      BY <2>2, <3>1 DEF queueVars, OncePlaced, Times, Settled, Midway
    <3> QED
      BY <3>2, <3>3 DEF QueueInv
  <2> QED
    BY <2>1, <2>2
<1> QED
  BY <1>1, <1>2, PTL DEF QueueSpec

\* A request is in one place at a time until it is handed to the pipeline,
\* and is handed over once: also when the worker drains the queue while the
\* person promotes it and dashboards add to it (_drain and _promote_queue,
\* which take one request after the other), and across sessions.
THEOREM RequestsOnce == QueueSpec => []EachOnce
<1>1. QueueInv => EachOnce
  <2> SUFFICES ASSUME QueueInv, NEW r \in 1 .. next - 1,
                      session > 0 \/ Times(r, stored[1]) = 0
               PROVE  Times(r, queued) + Times(r, forced) + Times(r, items) + handed[r] = 1
    BY DEF EachOnce
  <2>0. QueueTyped /\ OncePlaced
    BY DEF QueueInv
  <2>1. next \in 1 .. MaxRequests + 1 /\ MaxRequests \in Nat
    BY <2>0, Parties DEF QueueTyped
  <2>2. r \in Request /\ r < next
    BY <2>1, Parties
  <2>3. /\ forced \in Seq(Request) /\ queued \in Seq(Request) /\ items \in Seq(Request)
        /\ handed[r] \in Nat /\ session \in Nat
    <3>1. handed \in [Request -> 0 .. 2]
      BY <2>0 DEF QueueTyped
    <3>2. handed[r] \in Nat
      BY <2>2, <3>1
    <3> QED
      BY <2>0, <3>2 DEF QueueTyped
  <2>4. Times(r, queued) \in Nat /\ Times(r, forced) \in Nat /\ Times(r, items) \in Nat
    BY <2>3, TimesType
  <2>5. Times(r, queued) + Times(r, forced) + Times(r, items) + handed[r]
          + (IF session = 0 THEN Times(r, stored[1]) ELSE 0) = 1
    BY <2>0, <2>2 DEF OncePlaced
  <2>6. (IF session = 0 THEN Times(r, stored[1]) ELSE 0) = 0
    BY <2>3
  <2> QED
    BY <2>3, <2>4, <2>5, <2>6
<1> QED
  BY <1>1, QueueAlways, PTL

\* Unless two changes of the queue overlapped, the rows in the store are the
\* queue whenever no change is under way: the snapshot that is saved without
\* the lock is not an old one, and a session that opens takes up what the
\* last one left.
THEOREM StoreIsKept == QueueSpec => []StoreKept
<1>1. QueueInv => StoreKept
  BY DEF QueueInv, Settled, StoreKept
<1> QED
  BY <1>1, QueueAlways, PTL

---------------------------------------------------------------------------
(* The queues keep the promise of RequestQueue.                            *)

\* The operators on sequences of RequestQueue are the ones used here.
LEMMA SameOperators ==
  ASSUME NEW q, NEW i
  PROVE  /\ Promise!ToSet(q) = ToSet(q)
         /\ Promise!IsInjective(q) <=> IsInjective(q)
         /\ Promise!RemoveAt(q, i) = RemoveAt(q, i)
BY DEF Promise!ToSet, ToSet, Promise!IsInjective, IsInjective, Promise!RemoveAt, RemoveAt

\* Taking the first of a queue over to the end of another leaves the two,
\* one after the other, as they are.
LEMMA TakenOver ==
  ASSUME NEW q \in Seq(Request), NEW p \in Seq(Request), p # <<>>
  PROVE  Append(q, Head(p)) \o Tail(p) = q \o p
<1>1. /\ Head(p) = p[1] /\ Head(p) \in Request /\ Tail(p) \in Seq(Request)
      /\ Len(Tail(p)) = Len(p) - 1 /\ \A i \in 1 .. Len(Tail(p)) : Tail(p)[i] = p[i + 1]
      /\ Len(p) \in Nat /\ Len(p) > 0 /\ Len(q) \in Nat
  BY HeadTailProperties, EmptySeq
<1> DEFINE a == Append(q, Head(p))
           b == Tail(p)
<1>2. /\ a \in Seq(Request) /\ Len(a) = Len(q) + 1
      /\ \A i \in 1 .. Len(q) : a[i] = q[i]
      /\ a[Len(q) + 1] = p[1]
  BY <1>1, AppendProperties
<1>3. b \in Seq(Request) /\ Len(b) = Len(p) - 1 /\ \A i \in 1 .. Len(b) : b[i] = p[i + 1]
  BY <1>1
<1> HIDE DEF a, b
<1>4. /\ a \o b \in Seq(Request) /\ Len(a \o b) = Len(q) + Len(p)
      /\ \A i \in 1 .. Len(q) + Len(p) :
           (a \o b)[i] = IF i <= Len(q) + 1 THEN a[i] ELSE b[i - (Len(q) + 1)]
  <2>1. Len(a) + Len(b) = Len(q) + Len(p)
    BY <1>1, <1>2, <1>3
  <2>2. /\ a \o b \in Seq(Request) /\ Len(a \o b) = Len(a) + Len(b)
        /\ \A i \in 1 .. Len(a) + Len(b) :
             (a \o b)[i] = IF i <= Len(a) THEN a[i] ELSE b[i - Len(a)]
    BY <1>2, <1>3, ConcatProperties
  <2>3. Len(a) = Len(q) + 1
    BY <1>2
  <2> QED
    BY <2>1, <2>2, <2>3
<1>5. /\ q \o p \in Seq(Request) /\ Len(q \o p) = Len(q) + Len(p)
      /\ \A i \in 1 .. Len(q) + Len(p) : (q \o p)[i] = IF i <= Len(q) THEN q[i] ELSE p[i - Len(q)]
  BY ConcatProperties
<1>6. ASSUME NEW i \in 1 .. Len(q) + Len(p) PROVE (a \o b)[i] = (q \o p)[i]
  <2>1. CASE i <= Len(q)
    <3>1. i \in 1 .. Len(q) /\ i <= Len(q) + 1
      BY <1>1, <2>1
    <3> QED
      BY <1>2, <1>4, <1>5, <2>1, <3>1
  <2>2. CASE i = Len(q) + 1
    <3>1. ~ (i <= Len(q)) /\ i <= Len(q) + 1 /\ i - Len(q) = 1
      BY <1>1, <2>2
    <3>2. (a \o b)[i] = a[Len(q) + 1] /\ (q \o p)[i] = p[1]
      BY <1>4, <1>5, <2>2, <3>1
    <3> QED
      BY <1>2, <3>2
  <2>3. CASE i > Len(q) + 1
    <3>1. /\ ~ (i <= Len(q)) /\ ~ (i <= Len(q) + 1)
          /\ i - (Len(q) + 1) \in 1 .. Len(b) /\ (i - (Len(q) + 1)) + 1 = i - Len(q)
      BY <1>1, <1>3, <2>3
    <3>2. (a \o b)[i] = b[i - (Len(q) + 1)] /\ (q \o p)[i] = p[i - Len(q)]
      BY <1>4, <1>5, <3>1
    <3>3. b[i - (Len(q) + 1)] = p[(i - (Len(q) + 1)) + 1]
      BY <1>3, <3>1
    <3> QED
      BY <3>1, <3>2, <3>3
  <2>4. Len(q) \in Nat /\ i \in Int
    BY <1>1
  <2>5. i <= Len(q) \/ i = Len(q) + 1 \/ i > Len(q) + 1
    BY <2>4
  <2> QED
    BY <2>1, <2>2, <2>3, <2>5
<1>7. a \o b = q \o p
  BY <1>4, <1>5, <1>6, SeqEqual
<1> QED
  BY <1>7 DEF a, b

\* The parts of two queues one after the other.
LEMMA PartsOf ==
  ASSUME NEW q \in Seq(Request), NEW p \in Seq(Request)
  PROVE  /\ SubSeq(q \o p, 1, Len(q)) = q
         /\ SubSeq(q \o p, Len(q) + 1, Len(q \o p)) = p
         /\ p # <<>> => /\ Len(q) + 1 \in DOMAIN (q \o p)
                        /\ (q \o p)[Len(q) + 1] = Head(p)
                        /\ RemoveAt(q \o p, Len(q) + 1) = q \o Tail(p)
         /\ q # <<>> => Len(q) \in DOMAIN (q \o p)
<1> DEFINE c == q \o p
<1>1. /\ c \in Seq(Request) /\ Len(c) = Len(q) + Len(p) /\ Len(q) \in Nat /\ Len(p) \in Nat
      /\ \A i \in 1 .. Len(q) + Len(p) : c[i] = IF i <= Len(q) THEN q[i] ELSE p[i - Len(q)]
  BY ConcatProperties
<1> HIDE DEF c
<1>2. \A m, k \in Nat : m >= 1 /\ k <= Len(c) /\ m <= k + 1 =>
        /\ SubSeq(c, m, k) \in Seq(Request) /\ Len(SubSeq(c, m, k)) = k - m + 1
        /\ \A i \in 1 .. k - m + 1 : SubSeq(c, m, k)[i] = c[m + i - 1]
  BY <1>1, SubSeqProperties
<1>3. SubSeq(c, 1, Len(q)) = q
  <2>1. /\ SubSeq(c, 1, Len(q)) \in Seq(Request) /\ Len(SubSeq(c, 1, Len(q))) = Len(q)
        /\ \A i \in 1 .. Len(q) : SubSeq(c, 1, Len(q))[i] = c[i]
    BY <1>1, <1>2
  <2>2. \A i \in 1 .. Len(q) : c[i] = q[i]
    BY <1>1
  <2> QED
    BY <2>1, <2>2, SeqEqual
<1>4. ASSUME NEW k \in Nat, k <= Len(p)
      PROVE  /\ SubSeq(c, Len(q) + k + 1, Len(c)) \in Seq(Request)
             /\ Len(SubSeq(c, Len(q) + k + 1, Len(c))) = Len(p) - k
             /\ \A i \in 1 .. Len(p) - k : SubSeq(c, Len(q) + k + 1, Len(c))[i] = p[k + i]
  <2>1. /\ Len(q) + k + 1 \in Nat /\ Len(q) + k + 1 >= 1 /\ Len(c) \in Nat
        /\ Len(q) + k + 1 <= Len(c) + 1 /\ Len(c) - (Len(q) + k + 1) + 1 = Len(p) - k
    BY <1>1, <1>4
  <2>2. /\ SubSeq(c, Len(q) + k + 1, Len(c)) \in Seq(Request)
        /\ Len(SubSeq(c, Len(q) + k + 1, Len(c))) = Len(p) - k
        /\ \A i \in 1 .. Len(p) - k :
             SubSeq(c, Len(q) + k + 1, Len(c))[i] = c[(Len(q) + k + 1) + i - 1]
    <3> DEFINE m == Len(q) + k + 1
               l == Len(c)
    <3>1. m \in Nat /\ m >= 1 /\ l \in Nat /\ l <= Len(c) /\ m <= l + 1 /\ l - m + 1 = Len(p) - k
      BY <2>1
    <3> HIDE DEF m, l
    <3>2. /\ SubSeq(c, m, l) \in Seq(Request) /\ Len(SubSeq(c, m, l)) = l - m + 1
          /\ \A i \in 1 .. l - m + 1 : SubSeq(c, m, l)[i] = c[m + i - 1]
      BY <1>2, <3>1
    <3>3. /\ SubSeq(c, m, l) \in Seq(Request) /\ Len(SubSeq(c, m, l)) = Len(p) - k
          /\ \A i \in 1 .. Len(p) - k : SubSeq(c, m, l)[i] = c[m + i - 1]
      BY <3>1, <3>2
    <3> QED
      BY <3>3 DEF m, l
  <2>3. ASSUME NEW i \in 1 .. Len(p) - k PROVE c[(Len(q) + k + 1) + i - 1] = p[k + i]
    <3>1. /\ (Len(q) + k + 1) + i - 1 \in 1 .. Len(q) + Len(p)
          /\ ~ ((Len(q) + k + 1) + i - 1 <= Len(q))
          /\ ((Len(q) + k + 1) + i - 1) - Len(q) = k + i
      BY <1>1, <1>4
    <3> QED
      BY <1>1, <3>1
  <2> QED
    BY <2>2, <2>3
<1>5. SubSeq(c, Len(q) + 1, Len(c)) = p
  <2>1. /\ SubSeq(c, Len(q) + 0 + 1, Len(c)) \in Seq(Request)
        /\ Len(SubSeq(c, Len(q) + 0 + 1, Len(c))) = Len(p)
        /\ \A i \in 1 .. Len(p) : SubSeq(c, Len(q) + 0 + 1, Len(c))[i] = p[i]
    <3>1. 0 \in Nat /\ 0 <= Len(p) /\ Len(p) - 0 = Len(p)
      BY <1>1
    <3>2. \A i \in 1 .. Len(p) : p[0 + i] = p[i]
      OBVIOUS
    <3>3. /\ SubSeq(c, Len(q) + 0 + 1, Len(c)) \in Seq(Request)
          /\ Len(SubSeq(c, Len(q) + 0 + 1, Len(c))) = Len(p) - 0
          /\ \A i \in 1 .. Len(p) - 0 : SubSeq(c, Len(q) + 0 + 1, Len(c))[i] = p[0 + i]
      BY <1>4, <3>1
    <3> QED
      BY <3>1, <3>2, <3>3
  <2>2. SubSeq(c, Len(q) + 0 + 1, Len(c)) = p
    BY <2>1, SeqEqual
  <2>3. Len(q) + 0 + 1 = Len(q) + 1
    BY <1>1
  <2> QED
    BY <2>2, <2>3
<1>6. ASSUME p # <<>>
      PROVE  /\ Len(q) + 1 \in DOMAIN c /\ c[Len(q) + 1] = Head(p)
             /\ RemoveAt(c, Len(q) + 1) = q \o Tail(p)
  <2>1. /\ Len(p) >= 1 /\ Head(p) = p[1] /\ Tail(p) \in Seq(Request)
        /\ Len(Tail(p)) = Len(p) - 1 /\ \A i \in 1 .. Len(Tail(p)) : Tail(p)[i] = p[i + 1]
    BY <1>1, <1>6, HeadTailProperties, EmptySeq
  <2>2. Len(q) + 1 \in 1 .. Len(c) /\ DOMAIN c = 1 .. Len(c)
    BY <1>1, <2>1
  <2>3. c[Len(q) + 1] = p[1]
    <3>1. ~ (Len(q) + 1 <= Len(q)) /\ (Len(q) + 1) - Len(q) = 1 /\ Len(q) + 1 \in 1 .. Len(q) + Len(p)
      BY <1>1, <2>1
    <3> QED
      BY <1>1, <3>1
  <2>4. SubSeq(c, (Len(q) + 1) + 1, Len(c)) = Tail(p)
    <3>1. /\ SubSeq(c, Len(q) + 1 + 1, Len(c)) \in Seq(Request)
          /\ Len(SubSeq(c, Len(q) + 1 + 1, Len(c))) = Len(p) - 1
          /\ \A i \in 1 .. Len(p) - 1 : SubSeq(c, Len(q) + 1 + 1, Len(c))[i] = p[1 + i]
      BY <1>1, <1>4, <2>1
    <3>2. \A i \in 1 .. Len(p) - 1 : Tail(p)[i] = p[1 + i]
      BY <1>1, <2>1
    <3> QED
      BY <2>1, <3>1, <3>2, SeqEqual
  <2>5. (Len(q) + 1) - 1 = Len(q)
    BY <1>1
  <2>6. RemoveAt(c, Len(q) + 1) = SubSeq(c, 1, Len(q)) \o SubSeq(c, (Len(q) + 1) + 1, Len(c))
    BY <2>5 DEF RemoveAt
  <2> QED
    BY <1>3, <2>1, <2>2, <2>3, <2>4, <2>6
<1>7. q # <<>> => Len(q) \in DOMAIN c
  BY <1>1, EmptySeq
<1> QED
  BY <1>3, <1>5, <1>6, <1>7 DEF c

\* What is handed over was not before, and is from now on.
LEMMA HandsOver ==
  ASSUME QueueInv, NEW q \in Seq(Request), HandOver(q),
         \A r \in Request : Times(r, q) + handed[r] <= 1
  PROVE  ToSet(q) \cap Handed = {} /\ Handed' = Handed \cup ToSet(q)
<1>1. QueueTyped
  BY DEF QueueInv
<1>2. ASSUME NEW r \in Request
      PROVE  /\ r \in ToSet(q) => r \notin Handed
             /\ r \in Handed' <=> r \in Handed \/ r \in ToSet(q)
  <2>1. Times(r, q) \in Nat /\ (r \in ToSet(q) <=> Times(r, q) # 0)
    BY TimesType
  <2>2. handed[r] \in Nat /\ handed'[r] = handed[r] + Times(r, q) /\ Times(r, q) + handed[r] <= 1
    <3>1. handed \in [Request -> 0 .. 2]
      BY <1>1 DEF QueueTyped
    <3>2. handed[r] \in 0 .. 2
      BY <3>1
    <3> QED
      BY <1>1, <3>2, HandedOver
  <2>3. r \in Handed <=> handed[r] = 1
    BY DEF Handed
  <2>4. r \in Handed' <=> handed'[r] = 1
    BY DEF Handed
  <2>5. CASE Times(r, q) = 0
    BY <2>1, <2>2, <2>3, <2>4, <2>5
  <2>6. CASE Times(r, q) # 0
    <3>1. handed[r] = 0 /\ handed'[r] = 1
      BY <2>1, <2>2, <2>6
    <3> QED
      BY <2>1, <2>3, <2>4, <2>6, <3>1
  <2> QED
    BY <2>5, <2>6
<1>3. ToSet(q) \subseteq Request /\ Handed \subseteq Request /\ Handed' \subseteq Request
  BY DEF ToSet, Handed
<1> QED
  BY <1>2, <1>3

LEMMA PromiseBegins ==
  ASSUME QueueInit
  PROVE  Promise!Init
<1>1. PICK n \in 0 .. MaxRequests :
        /\ stored = [s \in Session |-> IF s = 1 THEN [i \in 1 .. n |-> i] ELSE <<>>]
        /\ next = n + 1
  BY DEF QueueInit
<1>2. Left = [i \in 1 .. n |-> i]
  BY <1>1, Parties DEF QueueInit, Left
<1>3. Waiting = <<>> /\ forced = <<>>
  <2>1. <<>> \o <<>> = <<>>
    OBVIOUS
  <2> QED
    BY <2>1 DEF QueueInit, Waiting
<1>4. Handed = {}
  BY DEF QueueInit, Handed
<1>5. 1 .. next - 1 = 1 .. n
  BY <1>1, Parties
<1> QED
  <2>1. /\ Left \in Seq(Request) /\ IsInjective(Left) /\ ToSet(Left) = 1 .. n
    BY <1>2, Remaining
  <2>2. Promise!IsInjective(Left) /\ Promise!ToSet(Left) = 1 .. n
    BY <2>1, SameOperators
  <2> QED
    BY <1>3, <1>4, <1>5, <2>1, <2>2 DEF Promise!Init

LEMMA PromiseKept ==
  ASSUME QueueInv, QueueInv', QueueNext
  PROVE  Promise!Next \/ UNCHANGED Promise!vars
<1>0. QueueTyped /\ OncePlaced /\ SessionsOpen
  BY DEF QueueInv
<1>1. /\ forced \in Seq(Request) /\ queued \in Seq(Request) /\ items \in Seq(Request)
      /\ session \in Nat /\ session <= MaxSessions /\ stored \in [Session -> Seq(Request)]
      /\ next \in 1 .. MaxRequests + 1 /\ MaxRequests \in Nat
  BY <1>0, Parties DEF QueueTyped
<1>2. ASSUME NEW r \in Request
      PROVE  Times(r, items) + handed[r] <= 1 /\ Times(r, forced) + handed[r] <= 1
  <2>1. /\ Times(r, queued) \in Nat /\ Times(r, forced) \in Nat /\ Times(r, items) \in Nat
        /\ Times(r, stored[1]) \in Nat /\ handed[r] \in Nat
    <3>1. stored[1] \in Seq(Request) /\ handed[r] \in 0 .. 2
      BY <1>0, <1>1, Parties DEF QueueTyped
    <3> QED
      BY <1>1, <3>1, TimesType
  <2> DEFINE waits == IF session = 0 THEN Times(r, stored[1]) ELSE 0
             one == IF r < next THEN 1 ELSE 0
  <2>2. Times(r, queued) + Times(r, forced) + Times(r, items) + handed[r] + waits = one
    BY <1>0 DEF OncePlaced
  <2>3. waits \in Nat /\ one \in 0 .. 1
    BY <2>1
  <2> HIDE DEF waits, one
  <2> QED
    BY <2>1, <2>2, <2>3
<1>3. ASSUME UNCHANGED <<session, stored>> PROVE Left' = Left
  BY <1>3 DEF Left
<1>4. ASSUME UNCHANGED <<queued, items>> PROVE Waiting' = Waiting
  BY <1>4 DEF Waiting
<1>5. ASSUME UNCHANGED handed PROVE Handed' = Handed
  BY <1>5 DEF Handed
<1>6. ASSUME next \in Request, next' = next + 1
      PROVE  next \notin 1 .. next - 1 /\ (1 .. next - 1)' = 1 .. next - 1 \cup {next}
  BY <1>1, <1>6
<1>10. ASSUME NEW t \in Party, Report(t) PROVE UNCHANGED Promise!vars
  <2>1. UNCHANGED <<queued, items, forced, handed, next, session>>
    BY <1>10 DEF Report, AppendSnapshot, ClearSnapshot, CopySnapshot, SaveCopy, queues, made, store
  <2>2. Left' = Left
    <3>1. CASE SaveCopy(t)
      <4>1. session # 0
        <5>1. copy[t].session >= 1 /\ copy[t].session <= session /\ copy[t].session \in Nat
          BY <1>0, <3>1 DEF SaveCopy, SessionsOpen, Go, QueueTyped
        <5> QED
          BY <1>1, <5>1
      <4> QED
        BY <2>1, <4>1 DEF Left
    <3>2. CASE AppendSnapshot(t) \/ ClearSnapshot(t) \/ CopySnapshot(t)
      BY <1>3, <3>2 DEF AppendSnapshot, ClearSnapshot, CopySnapshot, store
    <3> QED
      BY <1>10, <3>1, <3>2 DEF Report
  <2>3. (1 .. next - 1)' = 1 .. next - 1
    BY <2>1
  <2> QED
    BY <1>4, <1>5, <2>1, <2>2, <2>3 DEF Promise!vars
<1>11. ASSUME NEW t \in Submitter, Submit(t) PROVE Promise!Make(next)
  <2>1. /\ next \in Request /\ queued' = Append(queued, next) /\ next' = next + 1
        /\ UNCHANGED <<items, forced, handed, session, stored>>
    BY <1>11 DEF Submit, store
  <2>2. Waiting' = Append(Waiting, next)
    <3>1. items \o Append(queued, next) = Append(items \o queued, next)
      <4>1. items \o queued \in Seq(Request) /\ <<next>> \in Seq(Request)
        BY <1>1, <2>1, ConcatProperties
      <4>2. /\ Append(queued, next) = queued \o <<next>>
            /\ Append(items \o queued, next) = (items \o queued) \o <<next>>
        BY <1>1, <2>1, <4>1, AppendIsConcat
      <4>3. items \o (queued \o <<next>>) = (items \o queued) \o <<next>>
        BY <1>1, <4>1, ConcatAssociative
      <4> QED
        BY <4>2, <4>3
    <3> QED
      BY <2>1, <3>1 DEF Waiting
  <2>3. Left' = Left /\ Handed' = Handed
    BY <1>3, <1>5, <2>1
  <2> QED
    BY <1>6, <2>1, <2>2, <2>3 DEF Promise!Make
<1>12. ASSUME ForceLine PROVE Promise!Make(next)
  <2>1. /\ next \in Request /\ forced' = Append(forced, next) /\ next' = next + 1
        /\ UNCHANGED <<items, queued, handed, session, stored>>
    BY <1>12 DEF ForceLine, store
  <2>2. Left' = Left /\ Handed' = Handed /\ Waiting' = Waiting
    BY <1>3, <1>4, <1>5, <2>1
  <2> QED
    BY <1>6, <2>1, <2>2 DEF Promise!Make
<1>13. ASSUME NEW from, MoveOne(from) PROVE \E i \in DOMAIN Waiting : Promise!Promote(i)
  <2>1. /\ queued # <<>> /\ forced' = Append(forced, Head(queued)) /\ queued' = Tail(queued)
        /\ UNCHANGED <<items, handed, session, stored, next>>
    BY <1>13 DEF MoveOne, store, made
  <2> DEFINE i == Len(items) + 1
  <2>2. i \in DOMAIN Waiting /\ Waiting[i] = Head(queued) /\ RemoveAt(Waiting, i) = items \o Tail(queued)
    BY <1>1, <2>1, PartsOf DEF Waiting
  <2>3. Waiting' = items \o Tail(queued)
    BY <2>1 DEF Waiting
  <2>4. Left' = Left /\ Handed' = Handed /\ (1 .. next - 1)' = 1 .. next - 1
    BY <1>3, <1>5, <2>1
  <2> HIDE DEF i
  <2>5. Promise!RemoveAt(Waiting, i) = RemoveAt(Waiting, i)
    BY SameOperators
  <2>6. Promise!Promote(i)
    BY <2>1, <2>2, <2>3, <2>4, <2>5 DEF Promise!Promote
  <2> QED
    BY <2>2, <2>6
<1>14. ASSUME DrainOne PROVE UNCHANGED Promise!vars
  <2>1. /\ queued # <<>> /\ items' = Append(items, Head(queued)) /\ queued' = Tail(queued)
        /\ UNCHANGED <<forced, handed, session, stored, next>>
    BY <1>14 DEF DrainOne, store, made
  <2>2. Waiting' = Waiting
    BY <1>1, <2>1, TakenOver DEF Waiting
  <2>3. Left' = Left /\ Handed' = Handed /\ (1 .. next - 1)' = 1 .. next - 1
    BY <1>3, <1>5, <2>1
  <2> QED
    BY <2>1, <2>2, <2>3 DEF Promise!vars
<1>15. ASSUME TakeForced PROVE Promise!TakeUrgent
  <2>1. /\ forced' = <<>> /\ HandOver(forced)
        /\ UNCHANGED <<items, queued, session, stored, next>>
    BY <1>15 DEF TakeForced, store, made
  <2>2. ToSet(forced) \cap Handed = {} /\ Handed' = Handed \cup ToSet(forced)
    BY <1>1, <1>2, <2>1, HandsOver
  <2>3. Left' = Left /\ Waiting' = Waiting /\ (1 .. next - 1)' = 1 .. next - 1
    BY <1>3, <1>4, <2>1
  <2> QED
    BY <2>1, <2>2, <2>3, SameOperators DEF Promise!TakeUrgent, Promise!Hand
<1>16. ASSUME ReturnItems
       PROVE  UNCHANGED Promise!vars \/ \E i \in DOMAIN Waiting : Promise!TakeWaiting(i)
  <2>1. /\ items' = <<>> /\ HandOver(items)
        /\ UNCHANGED <<forced, queued, session, stored, next>>
    BY <1>16 DEF ReturnItems, store, made
  <2>2. ToSet(items) \cap Handed = {} /\ Handed' = Handed \cup ToSet(items)
    BY <1>1, <1>2, <2>1, HandsOver
  <2>3. Left' = Left /\ (1 .. next - 1)' = 1 .. next - 1
    BY <1>3, <2>1
  <2>4. Waiting' = queued
    <3>1. Waiting' = <<>> \o queued
      BY <2>1 DEF Waiting
    <3> QED
      BY <1>1, <3>1, ConcatEmptySeq
  <2>5. CASE items = <<>>
    <3>1. ToSet(items) = {}
      BY <2>5 DEF ToSet
    <3>2. Waiting = queued
      BY <1>1, <2>5, ConcatEmptySeq DEF Waiting
    <3> QED
      BY <2>1, <2>2, <2>3, <2>4, <3>1, <3>2 DEF Promise!vars
  <2>6. CASE items # <<>>
    <3>1. /\ Len(items) \in DOMAIN Waiting /\ SubSeq(Waiting, 1, Len(items)) = items
          /\ SubSeq(Waiting, Len(items) + 1, Len(Waiting)) = queued
      BY <1>1, <2>6, PartsOf DEF Waiting
    <3>2. Promise!TakeWaiting(Len(items))
      BY <2>1, <2>2, <2>3, <2>4, <3>1, SameOperators DEF Promise!TakeWaiting, Promise!Hand
    <3> QED
      BY <3>1, <3>2
  <2> QED
    BY <2>5, <2>6
<1>17. ASSUME OpenSession PROVE Promise!Restore \/ UNCHANGED Promise!vars
  <2>1. /\ queued' = queued \o stored[session + 1] /\ session' = session + 1
        /\ UNCHANGED <<forced, items, handed, stored, next>>
    BY <1>17 DEF OpenSession, made
  <2>2. session + 1 \in Session
    <3>1. session < MaxSessions
      BY <1>0, <1>17 DEF OpenSession, SessionsOpen, Go
    <3> QED
      BY <1>1, <3>1, Parties
  <2>3. stored[session + 1] \in Seq(Request)
    BY <1>1, <2>2
  <2>4. Handed' = Handed /\ (1 .. next - 1)' = 1 .. next - 1
    BY <1>5, <2>1
  <2>5. Left' = <<>>
    <3>1. session' # 0
      BY <1>1, <2>1
    <3> QED
      BY <3>1 DEF Left
  <2>6. CASE session = 0
    <3>1. Left = stored[session + 1]
      BY <2>6 DEF Left
    <3>2. items \o (queued \o Left) = (items \o queued) \o Left
      <4>1. items \in Seq(Request) /\ queued \in Seq(Request) /\ Left \in Seq(Request)
        BY <1>1, <2>3, <3>1
      <4> QED
        BY <4>1, ConcatAssociative
    <3>3. Waiting' = Waiting \o Left
      BY <2>1, <3>1, <3>2 DEF Waiting
    <3> QED
      BY <2>1, <2>4, <2>5, <3>3 DEF Promise!Restore
  <2>7. CASE session # 0
    <3>1. stored[session + 1] = <<>>
      <4>1. session + 1 # 1 /\ session + 1 > session
        BY <1>1, <2>7
      <4> QED
        BY <1>0, <2>2, <4>1 DEF SessionsOpen
    <3>2. queued' = queued
      BY <1>1, <2>1, <3>1, ConcatEmptySeq
    <3>3. Left = <<>>
      BY <2>7 DEF Left
    <3> QED
      BY <1>4, <2>1, <2>4, <2>5, <3>2, <3>3 DEF Promise!vars
  <2> QED
    BY <2>6, <2>7
<1>18. ASSUME \/ MoveDone \/ Interrupt \/ NewSession \/ CloseApp \/ Over
              \/ TopOfLoop \/ PhaseStopped \/ PhasesDone \/ DrainedSome
              \/ DrainedNone \/ StayIdle \/ LeaveIdle \/ LeaveSession
       PROVE  UNCHANGED Promise!vars
  <2>1. UNCHANGED <<queued, forced, items, handed, next, session, stored>>
    BY <1>18 DEF MoveDone, Interrupt, NewSession, CloseApp, Over, queueVars, TopOfLoop,
       PhaseStopped, PhasesDone, DrainedSome, DrainedNone, StayIdle, LeaveIdle, LeaveSession,
       queues, made, store
  <2>2. (1 .. next - 1)' = 1 .. next - 1
    BY <2>1
  <2> QED
    BY <1>3, <1>4, <1>5, <2>1, <2>2 DEF Promise!vars
<1>19. ASSUME NEW t \in Submitter, Submit(t) PROVE next \in Request
  BY <1>19 DEF Submit
<1>20. ForceLine => next \in Request
  BY DEF ForceLine
<1> QED
  BY <1>10, <1>11, <1>12, <1>13, <1>14, <1>15, <1>16, <1>17, <1>18, <1>19, <1>20
  DEF QueueNext, Person, Promote, Work, Promise!Next

\* The queues of the console and the threads about them implement
\* RequestQueue: what a person asks for is handed over once, and in order,
\* for any number of requests, dashboards and sessions.
THEOREM PromiseIsKept == QueueSpec => OnceInOrder
<1>1. QueueInit => Promise!Init
  BY PromiseBegins
<1>2. QueueInv /\ QueueInv' /\ [QueueNext]_queueVars => [Promise!Next]_(Promise!vars)
  <2>1. CASE UNCHANGED queueVars
    BY <2>1 DEF queueVars, Promise!vars, Left, Waiting, Handed
  <2> QED
    BY <2>1, PromiseKept
<1> QED
  BY <1>1, <1>2, QueueAlways, PTL DEF QueueSpec, OnceInOrder, Promise!Spec

---------------------------------------------------------------------------
(* The lock, and the history it guards.                                    *)

LockInv == LockTypeOK /\ CountedClaims

\* What a thread is appending, without the bound of the runs.
Pending == [at : {"append"}, max : Nat, new : Seq(Said), episode : BOOLEAN]

DataOK ==
  /\ pc \in [Manager -> {"away", "opened", "asking", "running", "leaving"}]
  /\ sess \in [Manager -> Ids \cup {NoSession}]
  /\ memory \in [Manager -> Seq(Said)]
  /\ flushed \in [Manager -> Nat]
  /\ stage \in [Manager -> [Thread -> {Idle} \cup Pending]]
  /\ appending \in [Process -> (Manager \X Thread) \cup {Free}]
  /\ rows \in [Ids -> Seq(Row)]

\* Whoever is at work claims the project; only a runner gets past the opening.
AtWork ==
  \A m \in Manager : pc[m] # "away" =>
    /\ m \in claim /\ sess[m] \in Ids
    /\ pc[m] # "opened" => m \in Runner

\* A thread that appends has the lock of its process, has read the number of
\* rows there are, and writes one message: the last of memory, or an episode's.
Writing ==
  \A m \in Manager, t \in Thread : stage[m][t] # Idle =>
    /\ pc[m] \in {"asking", "running"}
    /\ appending[Home[m]] = <<m, t>>
    /\ stage[m][t].max = Len(rows[sess[m]])
    /\ IF stage[m][t].episode THEN pc[m] = "running" /\ stage[m][t].new = <<"said">>
       ELSE /\ Len(memory[m]) = flushed[m] + 1
            /\ stage[m][t].new = <<memory[m][flushed[m] + 1]>>
            /\ memory[m][flushed[m] + 1] = IF pc[m] = "asking" THEN Goal ELSE "said"

\* Otherwise all of memory is saved.
RowsSaved ==
  \A m \in Manager :
    \/ flushed[m] = Len(memory[m])
    \/ \E t \in Thread : stage[m][t] # Idle /\ ~ stage[m][t].episode

\* Every own message has its place in the conversation.
Placed(s) ==
  \A k \in 1 .. Cardinality(Own(s)) : \E i \in Own(s) :
    Cardinality({j \in Own(s) : j <= i}) = k

\* A session begins with a message of its own, and a run goes on once it has one.
Begun ==
  /\ \A s \in Ids : Placed(s) /\ (rows[s] # <<>> => Own(s) # {})
  /\ \A m \in Manager : /\ pc[m] = "asking" => Own(sess[m]) = {}
                        /\ pc[m] = "running" => Own(sess[m]) # {}

SessionInv ==
  /\ LockInv /\ DataOK /\ AtWork
  /\ Writing /\ RowsSaved /\ Begun
  /\ RowsInOrder /\ HistoryKept /\ OneGoal

USE ManagerAssumption DEF ManagerAssumption

\* The claims of a process are finitely many, so they can be counted.
LEMMA ClaimsFinite ==
  ASSUME claim \subseteq Manager, NEW p \in Process
  PROVE  /\ IsFiniteSet(Claims(p))
         /\ Cardinality(Claims(p)) \in Nat
         /\ Cardinality(Claims(p)) = 0 <=> Claims(p) = {}
<1>1. Claims(p) \subseteq Manager
  BY DEF Claims
<1>2. IsFiniteSet(Claims(p))
  BY <1>1, FS_Subset
<1> QED
  BY <1>2, FS_CardinalityType, FS_EmptySet

---------------------------------------------------------------------------
(* The invariant of the lock.                                              *)

LEMMA LockInitInv == LockInit => LockInv
<1> SUFFICES ASSUME LockInit PROVE LockInv
  OBVIOUS
<1>1. LockTypeOK
  BY DEF LockInit, LockTypeOK
<1>2. CountedClaims
  <2> SUFFICES ASSUME NEW p \in Process
               PROVE  registry[p] = Cardinality(Claims(p)) /\ (registry[p] > 0 <=> holder = p)
    BY DEF CountedClaims
  <2>1. Claims(p) = {}
    BY DEF LockInit, Claims
  <2>2. Cardinality(Claims(p)) = 0
    BY <2>1, FS_EmptySet
  <2>3. registry[p] = 0 /\ holder # p
    BY DEF LockInit
  <2> QED
    BY <2>2, <2>3
<1> QED
  BY <1>1, <1>2 DEF LockInv

LEMMA AcquireInv == ASSUME LockInv, NEW m \in Manager, Acquire(m) PROVE LockInv'
<1> DEFINE h == Home[m]
<1>0. h \in Process /\ claim \subseteq Manager /\ LockTypeOK /\ CountedClaims
  BY DEF LockInv, LockTypeOK
<1>1. registry' = [registry EXCEPT ![h] = @ + 1] /\ claim' = claim \cup {m} /\ m \notin claim
  BY DEF Acquire
<1>2. holder' = h /\ (holder = h \/ holder = NoProcess)
  <2>1. CASE registry[h] > 0
    BY <2>1, <1>0 DEF Acquire, CountedClaims, LockTypeOK
  <2>2. CASE ~ (registry[h] > 0)
    BY <2>2 DEF Acquire
  <2> QED
    BY <2>1, <2>2
<1>3. LockTypeOK'
  BY <1>0, <1>1, <1>2 DEF LockTypeOK
<1>4. CountedClaims'
  <2> SUFFICES ASSUME NEW p \in Process
               PROVE  /\ registry'[p] = Cardinality(Claims(p)')
                      /\ registry'[p] > 0 <=> holder' = p
    BY DEF CountedClaims
  <2>0. registry[p] = Cardinality(Claims(p)) /\ (registry[p] > 0 <=> holder = p)
        /\ registry[p] \in Nat
    BY <1>0 DEF CountedClaims, LockTypeOK
  <2>1. CASE p = h
    <3>1. Claims(p)' = Claims(p) \cup {m} /\ m \notin Claims(p)
      BY <2>1, <1>1 DEF Claims
    <3>2. Cardinality(Claims(p)') = Cardinality(Claims(p)) + 1
      BY <3>1, <1>0, ClaimsFinite, FS_AddElement
    <3>3. registry'[p] = registry[p] + 1
      BY <2>1, <1>0, <1>1 DEF LockTypeOK
    <3> QED
      BY <3>2, <3>3, <2>0, <2>1, <1>2
  <2>2. CASE p # h
    <3>1. Claims(p)' = Claims(p)
      BY <2>2, <1>1 DEF Claims
    <3>2. registry'[p] = registry[p]
      BY <2>2, <1>0, <1>1 DEF LockTypeOK
    <3>3. holder # p /\ holder' # p
      BY <2>2, <1>2
    <3> QED
      BY <3>1, <3>2, <3>3, <2>0
  <2> QED
    BY <2>1, <2>2
<1> QED
  BY <1>3, <1>4 DEF LockInv

LEMMA ReleaseInv == ASSUME LockInv, NEW m \in Manager, Release(m) PROVE LockInv'
<1> DEFINE h == Home[m]
<1>0. h \in Process /\ claim \subseteq Manager /\ LockTypeOK /\ CountedClaims
  BY DEF LockInv, LockTypeOK
<1>1. /\ registry' = [registry EXCEPT ![h] = @ - 1]
      /\ claim' = claim \ {m} /\ m \in claim
      /\ holder' = IF registry'[h] > 0 THEN holder ELSE NoProcess
  BY DEF Release
<1>2. registry[h] \in Nat \ {0} /\ holder = h
  <2>1. m \in Claims(h)
    BY <1>1 DEF Claims
  <2>2. Cardinality(Claims(h)) # 0 /\ Cardinality(Claims(h)) \in Nat
    BY <2>1, <1>0, ClaimsFinite
  <2>3. registry[h] = Cardinality(Claims(h)) /\ (registry[h] > 0 <=> holder = h)
    BY <1>0 DEF CountedClaims
  <2> QED
    BY <2>2, <2>3
<1>3. registry'[h] = registry[h] - 1
  BY <1>0, <1>1 DEF LockTypeOK
<1>4. LockTypeOK'
  BY <1>0, <1>1, <1>2 DEF LockTypeOK
<1>5. CountedClaims'
  <2> SUFFICES ASSUME NEW p \in Process
               PROVE  /\ registry'[p] = Cardinality(Claims(p)')
                      /\ registry'[p] > 0 <=> holder' = p
    BY DEF CountedClaims
  <2>0. registry[p] = Cardinality(Claims(p)) /\ (registry[p] > 0 <=> holder = p)
        /\ registry[p] \in Nat
    BY <1>0 DEF CountedClaims, LockTypeOK
  <2>1. CASE p = h
    <3>1. Claims(p)' = Claims(p) \ {m} /\ m \in Claims(p)
      BY <2>1, <1>1 DEF Claims
    <3>2. Cardinality(Claims(p)') = Cardinality(Claims(p)) - 1
      BY <3>1, <1>0, ClaimsFinite, FS_RemoveElement
    <3>3. registry'[p] > 0 <=> holder' = p
      BY <2>1, <1>1, <1>2, <1>3
    <3> QED
      BY <3>2, <3>3, <2>0, <2>1, <1>3
  <2>2. CASE p # h
    <3>1. Claims(p)' = Claims(p)
      BY <2>2, <1>1 DEF Claims
    <3>2. registry'[p] = registry[p]
      BY <2>2, <1>0, <1>1 DEF LockTypeOK
    <3>3. holder # p /\ holder' # p
      BY <2>2, <1>1, <1>2
    <3> QED
      BY <3>1, <3>2, <3>3, <2>0
  <2> QED
    BY <2>1, <2>2
<1> QED
  BY <1>4, <1>5 DEF LockInv

LEMMA DieInv == ASSUME LockInv, NEW d \in Process, Die(d) PROVE LockInv'
<1>0. claim \subseteq Manager /\ LockTypeOK /\ CountedClaims
  BY DEF LockInv, LockTypeOK
<1>1. /\ registry' = [registry EXCEPT ![d] = 0]
      /\ claim' = claim \ Claims(d)
      /\ holder' = IF holder = d THEN NoProcess ELSE holder
  BY DEF Die
<1>2. LockTypeOK'
  BY <1>0, <1>1 DEF LockTypeOK
<1>3. CountedClaims'
  <2> SUFFICES ASSUME NEW p \in Process
               PROVE  /\ registry'[p] = Cardinality(Claims(p)')
                      /\ registry'[p] > 0 <=> holder' = p
    BY DEF CountedClaims
  <2>0. registry[p] = Cardinality(Claims(p)) /\ (registry[p] > 0 <=> holder = p)
    BY <1>0 DEF CountedClaims
  <2>1. CASE p = d
    <3>1. Claims(p)' = {}
      BY <2>1, <1>1 DEF Claims
    <3>2. registry'[p] = 0 /\ holder' # p
      BY <2>1, <1>0, <1>1 DEF LockTypeOK
    <3>3. Cardinality(Claims(p)') = 0
      BY <3>1, FS_EmptySet
    <3> QED
      BY <3>2, <3>3
  <2>2. CASE p # d
    <3>1. Claims(p)' = Claims(p)
      BY <2>2, <1>1 DEF Claims
    <3>2. registry'[p] = registry[p] /\ (holder' = p <=> holder = p)
      BY <2>2, <1>0, <1>1 DEF LockTypeOK
    <3> QED
      BY <3>1, <3>2, <2>0
  <2> QED
    BY <2>1, <2>2
<1> QED
  BY <1>2, <1>3 DEF LockInv

LEMMA LockStepInv == LockInv /\ [LockNext]_lockVars => LockInv'
<1> SUFFICES ASSUME LockInv, [LockNext]_lockVars PROVE LockInv'
  OBVIOUS
<1>1. CASE \E m \in Manager : Acquire(m)
  BY <1>1, AcquireInv
<1>2. CASE \E m \in Manager : Release(m)
  BY <1>2, ReleaseInv
<1>3. CASE \E p \in Process : Die(p)
  BY <1>3, DieInv
<1>4. CASE UNCHANGED lockVars
  BY <1>4 DEF lockVars, LockInv, LockTypeOK, CountedClaims, Claims
<1> QED
  BY <1>1, <1>2, <1>3, <1>4 DEF LockNext

---------------------------------------------------------------------------
(* The lock implements ProjectLock, step by step.                          *)

\* Whoever has a claim lives in the process that has the flock.
LEMMA ClaimHolds ==
  ASSUME LockInv, NEW k \in claim
  PROVE  holder = Home[k] /\ Home[k] \in Process /\ registry[Home[k]] > 0
<1>0. k \in Manager /\ claim \subseteq Manager /\ CountedClaims
  BY DEF LockInv, LockTypeOK
<1>1. Home[k] \in Process /\ k \in Claims(Home[k])
  BY <1>0 DEF Claims
<1>2. Cardinality(Claims(Home[k])) \in Nat /\ Cardinality(Claims(Home[k])) # 0
  BY <1>0, <1>1, ClaimsFinite
<1>3. registry[Home[k]] = Cardinality(Claims(Home[k])) /\ (registry[Home[k]] > 0 <=> holder = Home[k])
  BY <1>0, <1>1 DEF CountedClaims
<1> QED
  BY <1>1, <1>2, <1>3

LEMMA LockRefinesStep ==
  LockInv /\ [LockNext]_lockVars => [Project!Next]_(Project!vars)
<1> SUFFICES ASSUME LockInv, [LockNext]_lockVars
             PROVE  [Project!Next]_(Project!vars)
  OBVIOUS
<1>0. claim \subseteq Manager /\ LockTypeOK /\ CountedClaims
  BY DEF LockInv, LockTypeOK
<1>1. ASSUME NEW m \in Manager, Acquire(m) PROVE Project!Enter(m)
  <2>1. holder \in {NoProcess, Home[m]} /\ holder' = Home[m]
    <3>1. CASE registry[Home[m]] > 0
      BY <3>1, <1>0, <1>1 DEF Acquire, CountedClaims
    <3>2. CASE ~ (registry[Home[m]] > 0)
      BY <3>2, <1>1 DEF Acquire
    <3> QED
      BY <3>1, <3>2
  <2> QED
    BY <2>1, <1>1 DEF Acquire, Project!Enter
<1>2. ASSUME NEW m \in Manager, Release(m) PROVE Project!Leave({m})
  <2> DEFINE h == Home[m]
  <2>1. m \in claim /\ claim' = claim \ {m} /\ m \in Claims(h) /\ h \in Process
    BY <1>2 DEF Release, Claims
  <2>2. holder = h /\ registry[h] > 0
    BY <2>1, ClaimHolds
  <2>3. \A k \in claim : Home[k] = h
    BY <2>2, ClaimHolds
  <2>4. claim' = Claims(h)'
    BY <2>1, <2>3 DEF Claims
  <2>5. LockInv'
    BY <1>2, ReleaseInv
  <2>6. registry'[h] = Cardinality(Claims(h)') /\ claim' \subseteq Manager
    BY <2>1, <2>5 DEF LockInv, CountedClaims, LockTypeOK
  <2>7. registry'[h] \in Nat /\ (registry'[h] = 0 <=> claim' = {})
    <3>1. IsFiniteSet(claim')
      BY <2>6, FS_Subset
    <3> QED
      BY <3>1, <2>4, <2>6, FS_EmptySet, FS_CardinalityType
  <2>8. holder' = IF claim' = {} THEN NoProcess ELSE holder
    <3>1. holder' = IF registry'[h] > 0 THEN holder ELSE NoProcess
      BY <1>2 DEF Release
    <3>2. registry'[h] > 0 <=> claim' # {}
      BY <2>7
    <3> QED
      BY <3>1, <3>2
  <2> QED
    BY <2>1, <2>8 DEF Project!Leave
<1>3. ASSUME NEW p \in Process, Die(p)
      PROVE  Project!Leave(Claims(p)) \/ UNCHANGED Project!vars
  <2>1. CASE Claims(p) = {}
    <3>1. holder # p
      BY <2>1, <1>0, FS_EmptySet DEF CountedClaims
    <3> QED
      BY <2>1, <3>1, <1>3 DEF Die, Project!vars
  <2>2. CASE Claims(p) # {}
    <3>1. holder = p
      BY <2>2, ClaimHolds DEF Claims
    <3>2. \A k \in claim : Home[k] = p
      BY <3>1, ClaimHolds
    <3>3. claim' = {} /\ Claims(p) \subseteq claim /\ claim' = claim \ Claims(p)
      BY <3>2, <1>3 DEF Die, Claims
    <3>4. holder' = NoProcess
      BY <3>1, <1>3 DEF Die
    <3> QED
      BY <2>2, <3>3, <3>4 DEF Project!Leave
  <2> QED
    BY <2>1, <2>2
<1>4. CASE UNCHANGED lockVars
  BY <1>4 DEF lockVars, Project!vars
<1>5. ASSUME NEW m \in Manager, Release(m) PROVE {m} \in SUBSET claim
  BY <1>5 DEF Release
<1>6. ASSUME NEW p \in Process PROVE Claims(p) \in SUBSET claim
  BY DEF Claims
<1> QED
  BY <1>1, <1>2, <1>3, <1>4, <1>5, <1>6 DEF LockNext, Project!Next

\* Every step of the sessions is a step of the lock, or leaves it alone.
LEMMA SessionLockStep == [Next]_vars => [LockNext]_lockVars
<1> SUFFICES ASSUME [Next]_vars PROVE [LockNext]_lockVars
  OBVIOUS
<1>1. ASSUME NEW m \in Manager, NEW s \in Ids, Open(m, s) PROVE LockNext
  BY <1>1 DEF Open, LockNext
<1>2. ASSUME NEW m \in Manager, Refuse(m) \/ Leave(m) PROVE LockNext
  BY <1>2 DEF Refuse, Leave, Drop, LockNext
<1>3. ASSUME NEW m \in Manager, Begin(m) \/ AddMessage(m)
      PROVE  UNCHANGED lockVars
  BY <1>3 DEF Begin, AddMessage
<1>4. ASSUME NEW m \in Manager, NEW t \in Thread,
             AddToEpisode(m, t) \/ CommitAppend(m, t)
      PROVE  UNCHANGED lockVars
  BY <1>4 DEF AddToEpisode, CommitAppend
<1>5. ASSUME NEW m \in Manager, NEW c \in Command, NEW v \in BOOLEAN, RunbookSet(m, c, v)
      PROVE  UNCHANGED lockVars
  BY <1>5 DEF RunbookSet
<1>6. ASSUME NEW p \in Process, Crash(p) PROVE LockNext
  BY <1>6 DEF Crash, LockNext
<1>7. CASE UNCHANGED vars
  BY <1>7 DEF vars
<1> QED
  BY <1>1, <1>2, <1>3, <1>4, <1>5, <1>6, <1>7 DEF Next

---------------------------------------------------------------------------
\* However many managers, processes, threads and sessions there are, a
\* process has the flock exactly when it counts a claim, and the count is the
\* number of its managers at work.
THEOREM ClaimsCounted == Spec => []CountedClaims
<1>1. Init => LockInv
  BY LockInitInv DEF Init
<1>2. LockInv /\ [Next]_vars => LockInv'
  BY SessionLockStep, LockStepInv
<1>3. LockInv => CountedClaims
  BY DEF LockInv
<1> QED
  BY <1>1, <1>2, <1>3, PTL DEF Spec

\* The lock as the sessions use it implements ProjectLock: one process at a
\* time has the project, and it is free when its last manager left or died.
THEOREM LockKeepsPromise == Spec => OneProcessAtATime
<1>1. Init => LockInv /\ Project!Init
  BY LockInitInv DEF Init, LockInit, Project!Init
<1>2. LockInv /\ [Next]_vars => LockInv' /\ [Project!Next]_(Project!vars)
  BY SessionLockStep, LockStepInv, LockRefinesStep
<1> QED
  BY <1>1, <1>2, PTL DEF Spec, OneProcessAtATime, Project!Spec

---------------------------------------------------------------------------
(* A conversation, as a function of the rows.                              *)

OwnOf(r) == {i \in DOMAIN r : ~ r[i].episode}
Rank(own, i) == Cardinality({j \in own : j <= i})
PlaceOf(own, k) == CHOOSE i \in own : Rank(own, i) = k
TalkOf(r) == [k \in 1 .. Cardinality(OwnOf(r)) |-> r[PlaceOf(OwnOf(r), k)].text]
PlacedIn(r) == \A k \in 1 .. Cardinality(OwnOf(r)) : \E i \in OwnOf(r) : Rank(OwnOf(r), i) = k

LEMMA OwnType ==
  ASSUME NEW r \in Seq(Row)
  PROVE  /\ OwnOf(r) \subseteq 1 .. Len(r)
         /\ IsFiniteSet(OwnOf(r))
         /\ Cardinality(OwnOf(r)) \in Nat
<1>1. OwnOf(r) \subseteq 1 .. Len(r) /\ IsFiniteSet(1 .. Len(r))
  BY FS_Interval DEF OwnOf
<1>2. IsFiniteSet(OwnOf(r))
  BY <1>1, FS_Subset
<1> QED
  BY <1>1, <1>2, FS_CardinalityType

LEMMA PlaceType ==
  ASSUME NEW r \in Seq(Row), PlacedIn(r), NEW k \in 1 .. Cardinality(OwnOf(r))
  PROVE  PlaceOf(OwnOf(r), k) \in OwnOf(r) /\ Rank(OwnOf(r), PlaceOf(OwnOf(r), k)) = k
<1>1. \E i \in OwnOf(r) : Rank(OwnOf(r), i) = k
  BY DEF PlacedIn
<1> QED
  BY <1>1 DEF PlaceOf

LEMMA TalkType ==
  ASSUME NEW r \in Seq(Row), PlacedIn(r)
  PROVE  TalkOf(r) \in Seq(Said) /\ Len(TalkOf(r)) = Cardinality(OwnOf(r))
<1> DEFINE n == Cardinality(OwnOf(r))
           f(k) == r[PlaceOf(OwnOf(r), k)].text
<1>1. n \in Nat
  BY OwnType
<1>2. ASSUME NEW k \in 1 .. n PROVE f(k) \in Said
  <2>1. PlaceOf(OwnOf(r), k) \in 1 .. Len(r)
    BY PlaceType, OwnType
  <2>2. r[PlaceOf(OwnOf(r), k)] \in Row
    BY <2>1
  <2> QED
    BY <2>2 DEF Row
<1>3. TalkOf(r) = [k \in 1 .. n |-> f(k)]
  BY DEF TalkOf
<1>4. n = Cardinality(OwnOf(r))
  OBVIOUS
<1> HIDE DEF n, f
<1>5. TalkOf(r) \in [1 .. n -> Said]
  BY <1>2, <1>3
<1> QED
  BY <1>1, <1>4, <1>5

\* A row of an episode changes nothing of it.
LEMMA AppendEpisode ==
  ASSUME NEW r \in Seq(Row), PlacedIn(r), NEW row \in Row, row.episode
  PROVE  LET q == Append(r, row)
         IN  OwnOf(q) = OwnOf(r) /\ PlacedIn(q) /\ TalkOf(q) = TalkOf(r)
<1> DEFINE q == Append(r, row)
<1>1. /\ q \in Seq(Row) /\ Len(q) = Len(r) + 1 /\ q[Len(r) + 1] = row
      /\ \A i \in 1 .. Len(r) : q[i] = r[i]
  BY AppendProperties
<1> HIDE DEF q
<1>2. OwnOf(q) = OwnOf(r)
  BY <1>1 DEF OwnOf
<1>3. PlacedIn(q)
  BY <1>2 DEF PlacedIn
<1>4. \A k \in 1 .. Cardinality(OwnOf(r)) : q[PlaceOf(OwnOf(r), k)] = r[PlaceOf(OwnOf(r), k)]
  BY <1>1, PlaceType, OwnType
<1>5. TalkOf(q) = TalkOf(r)
  BY <1>2, <1>4 DEF TalkOf
<1> QED
  BY <1>2, <1>3, <1>5 DEF q

\* A message of the session joins it at the end.
LEMMA AppendOwn ==
  ASSUME NEW r \in Seq(Row), PlacedIn(r), NEW row \in Row, ~ row.episode
  PROVE  LET q == Append(r, row)
         IN  /\ OwnOf(q) = OwnOf(r) \cup {Len(r) + 1} /\ PlacedIn(q)
             /\ TalkOf(q) = Append(TalkOf(r), row.text)
<1> DEFINE q == Append(r, row)
           n == Len(r) + 1
           own == OwnOf(r)
           more == OwnOf(q)
           c == Cardinality(own)
<1>1. /\ q \in Seq(Row) /\ Len(q) = n /\ q[n] = row
      /\ \A i \in 1 .. Len(r) : q[i] = r[i]
  BY AppendProperties
<1>2. own \subseteq 1 .. Len(r) /\ IsFiniteSet(own) /\ c \in Nat /\ n \in Nat
  BY OwnType
<1>3. more = own \cup {n} /\ n \notin own
  <2> HIDE DEF q
  <2> QED
    BY <1>1, <1>2 DEF OwnOf
<1>4. Cardinality(more) = c + 1
  <2> HIDE DEF own, more, n, c
  <2> QED
    BY <1>2, <1>3, FS_AddElement DEF c
<1> HIDE DEF q, own, more, c
<1>5. ASSUME NEW i \in own PROVE Rank(more, i) = Rank(own, i)
  <2>1. {j \in more : j <= i} = {j \in own : j <= i}
    BY <1>2, <1>3
  <2> QED
    BY <2>1 DEF Rank
<1>6. Rank(more, n) = c + 1
  <2>1. \A j \in more : j <= n
    BY <1>2, <1>3
  <2>2. {j \in more : j <= n} = more
    BY <2>1
  <2> QED
    BY <2>2, <1>4 DEF Rank
<1>7. ASSUME NEW k \in 1 .. c
      PROVE  /\ PlaceOf(own, k) \in own /\ Rank(own, PlaceOf(own, k)) = k
             /\ PlaceOf(more, k) = PlaceOf(own, k)
  <2>1. PlaceOf(own, k) \in own /\ Rank(own, PlaceOf(own, k)) = k
    BY PlaceType DEF own, c
  <2>2. k # c + 1
    BY <1>2
  <2>3. \A i : (i \in more /\ Rank(more, i) = k) <=> (i \in own /\ Rank(own, i) = k)
    BY <1>3, <1>5, <1>6, <2>2
  <2>4. PlaceOf(more, k) = PlaceOf(own, k)
    BY <2>3, Zenon DEF PlaceOf
  <2> QED
    BY <2>1, <2>4
<1>8. PlaceOf(more, c + 1) = n
  <2>1. ASSUME NEW i \in own PROVE Rank(own, i) # c + 1
    <3>1. {j \in own : j <= i} \subseteq own
      OBVIOUS
    <3>2. Rank(own, i) \in Nat /\ Rank(own, i) <= c
      BY <3>1, <1>2, FS_Subset, FS_CardinalityType DEF Rank, c
    <3> QED
      BY <3>2, <1>2
  <2>2. \A i \in more : Rank(more, i) = c + 1 <=> i = n
    BY <2>1, <1>3, <1>5, <1>6
  <2> QED
    BY <2>2, <1>3 DEF PlaceOf
<1>9. PlacedIn(q)
  <2> SUFFICES ASSUME NEW k \in 1 .. Cardinality(more)
               PROVE  \E i \in more : Rank(more, i) = k
    BY DEF PlacedIn, more
  <2>1. CASE k = c + 1
    BY <2>1, <1>3, <1>6
  <2>2. CASE k # c + 1
    <3>1. k \in 1 .. c
      BY <2>2, <1>2, <1>4
    <3> QED
      BY <3>1, <1>3, <1>5, <1>7
  <2> QED
    BY <2>1, <2>2
<1>10. TalkOf(q) = Append(TalkOf(r), row.text)
  <2>1. TalkOf(r) \in Seq(Said) /\ Len(TalkOf(r)) = c
    BY TalkType DEF own, c
  <2>2. TalkOf(q) \in Seq(Said) /\ Len(TalkOf(q)) = c + 1
    BY TalkType, <1>1, <1>4, <1>9 DEF more
  <2>3. row.text \in Said
    BY DEF Row
  <2>4. /\ Append(TalkOf(r), row.text) \in Seq(Said) /\ Len(Append(TalkOf(r), row.text)) = c + 1
        /\ \A k \in 1 .. c : Append(TalkOf(r), row.text)[k] = TalkOf(r)[k]
        /\ Append(TalkOf(r), row.text)[c + 1] = row.text
    BY <2>1, <2>3, AppendProperties
  <2>5. ASSUME NEW k \in 1 .. c PROVE TalkOf(q)[k] = TalkOf(r)[k]
    <3>1. TalkOf(q)[k] = q[PlaceOf(own, k)].text
      BY <1>2, <1>4, <1>7 DEF TalkOf, more
    <3>2. TalkOf(r)[k] = r[PlaceOf(own, k)].text
      BY DEF TalkOf, own, c
    <3> QED
      BY <3>1, <3>2, <1>1, <1>2, <1>7
  <2>6. TalkOf(q)[c + 1] = row.text
    BY <1>1, <1>2, <1>4, <1>8 DEF TalkOf, more
  <2>7. \A k \in 1 .. Len(TalkOf(q)) : TalkOf(q)[k] = Append(TalkOf(r), row.text)[k]
    <3> SUFFICES ASSUME NEW k \in 1 .. c + 1
                 PROVE  TalkOf(q)[k] = Append(TalkOf(r), row.text)[k]
      BY <2>2
    <3>1. k \in 1 .. c \/ k = c + 1
      BY <1>2
    <3> QED
      BY <3>1, <2>4, <2>5, <2>6
  <2> QED
    BY <2>2, <2>4, <2>7, SeqEqual
<1> QED
  BY <1>3, <1>9, <1>10 DEF q, own, more

---------------------------------------------------------------------------
(* The invariant of a session's history.                                   *)

USE SessionAssumption DEF SessionAssumption

\* Those at work live in one process, and one of them at most has begun a run.
LEMMA OneAtWork ==
  ASSUME SessionInv, NEW m \in Manager, NEW n \in Manager, pc[m] # "away", pc[n] # "away"
  PROVE  /\ Home[m] = Home[n]
         /\ m \in Runner /\ n \in Runner => m = n
<1>1. m \in claim /\ n \in claim /\ LockInv
  BY DEF SessionInv, AtWork
<1>2. Home[m] = Home[n]
  BY <1>1, ClaimHolds
<1> QED
  BY <1>2

\* So at most one thread is appending.
LEMMA OneWriter ==
  ASSUME SessionInv, NEW m \in Manager, NEW t \in Thread, stage[m][t] # Idle,
         NEW n \in Manager, NEW u \in Thread, stage[n][u] # Idle
  PROVE  m = n /\ t = u
<1>1. /\ pc[m] # "away" /\ pc[n] # "away"
      /\ appending[Home[m]] = <<m, t>> /\ appending[Home[n]] = <<n, u>>
  BY DEF SessionInv, Writing
<1>2. <<m, t>> = <<n, u>>
  BY <1>1, OneAtWork
<1> QED
  BY <1>2

\* The largest seq of rows in order is their number.
LEMMA MaxSeqCounts ==
  ASSUME SessionInv, NEW s \in Ids
  PROVE  MaxSeq(s) = Len(rows[s])
<1> DEFINE seqs == {rows[s][i].seq : i \in DOMAIN rows[s]}
           n == Len(rows[s])
<1>1. n \in Nat /\ DOMAIN rows[s] = 1 .. n
  BY DEF SessionInv, DataOK
<1>2. \A i \in DOMAIN rows[s] : rows[s][i].seq = i
  BY DEF SessionInv, RowsInOrder
<1>3. seqs = 1 .. n
  BY <1>1, <1>2
<1> HIDE DEF seqs, n
<1>4. CASE n = 0
  <2>1. seqs = {}
    BY <1>3, <1>4
  <2> QED
    BY <2>1, <1>4 DEF MaxSeq, seqs, n
<1>5. CASE n # 0
  <2>1. n \in seqs /\ \A k \in seqs : k <= n
    BY <1>1, <1>3, <1>5
  <2>2. \A x \in seqs : (\A k \in seqs : k <= x) => x = n
    BY <1>1, <1>3, <2>1
  <2>3. (CHOOSE x \in seqs : \A k \in seqs : k <= x) = n
    BY <2>1, <2>2
  <2> QED
    BY <2>1, <2>3 DEF MaxSeq, seqs, n
<1> QED
  BY <1>4, <1>5

LEMMA PrefixOfAppend ==
  ASSUME NEW S, NEW h \in Seq(S), NEW e \in S, NEW n \in 0 .. Len(h)
  PROVE  SubSeq(Append(h, e), 1, n) = SubSeq(h, 1, n)
<1> DEFINE g == Append(h, e)
<1>1. \A i \in 1 .. n : g[i] = h[i] /\ h[i] \in S
  BY AppendProperties
<1> HIDE DEF g
<1>2. /\ SubSeq(g, 1, n) \in Seq(S) /\ SubSeq(h, 1, n) \in Seq(S)
      /\ Len(SubSeq(g, 1, n)) = n /\ Len(SubSeq(h, 1, n)) = n
      /\ \A i \in 1 .. n : SubSeq(g, 1, n)[i] = g[i] /\ SubSeq(h, 1, n)[i] = h[i]
  BY <1>1, SubSeqProperties
<1>3. SubSeq(g, 1, n) = SubSeq(h, 1, n)
  BY <1>1, <1>2, SeqEqual
<1> QED
  BY <1>3 DEF g

LEMMA PrefixGrows ==
  ASSUME NEW S, NEW h \in Seq(S), NEW n \in Nat, n + 1 <= Len(h)
  PROVE  Append(SubSeq(h, 1, n), h[n + 1]) = SubSeq(h, 1, n + 1)
<1>1. n + 1 \in 1 .. Len(h) /\ 1 \in 1 .. Len(h) /\ n + 1 \in 1 .. Len(h)
  OBVIOUS
<1>2. SubSeq(h, 1, n + 1) = SubSeq(h, 1, (n + 1) - 1) \o <<h[n + 1]>>
  BY <1>1, SubSeqRecursiveSecond
<1>3. SubSeq(h, 1, n) \in Seq(S) /\ h[n + 1] \in S /\ (n + 1) - 1 = n
  BY <1>1, SubSeqProperties
<1> QED
  BY <1>2, <1>3, AppendIsConcat

\* The conversations are functions of the rows.
LEMMA TalkOfRows ==
  /\ \A s : Own(s) = OwnOf(rows[s]) /\ Conversation(s) = TalkOf(rows[s])
            /\ (Placed(s) <=> PlacedIn(rows[s]))
  /\ \A s : Own(s)' = OwnOf(rows'[s]) /\ Conversation(s)' = TalkOf(rows'[s])
            /\ (Placed(s)' <=> PlacedIn(rows'[s]))
BY DEF Own, Conversation, Placed, OwnOf, TalkOf, PlacedIn, Rank, PlaceOf

\* The parts of the invariant that are about the rows alone.
LEMMA RowsKept ==
  ASSUME SessionInv, UNCHANGED rows
  PROVE  /\ RowsInOrder' /\ OneGoal'
         /\ \A s \in Ids : Placed(s)' /\ (rows'[s] # <<>> => Own(s)' # {})
<1>1. \A s : Own(s)' = Own(s) /\ Conversation(s)' = Conversation(s) /\ (Placed(s)' <=> Placed(s))
  BY TalkOfRows
<1> QED
  BY <1>1 DEF SessionInv, RowsInOrder, OneGoal, Begun

LEMMA OpenKeeps ==
  ASSUME SessionInv, LockInv', NEW m \in Manager, NEW s \in Ids, Open(m, s)
  PROVE  SessionInv'
<1>0. LockInv /\ DataOK /\ AtWork /\ Writing /\ RowsSaved /\ Begun /\ HistoryKept
  BY DEF SessionInv
<1>1. /\ pc[m] = "away" /\ pc' = [pc EXCEPT ![m] = "opened"]
      /\ sess' = [sess EXCEPT ![m] = s]
      /\ claim' = claim \cup {m}
      /\ UNCHANGED <<stage, appending, rows>>
  BY DEF Open, Acquire, threadVars
<1>2. Conversation(s) \in Seq(Said)
  BY <1>0, TalkOfRows, TalkType DEF DataOK, Begun
<1>3. /\ memory' = [memory EXCEPT ![m] = Conversation(s)]
      /\ flushed' = [flushed EXCEPT ![m] = Len(Conversation(s))]
  <2>1. CASE HasHistory(s)
    BY <2>1 DEF Open
  <2>2. CASE ~ HasHistory(s)
    <3>1. Own(s) = {}
      BY <2>2 DEF HasHistory, Own
    <3>2. Conversation(s) \in Seq(Said) /\ Len(Conversation(s)) = 0
      BY <3>1, <1>0, TalkOfRows, TalkType, FS_EmptySet DEF DataOK, Begun
    <3>3. Conversation(s) = <<>>
      BY <3>2
    <3> QED
      BY <2>2, <3>3 DEF Open
  <2> QED
    BY <2>1, <2>2
<1>4. \A t \in Thread : stage[m][t] = Idle
  BY <1>0, <1>1 DEF Writing
<1>5. DataOK'
  BY <1>0, <1>1, <1>2, <1>3 DEF DataOK
<1>6. AtWork'
  BY <1>0, <1>1 DEF AtWork, DataOK
<1>7. Writing'
  BY <1>0, <1>1, <1>3, <1>4 DEF Writing, DataOK
<1>8. RowsSaved'
  BY <1>0, <1>1, <1>2, <1>3 DEF RowsSaved, DataOK
<1>9. Begun'
  <2>1. \A r \in Ids : Own(r)' = Own(r)
    BY <1>1, TalkOfRows
  <2>2. \A n \in Manager : pc'[n] \in {"asking", "running"} =>
          n # m /\ pc'[n] = pc[n] /\ sess'[n] = sess[n] /\ sess[n] \in Ids
    BY <1>0, <1>1 DEF DataOK, AtWork
  <2> QED
    BY <2>1, <2>2, <1>0, <1>1, RowsKept DEF Begun
<1>10. HistoryKept'
  <2> SUFFICES ASSUME NEW n \in Runner, pc'[n] # "away"
               PROVE  (Conversation(sess[n]) = SubSeq(memory[n], 1, flushed[n]))'
    BY DEF HistoryKept
  <2>1. \A r : Conversation(r)' = Conversation(r)
    BY <1>1, TalkOfRows
  <2>2. CASE n = m
    <3>1. /\ sess'[n] = s /\ memory'[n] = Conversation(s)
          /\ flushed'[n] = Len(Conversation(s))
      BY <2>2, <1>0, <1>1, <1>3 DEF DataOK
    <3>2. SubSeq(Conversation(s), 1, Len(Conversation(s))) = Conversation(s)
      BY <1>2, SubSeqFull
    <3> QED
      BY <3>1, <3>2, <2>1
  <2>3. CASE n # m
    BY <2>3, <2>1, <1>0, <1>1, <1>3 DEF HistoryKept, DataOK
  <2> QED
    BY <2>2, <2>3
<1> QED
  BY <1>1, <1>5, <1>6, <1>7, <1>8, <1>9, <1>10, RowsKept DEF SessionInv

\* Refuse and Leave: nobody of the manager's is appending.
LEMMA DropKeeps ==
  ASSUME SessionInv, LockInv', NEW m \in Manager, Drop(m),
         \A t \in Thread : stage[m][t] = Idle,
         UNCHANGED <<stage, appending, rows>>
  PROVE  SessionInv'
<1>0. LockInv /\ DataOK /\ AtWork /\ Writing /\ RowsSaved /\ Begun /\ HistoryKept
  BY DEF SessionInv
<1>1. /\ pc' = [pc EXCEPT ![m] = "away"] /\ sess' = [sess EXCEPT ![m] = NoSession]
      /\ memory' = [memory EXCEPT ![m] = <<>>] /\ flushed' = [flushed EXCEPT ![m] = 0]
      /\ claim' = claim \ {m}
  BY DEF Drop, Release
<1>2. DataOK'
  BY <1>0, <1>1 DEF DataOK
<1>3. \A n \in Manager \ {m} : /\ pc'[n] = pc[n] /\ sess'[n] = sess[n]
                              /\ memory'[n] = memory[n] /\ flushed'[n] = flushed[n]
  BY <1>0, <1>1 DEF DataOK
<1>4. pc'[m] = "away" /\ memory'[m] = <<>> /\ flushed'[m] = 0
  BY <1>0, <1>1 DEF DataOK
<1>5. AtWork'
  BY <1>0, <1>1, <1>3, <1>4 DEF AtWork
<1>6. Writing'
  BY <1>0, <1>3 DEF Writing
<1>7. RowsSaved'
  BY <1>0, <1>3, <1>4 DEF RowsSaved
<1>8. Begun'
  <2>1. \A r : Own(r)' = Own(r)
    BY TalkOfRows
  <2> QED
    BY <2>1, <1>0, <1>3, <1>4, RowsKept DEF Begun
<1>9. HistoryKept'
  <2>1. \A r : Conversation(r)' = Conversation(r)
    BY TalkOfRows
  <2> QED
    BY <2>1, <1>0, <1>3, <1>4 DEF HistoryKept
<1> QED
  BY <1>2, <1>5, <1>6, <1>7, <1>8, <1>9, RowsKept DEF SessionInv

LEMMA BeginKeeps ==
  ASSUME SessionInv, LockInv', NEW m \in Manager, Begin(m)
  PROVE  SessionInv'
<1>0. LockInv /\ DataOK /\ AtWork /\ Writing /\ RowsSaved /\ Begun /\ HistoryKept
  BY DEF SessionInv
<1>1. /\ pc[m] = "opened" /\ m \in Runner
      /\ pc' = [pc EXCEPT ![m] = IF HasHistory(sess[m]) THEN "running" ELSE "asking"]
      /\ UNCHANGED <<claim, sess, memory, flushed, stage, appending, rows>>
  BY DEF Begin, lockVars, threadVars
<1>2. \A n \in Manager \ {m} : pc'[n] = pc[n]
  BY <1>0, <1>1 DEF DataOK
<1>3. pc'[m] = IF HasHistory(sess[m]) THEN "running" ELSE "asking"
  BY <1>0, <1>1 DEF DataOK
<1>4. DataOK'
  BY <1>0, <1>1 DEF DataOK
<1>5. AtWork'
  BY <1>0, <1>1, <1>2 DEF AtWork
<1>6. Writing'
  <2>1. \A t \in Thread : stage[m][t] = Idle
    BY <1>0, <1>1 DEF Writing
  <2> QED
    BY <2>1, <1>0, <1>1, <1>2 DEF Writing
<1>7. RowsSaved'
  BY <1>0, <1>1 DEF RowsSaved
<1>8. Begun'
  <2>1. \A r : Own(r)' = Own(r)
    BY <1>1, TalkOfRows
  <2>2. sess[m] \in Ids
    BY <1>0, <1>1 DEF AtWork
  <2>3. CASE HasHistory(sess[m])
    <3>1. Own(sess[m]) # {}
      BY <2>2, <2>3, <1>0 DEF Begun, HasHistory
    <3> QED
      BY <2>1, <2>3, <3>1, <1>0, <1>1, <1>2, <1>3, RowsKept DEF Begun
  <2>4. CASE ~ HasHistory(sess[m])
    <3>1. Own(sess[m]) = {}
      BY <2>4 DEF HasHistory, Own
    <3> QED
      BY <2>1, <2>4, <3>1, <1>0, <1>1, <1>2, <1>3, RowsKept DEF Begun
  <2> QED
    BY <2>3, <2>4
<1>9. HistoryKept'
  <2>1. \A r : Conversation(r)' = Conversation(r)
    BY <1>1, TalkOfRows
  <2> QED
    BY <2>1, <1>0, <1>1, <1>2 DEF HistoryKept
<1> QED
  BY <1>1, <1>4, <1>5, <1>6, <1>7, <1>8, <1>9, RowsKept DEF SessionInv

LEMMA CrashKeeps ==
  ASSUME SessionInv, LockInv', NEW p \in Process, Crash(p)
  PROVE  SessionInv'
<1> DEFINE mine == {m \in Manager : Home[m] = p}
<1>0. LockInv /\ DataOK /\ AtWork /\ Writing /\ RowsSaved /\ Begun /\ HistoryKept
  BY DEF SessionInv
<1>1. /\ claim' = claim \ Claims(p)
      /\ pc' = [m \in Manager |-> IF m \in mine THEN "away" ELSE pc[m]]
      /\ sess' = [m \in Manager |-> IF m \in mine THEN NoSession ELSE sess[m]]
      /\ memory' = [m \in Manager |-> IF m \in mine THEN <<>> ELSE memory[m]]
      /\ flushed' = [m \in Manager |-> IF m \in mine THEN 0 ELSE flushed[m]]
      /\ stage' = [m \in Manager |->
                     IF m \in mine THEN [t \in Thread |-> Idle] ELSE stage[m]]
      /\ appending' = [appending EXCEPT ![p] = Free]
      /\ UNCHANGED rows
  BY DEF Crash, Die
<1> HIDE DEF mine
<1>2. \A m \in Manager \ mine :
        /\ pc'[m] = pc[m] /\ sess'[m] = sess[m] /\ memory'[m] = memory[m]
        /\ flushed'[m] = flushed[m] /\ stage'[m] = stage[m]
        /\ appending'[Home[m]] = appending[Home[m]]
  BY <1>0, <1>1 DEF DataOK, mine
<1>3. \A m \in mine \cap Manager :
        /\ pc'[m] = "away" /\ memory'[m] = <<>> /\ flushed'[m] = 0
        /\ \A t \in Thread : stage'[m][t] = Idle
  BY <1>1
<1>4. DataOK'
  <2>1. /\ pc' \in [Manager -> {"away", "opened", "asking", "running", "leaving"}]
        /\ sess' \in [Manager -> Ids \cup {NoSession}]
        /\ memory' \in [Manager -> Seq(Said)] /\ flushed' \in [Manager -> Nat]
    BY <1>0, <1>1 DEF DataOK
  <2>2. stage' \in [Manager -> [Thread -> {Idle} \cup Pending]]
    BY <1>0, <1>1 DEF DataOK
  <2>3. /\ appending' \in [Process -> (Manager \X Thread) \cup {Free}]
        /\ rows' \in [Ids -> Seq(Row)]
    BY <1>0, <1>1 DEF DataOK
  <2> QED
    BY <2>1, <2>2, <2>3 DEF DataOK
<1>5. AtWork'
  <2>1. \A m \in Manager \ mine : m \in claim => m \in claim'
    BY <1>1 DEF Claims, mine
  <2> QED
    BY <2>1, <1>0, <1>2, <1>3 DEF AtWork
<1>6. Writing'
  BY <1>0, <1>1, <1>2, <1>3 DEF Writing
<1>7. RowsSaved'
  BY <1>0, <1>2, <1>3 DEF RowsSaved
<1>8. Begun'
  <2>1. \A r : Own(r)' = Own(r)
    BY <1>1, TalkOfRows
  <2> QED
    BY <2>1, <1>0, <1>1, <1>2, <1>3, RowsKept DEF Begun
<1>9. HistoryKept'
  <2>1. \A r : Conversation(r)' = Conversation(r)
    BY <1>1, TalkOfRows
  <2> QED
    BY <2>1, <1>0, <1>2, <1>3 DEF HistoryKept
<1> QED
  BY <1>1, <1>4, <1>5, <1>6, <1>7, <1>8, <1>9, RowsKept DEF SessionInv

\* A thread has taken the lock and read max(seq): nobody else was appending,
\* so only its own stage is to be looked at.
HasRead(m, t, new, episode) ==
  /\ stage'[m][t] = [at |-> "append", max |-> Len(rows[sess[m]]), new |-> new,
                     episode |-> episode]
  /\ stage'[m][t] # Idle
  /\ appending'[Home[m]] = <<m, t>>
  /\ \A n \in Manager, u \in Thread : stage[n][u] # Idle => Home[n] # Home[m]
  /\ \A n \in Manager, u \in Thread : <<n, u>> # <<m, t>> => stage'[n][u] = stage[n][u]
  /\ stage' \in [Manager -> [Thread -> {Idle} \cup Pending]]
  /\ appending' \in [Process -> (Manager \X Thread) \cup {Free}]
  /\ \A n \in Manager : Home[n] # Home[m] => appending'[Home[n]] = appending[Home[n]]

LEMMA LockAndReadKeeps ==
  ASSUME SessionInv, NEW m \in Manager, NEW t \in Thread, NEW new \in Seq(Said),
         NEW episode \in BOOLEAN, LockAndRead(m, t, new, episode), sess[m] \in Ids
  PROVE  HasRead(m, t, new, episode)
<1> DEFINE w == [at |-> "append", max |-> Len(rows[sess[m]]), new |-> new, episode |-> episode]
<1>0. DataOK /\ Writing /\ Home[m] \in Process /\ Len(rows[sess[m]]) \in Nat
  BY DEF SessionInv, DataOK
<1>1. /\ appending[Home[m]] = Free /\ stage[m][t] = Idle
      /\ appending' = [appending EXCEPT ![Home[m]] = <<m, t>>]
      /\ stage' = [stage EXCEPT ![m][t] = w]
  BY MaxSeqCounts DEF LockAndRead
<1>2. w \in Pending /\ w # Idle
  <2>1. w \in Pending
    BY <1>0 DEF Pending
  <2>2. w.at # Idle.at
    BY DEF Idle
  <2> QED
    BY <2>1, <2>2
<1> HIDE DEF w
<1>3. stage'[m][t] = w
  BY <1>0, <1>1 DEF DataOK
<1>4. \A n \in Manager, u \in Thread : <<n, u>> # <<m, t>> => stage'[n][u] = stage[n][u]
  BY <1>0, <1>1 DEF DataOK
<1>5. stage' \in [Manager -> [Thread -> {Idle} \cup Pending]]
  BY <1>0, <1>1, <1>2 DEF DataOK
<1>6. /\ appending'[Home[m]] = <<m, t>>
      /\ appending' \in [Process -> (Manager \X Thread) \cup {Free}]
      /\ \A n \in Manager : Home[n] # Home[m] => appending'[Home[n]] = appending[Home[n]]
  BY <1>0, <1>1 DEF DataOK
<1>7. ASSUME NEW n \in Manager, NEW u \in Thread, stage[n][u] # Idle, Home[n] = Home[m]
      PROVE  FALSE
  <2>1. appending[Home[m]] = <<n, u>>
    BY <1>0, <1>7 DEF Writing
  <2>2. Len(appending[Home[m]]) = 2
    BY <2>1
  <2>3. Len(appending[Home[m]]) = 0
    BY <1>1 DEF Free
  <2>4. 2 # 0
    OBVIOUS
  <2> QED
    BY <2>2, <2>3, <2>4, Zenon
<1> QED
  BY <1>2, <1>3, <1>4, <1>5, <1>6, <1>7 DEF w, HasRead

LEMMA AddToEpisodeKeeps ==
  ASSUME SessionInv, LockInv', NEW m \in Manager, NEW t \in Thread, AddToEpisode(m, t)
  PROVE  SessionInv'
<1>0. LockInv /\ DataOK /\ AtWork /\ Writing /\ RowsSaved /\ Begun /\ HistoryKept
  BY DEF SessionInv
<1>1. /\ pc[m] = "running" /\ LockAndRead(m, t, <<"said">>, TRUE)
      /\ UNCHANGED <<claim, pc, sess, memory, flushed, rows>>
  BY DEF AddToEpisode, lockVars, memoryVars
<1>2. sess[m] \in Ids /\ <<"said">> \in Seq(Said)
  BY <1>0, <1>1 DEF AtWork, Said
<1>3. HasRead(m, t, <<"said">>, TRUE)
  BY <1>1, <1>2, LockAndReadKeeps
<1>4. DataOK'
  BY <1>0, <1>1, <1>3 DEF HasRead, DataOK
<1>5. AtWork'
  BY <1>0, <1>1 DEF AtWork
<1>6. Writing'
  <2> SUFFICES ASSUME NEW n \in Manager, NEW u \in Thread, stage'[n][u] # Idle
               PROVE  (/\ pc[n] \in {"asking", "running"}
                       /\ appending[Home[n]] = <<n, u>>
                       /\ stage[n][u].max = Len(rows[sess[n]])
                       /\ IF stage[n][u].episode
                          THEN pc[n] = "running" /\ stage[n][u].new = <<"said">>
                          ELSE /\ Len(memory[n]) = flushed[n] + 1
                               /\ stage[n][u].new = <<memory[n][flushed[n] + 1]>>
                               /\ memory[n][flushed[n] + 1] =
                                    IF pc[n] = "asking" THEN Goal ELSE "said")'
    BY DEF Writing
  <2>1. CASE n = m /\ u = t
    BY <2>1, <1>1, <1>3 DEF HasRead
  <2>2. CASE ~ (n = m /\ u = t)
    <3>1. stage'[n][u] = stage[n][u] /\ stage[n][u] # Idle
      BY <2>2, <1>3 DEF HasRead
    <3>2. appending'[Home[n]] = appending[Home[n]]
      BY <3>1, <1>3 DEF HasRead
    <3> QED
      BY <3>1, <3>2, <1>0, <1>1 DEF Writing
  <2> QED
    BY <2>1, <2>2
<1>7. RowsSaved'
  <2> SUFFICES ASSUME NEW n \in Manager, NEW u \in Thread, stage[n][u] # Idle,
                      ~ stage[n][u].episode
               PROVE  stage'[n][u] # Idle /\ ~ stage'[n][u].episode
    BY <1>0, <1>1 DEF RowsSaved
  <2>1. n # m
    BY <1>3 DEF HasRead
  <2> QED
    BY <2>1, <1>3 DEF HasRead
<1>8. Begun'
  <2>1. \A r : Own(r)' = Own(r)
    BY <1>1, TalkOfRows
  <2> QED
    BY <2>1, <1>0, <1>1, RowsKept DEF Begun
<1>9. HistoryKept'
  <2>1. \A r : Conversation(r)' = Conversation(r)
    BY <1>1, TalkOfRows
  <2> QED
    BY <2>1, <1>0, <1>1 DEF HistoryKept
<1> QED
  BY <1>1, <1>4, <1>5, <1>6, <1>7, <1>8, <1>9, RowsKept DEF SessionInv

LEMMA AddMessageKeeps ==
  ASSUME SessionInv, LockInv', NEW m \in Manager, AddMessage(m)
  PROVE  SessionInv'
<1> DEFINE spoken == IF pc[m] = "asking" THEN Goal ELSE "said"
           history == Append(memory[m], spoken)
           new == SubSeq(history, flushed[m] + 1, Len(history))
<1>0. LockInv /\ DataOK /\ AtWork /\ Writing /\ RowsSaved /\ Begun /\ HistoryKept
  BY DEF SessionInv
<1>1. /\ pc[m] \in {"asking", "running"}
      /\ \A u \in Thread : stage[m][u] = Idle
      /\ memory' = [memory EXCEPT ![m] = history]
      /\ LockAndRead(m, "main", new, FALSE)
      /\ UNCHANGED <<claim, pc, sess, flushed, rows>>
  BY DEF AddMessage, lockVars
<1>2. sess[m] \in Ids /\ memory[m] \in Seq(Said) /\ spoken \in Said
  BY <1>0, <1>1 DEF AtWork, Said, DataOK
<1>3. flushed[m] = Len(memory[m]) /\ Len(memory[m]) \in Nat
  BY <1>0, <1>1, <1>2 DEF RowsSaved
<1> HIDE DEF spoken
<1>4. /\ history \in Seq(Said) /\ Len(history) = flushed[m] + 1
      /\ history[flushed[m] + 1] = spoken
  BY <1>2, <1>3, AppendProperties
<1>5. SubSeq(history, 1, flushed[m]) = SubSeq(memory[m], 1, flushed[m])
  BY <1>2, <1>3, PrefixOfAppend
<1> HIDE DEF history
<1>6. new = <<spoken>> /\ new \in Seq(Said)
  <2> DEFINE k == flushed[m] + 1
  <2>1. k \in 1 .. Len(history) /\ Len(history) = k /\ history[k] = spoken
    BY <1>3, <1>4
  <2> HIDE DEF k
  <2>2. SubSeq(history, k, k) = <<history[k]>> \o SubSeq(history, k + 1, k)
    BY <2>1, <1>4, SubSeqRecursiveFirst
  <2>3. SubSeq(history, k + 1, k) = <<>>
    BY <2>1, SubSeqEmpty
  <2>4. <<spoken>> \in Seq(Said) /\ <<spoken>> \o <<>> = <<spoken>>
    BY <1>2, ConcatEmptySeq
  <2>5. SubSeq(history, k, k) = <<spoken>>
    BY <2>1, <2>2, <2>3, <2>4
  <2>6. new = SubSeq(history, k, k)
    BY <2>1 DEF k
  <2> HIDE DEF new
  <2> QED
    BY <2>4, <2>5, <2>6
<1> HIDE DEF new
<1>7. HasRead(m, "main", new, FALSE)
  BY <1>1, <1>2, <1>6, LockAndReadKeeps
<1>8. memory'[m] = history /\ \A n \in Manager \ {m} : memory'[n] = memory[n]
  BY <1>0, <1>1 DEF DataOK
<1>9. DataOK'
  BY <1>0, <1>1, <1>4, <1>7 DEF HasRead, DataOK
<1>10. AtWork'
  BY <1>0, <1>1 DEF AtWork
<1>11. Writing'
  <2> SUFFICES ASSUME NEW n \in Manager, NEW u \in Thread, stage'[n][u] # Idle
               PROVE  (/\ pc[n] \in {"asking", "running"}
                       /\ appending[Home[n]] = <<n, u>>
                       /\ stage[n][u].max = Len(rows[sess[n]])
                       /\ IF stage[n][u].episode
                          THEN pc[n] = "running" /\ stage[n][u].new = <<"said">>
                          ELSE /\ Len(memory[n]) = flushed[n] + 1
                               /\ stage[n][u].new = <<memory[n][flushed[n] + 1]>>
                               /\ memory[n][flushed[n] + 1] =
                                    IF pc[n] = "asking" THEN Goal ELSE "said")'
    BY DEF Writing
  <2>1. CASE n = m /\ u = "main"
    BY <2>1, <1>1, <1>4, <1>6, <1>7, <1>8 DEF HasRead, spoken
  <2>2. CASE ~ (n = m /\ u = "main")
    <3>1. stage'[n][u] = stage[n][u] /\ stage[n][u] # Idle
      BY <2>2, <1>7 DEF HasRead
    <3>2. appending'[Home[n]] = appending[Home[n]] /\ n # m
      BY <3>1, <1>1, <1>7 DEF HasRead
    <3> QED
      BY <3>1, <3>2, <1>0, <1>1, <1>8 DEF Writing
  <2> QED
    BY <2>1, <2>2
<1>12. RowsSaved'
  <2>1. ASSUME NEW n \in Manager
        PROVE  \/ flushed'[n] = Len(memory'[n])
               \/ \E u \in Thread : stage'[n][u] # Idle /\ ~ stage'[n][u].episode
    <3>1. CASE n = m
      BY <3>1, <1>7 DEF HasRead
    <3>2. CASE n # m
      BY <3>2, <1>0, <1>1, <1>7, <1>8 DEF HasRead, RowsSaved
    <3> QED
      BY <3>1, <3>2
  <2> QED
    BY <2>1 DEF RowsSaved
<1>13. Begun'
  <2>1. \A r : Own(r)' = Own(r)
    BY <1>1, TalkOfRows
  <2> QED
    BY <2>1, <1>0, <1>1, RowsKept DEF Begun
<1>14. HistoryKept'
  <2>1. \A r : Conversation(r)' = Conversation(r)
    BY <1>1, TalkOfRows
  <2>2. \A n \in Manager : SubSeq(memory'[n], 1, flushed[n]) = SubSeq(memory[n], 1, flushed[n])
    BY <1>5, <1>8
  <2> QED
    BY <2>1, <2>2, <1>0, <1>1 DEF HistoryKept
<1> QED
  BY <1>1, <1>9, <1>10, <1>11, <1>12, <1>13, <1>14, RowsKept DEF SessionInv

\* The commit adds one row, under the next number.
LEMMA CommitAdds ==
  ASSUME SessionInv, NEW m \in Manager, NEW t \in Thread, CommitAppend(m, t)
  PROVE  LET s == sess[m]
             w == stage[m][t]
             row == [seq |-> Len(rows[s]) + 1, text |-> w.new[1], episode |-> w.episode]
         IN  /\ w # Idle /\ s \in Ids /\ row \in Row /\ Len(w.new) = 1
             /\ rows' = [rows EXCEPT ![s] = Append(@, row)]
<1> DEFINE s == sess[m]
           w == stage[m][t]
           row == [seq |-> Len(rows[s]) + 1, text |-> w.new[1], episode |-> w.episode]
           added == [i \in 1 .. Len(w.new) |->
                       [seq |-> w.max + i, text |-> w.new[i], episode |-> w.episode]]
<1>0. DataOK /\ AtWork /\ Writing
  BY DEF SessionInv
<1>1. w.at = "append" /\ rows' = [rows EXCEPT ![s] = @ \o added]
  BY DEF CommitAppend
<1>2. w # Idle
  BY <1>1 DEF Idle
<1>3. w \in Pending /\ w.max = Len(rows[s])
  BY <1>0, <1>2 DEF DataOK, Writing
<1>4. s \in Ids /\ rows[s] \in Seq(Row)
  BY <1>0, <1>2 DEF Writing, AtWork, DataOK
<1>5. Len(w.new) = 1 /\ w.new \in Seq(Said) /\ w.new[1] \in Said
  <2>1. w.new = <<"said">> \/ w.new = <<memory[m][flushed[m] + 1]>>
    BY <1>0, <1>2 DEF Writing
  <2>2. Len(<<"said">>) = 1 /\ Len(<<memory[m][flushed[m] + 1]>>) = 1
    OBVIOUS
  <2>3. w.new \in Seq(Said) /\ Len(w.new) = 1
    BY <1>3, <2>1, <2>2 DEF Pending
  <2> QED
    BY <2>3
<1>6. row \in Row
  BY <1>3, <1>4, <1>5 DEF Row, Pending
<1>7. added = <<row>>
  BY <1>3, <1>5
<1> HIDE DEF row, added, w
<1>8. rows[s] \o added = Append(rows[s], row)
  BY <1>4, <1>6, <1>7, AppendIsConcat
<1> QED
  BY <1>1, <1>2, <1>4, <1>5, <1>6, <1>8 DEF row, w

LEMMA CommitKeeps ==
  ASSUME SessionInv, LockInv', NEW m \in Manager, NEW t \in Thread, CommitAppend(m, t)
  PROVE  SessionInv'
<1> DEFINE w == stage[m][t]
<1> PICK s \in Ids : s = sess[m]
  BY CommitAdds
<1> DEFINE row == [seq |-> Len(rows[s]) + 1, text |-> w.new[1], episode |-> w.episode]
<1>0. /\ LockInv /\ DataOK /\ AtWork /\ Writing /\ RowsSaved /\ Begun
      /\ RowsInOrder /\ HistoryKept /\ OneGoal
  BY DEF SessionInv
<1>1. /\ IF w.episode THEN UNCHANGED <<flushed, pc>>
         ELSE /\ flushed' = [flushed EXCEPT ![m] = Len(memory[m])]
              /\ pc' = [pc EXCEPT ![m] = "running"]
      /\ stage' = [stage EXCEPT ![m][t] = Idle]
      /\ appending' = [appending EXCEPT ![Home[m]] = Free]
      /\ UNCHANGED <<claim, sess, memory>>
      /\ sess[m] = s
  BY DEF CommitAppend, lockVars
<1>2. /\ w # Idle /\ s \in Ids /\ row \in Row /\ Len(w.new) = 1
      /\ rows' = [rows EXCEPT ![s] = Append(@, row)]
  BY CommitAdds
<1>3. /\ rows[s] \in Seq(Row) /\ rows'[s] = Append(rows[s], row)
      /\ \A r \in Ids \ {s} : rows'[r] = rows[r]
  BY <1>0, <1>2 DEF DataOK
<1>4. /\ pc[m] \in {"asking", "running"} /\ m \in Runner
      /\ IF w.episode THEN pc[m] = "running" /\ w.new = <<"said">>
         ELSE /\ Len(memory[m]) = flushed[m] + 1
              /\ w.new = <<memory[m][flushed[m] + 1]>>
              /\ memory[m][flushed[m] + 1] = IF pc[m] = "asking" THEN Goal ELSE "said"
  BY <1>0, <1>2 DEF Writing, AtWork
<1>5. w \in Pending /\ w.episode \in BOOLEAN
  BY <1>0, <1>2 DEF DataOK, Pending
<1>6. \A n \in Manager, u \in Thread : stage'[n][u] = Idle
  <2> SUFFICES ASSUME NEW n \in Manager, NEW u \in Thread, ~ (n = m /\ u = t)
               PROVE  stage[n][u] = Idle
    BY <1>0, <1>1 DEF DataOK
  <2> QED
    BY <1>2, OneWriter
<1>7. \A n \in Runner \ {m} : pc[n] = "away"
  BY <1>4, OneAtWork
<1>8. \A n \in Manager : (n # m \/ w.episode) => pc'[n] = pc[n] /\ flushed'[n] = flushed[n]
  BY <1>0, <1>1 DEF DataOK
<1>9. ~ w.episode => pc'[m] = "running" /\ flushed'[m] = Len(memory[m])
  BY <1>0, <1>1 DEF DataOK
<1> HIDE DEF row, w
<1>10. \A r \in Ids \ {s} : Own(r)' = Own(r) /\ Conversation(r)' = Conversation(r)
                           /\ (Placed(r)' <=> Placed(r))
  BY <1>3, TalkOfRows
<1>11. PlacedIn(rows[s])
  BY <1>0, <1>2, TalkOfRows DEF Begun
<1>12. w.episode => /\ Own(s)' = Own(s) /\ Conversation(s)' = Conversation(s) /\ Placed(s)'
  <2> SUFFICES ASSUME w.episode
               PROVE  Own(s)' = Own(s) /\ Conversation(s)' = Conversation(s) /\ Placed(s)'
    OBVIOUS
  <2>1. row.episode
    BY DEF row
  <2>2. /\ OwnOf(rows'[s]) = OwnOf(rows[s]) /\ PlacedIn(rows'[s])
        /\ TalkOf(rows'[s]) = TalkOf(rows[s])
    BY <2>1, <1>2, <1>3, <1>11, AppendEpisode
  <2> QED
    BY <2>2, <1>1, TalkOfRows
<1>13. ~ w.episode => /\ Own(s)' = Own(s) \cup {Len(rows[s]) + 1} /\ Placed(s)'
                      /\ Conversation(s)' = Append(Conversation(s), w.new[1])
  <2> SUFFICES ASSUME ~ w.episode
               PROVE  /\ Own(s)' = Own(s) \cup {Len(rows[s]) + 1} /\ Placed(s)'
                      /\ Conversation(s)' = Append(Conversation(s), w.new[1])
    OBVIOUS
  <2>1. ~ row.episode /\ row.text = w.new[1]
    BY DEF row
  <2>2. /\ OwnOf(rows'[s]) = OwnOf(rows[s]) \cup {Len(rows[s]) + 1} /\ PlacedIn(rows'[s])
        /\ TalkOf(rows'[s]) = Append(TalkOf(rows[s]), row.text)
    BY <2>1, <1>2, <1>3, <1>11, AppendOwn
  <2> QED
    BY <2>1, <2>2, <1>1, TalkOfRows
<1>14. DataOK'
  <2>1. /\ pc' \in [Manager -> {"away", "opened", "asking", "running", "leaving"}]
        /\ flushed' \in [Manager -> Nat]
    <3>1. Len(memory[m]) \in Nat
      BY <1>0 DEF DataOK
    <3>2. CASE w.episode
      <4>1. pc' = pc /\ flushed' = flushed
        BY <3>2, <1>1 DEF w
      <4> QED
        BY <4>1, <1>0 DEF DataOK
    <3>3. CASE ~ w.episode
      <4>1. /\ flushed' = [flushed EXCEPT ![m] = Len(memory[m])]
            /\ pc' = [pc EXCEPT ![m] = "running"]
        BY <3>3, <1>1 DEF w
      <4> QED
        BY <3>1, <4>1, <1>0 DEF DataOK
    <3> QED
      BY <3>2, <3>3
  <2>2. /\ stage' \in [Manager -> [Thread -> {Idle} \cup Pending]]
        /\ appending' \in [Process -> (Manager \X Thread) \cup {Free}]
    BY <1>0, <1>1 DEF DataOK
  <2>3. Append(rows[s], row) \in Seq(Row)
    BY <1>2, <1>3
  <2>4. rows' \in [Ids -> Seq(Row)]
    BY <2>3, <1>0, <1>2 DEF DataOK
  <2> QED
    BY <2>1, <2>2, <2>4, <1>0, <1>1 DEF DataOK
<1>15. AtWork'
  BY <1>0, <1>1, <1>4, <1>8 DEF AtWork
<1>16. Writing'
  BY <1>6 DEF Writing
<1>17. RowsSaved'
  <2> SUFFICES ASSUME NEW n \in Manager PROVE flushed'[n] = Len(memory'[n])
    BY DEF RowsSaved
  <2>1. CASE n = m /\ ~ w.episode
    BY <2>1, <1>1, <1>9
  <2>2. CASE n # m \/ w.episode
    <3>1. ASSUME NEW u \in Thread, stage[n][u] # Idle PROVE stage[n][u].episode
      BY <2>2, <3>1, <1>2, OneWriter DEF w
    <3> QED
      BY <2>2, <3>1, <1>0, <1>1, <1>8 DEF RowsSaved
  <2> QED
    BY <2>1, <2>2
<1>18. Begun'
  <2>1. ASSUME NEW r \in Ids PROVE Placed(r)' /\ (rows'[r] # <<>> => Own(r)' # {})
    <3>1. CASE r # s
      BY <3>1, <1>0, <1>3, <1>10 DEF Begun
    <3>2. CASE r = s /\ w.episode
      BY <3>2, <1>0, <1>4, <1>12 DEF Begun
    <3>3. CASE r = s /\ ~ w.episode
      BY <3>3, <1>13
    <3> QED
      BY <3>1, <3>2, <3>3
  <2>2. ASSUME NEW n \in Manager, pc'[n] \in {"asking", "running"}
        PROVE  n = m
    BY <2>2, <1>0, <1>7, <1>8 DEF AtWork
  <2>3. pc'[m] = "running" /\ Own(s)' # {}
    <3>1. CASE w.episode
      BY <3>1, <1>0, <1>4, <1>8, <1>12 DEF Begun
    <3>2. CASE ~ w.episode
      BY <3>2, <1>9, <1>13
    <3> QED
      BY <3>1, <3>2
  <2> QED
    BY <2>1, <2>2, <2>3, <1>1 DEF Begun
<1>19. RowsInOrder'
  <2> SUFFICES ASSUME NEW r \in Ids, NEW i \in DOMAIN rows'[r]
               PROVE  rows'[r][i].seq = i
    BY DEF RowsInOrder
  <2>1. CASE r # s
    BY <2>1, <1>0, <1>3 DEF RowsInOrder
  <2>2. CASE r = s
    <3>1. /\ DOMAIN rows'[s] = 1 .. Len(rows[s]) + 1 /\ Len(rows[s]) \in Nat
          /\ \A j \in 1 .. Len(rows[s]) : rows'[s][j] = rows[s][j] /\ j \in DOMAIN rows[s]
          /\ rows'[s][Len(rows[s]) + 1] = row
      BY <1>2, <1>3, AppendProperties
    <3>2. CASE i = Len(rows[s]) + 1
      BY <2>2, <3>1, <3>2 DEF row
    <3>3. CASE i # Len(rows[s]) + 1
      <4>1. i \in 1 .. Len(rows[s])
        BY <2>2, <3>1, <3>3
      <4> QED
        BY <2>2, <3>1, <4>1, <1>0, <1>2 DEF RowsInOrder
    <3> QED
      BY <3>2, <3>3
  <2> QED
    BY <2>1, <2>2
<1>20. HistoryKept'
  <2> SUFFICES ASSUME NEW n \in Runner, pc'[n] # "away"
               PROVE  (Conversation(sess[n]) = SubSeq(memory[n], 1, flushed[n]))'
    BY DEF HistoryKept
  <2>1. n = m
    BY <1>7, <1>8
  <2>2. Conversation(s) = SubSeq(memory[m], 1, flushed[m])
    BY <1>0, <1>4 DEF HistoryKept
  <2>3. CASE w.episode
    BY <2>1, <2>2, <2>3, <1>1, <1>8, <1>12
  <2>4. CASE ~ w.episode
    <3>1. /\ memory[m] \in Seq(Said) /\ flushed[m] \in Nat
          /\ Len(memory[m]) = flushed[m] + 1 /\ w.new[1] = memory[m][flushed[m] + 1]
      BY <2>4, <1>0, <1>4 DEF DataOK
    <3>2. Append(SubSeq(memory[m], 1, flushed[m]), memory[m][flushed[m] + 1])
            = SubSeq(memory[m], 1, flushed[m] + 1)
      BY <3>1, PrefixGrows
    <3> QED
      BY <2>1, <2>2, <2>4, <3>1, <3>2, <1>1, <1>9, <1>13
  <2> QED
    BY <2>3, <2>4
<1>21. OneGoal'
  <2>1. \A r \in Ids \ {s} : \A i \in DOMAIN Conversation(r)' :
          Conversation(r)'[i] = Goal <=> i = 1
    BY <1>0, <1>10 DEF OneGoal
  <2>2. \A i \in DOMAIN Conversation(s)' : Conversation(s)'[i] = Goal <=> i = 1
    <3>1. CASE w.episode
      BY <3>1, <1>0, <1>2, <1>12 DEF OneGoal
    <3>2. CASE ~ w.episode
      <4> DEFINE c == Len(Conversation(s))
                 x == w.new[1]
      <4>1. /\ Conversation(s) \in Seq(Said) /\ c = Cardinality(Own(s)) /\ c \in Nat
            /\ (c = 0 <=> Own(s) = {})
        <5>1. Own(s) = OwnOf(rows[s]) /\ Conversation(s) = TalkOf(rows[s])
          BY TalkOfRows
        <5> QED
          BY <5>1, <1>3, <1>11, TalkType, OwnType, FS_EmptySet
      <4>2. x = Goal <=> c = 0
        <5>1. x = IF pc[m] = "asking" THEN Goal ELSE "said"
          BY <3>2, <1>4
        <5>2. c = 0 <=> pc[m] = "asking"
          BY <4>1, <1>0, <1>4 DEF Begun
        <5> QED
          BY <5>1, <5>2 DEF Goal
      <4>3. x \in Said
        BY <3>2, <1>4 DEF Said
      <4>4. Conversation(s)' = Append(Conversation(s), x)
        BY <3>2, <1>13
      <4>5. /\ DOMAIN Conversation(s)' = 1 .. c + 1
            /\ \A i \in 1 .. c : Conversation(s)'[i] = Conversation(s)[i]
            /\ Conversation(s)'[c + 1] = x
        BY <4>1, <4>3, <4>4, AppendProperties
      <4>6. \A i \in 1 .. c : Conversation(s)[i] = Goal <=> i = 1
        BY <4>1, <1>0, <1>2 DEF OneGoal
      <4> HIDE DEF c, x
      <4>7. \A i \in 1 .. c + 1 : i \in 1 .. c \/ i = c + 1
        BY <4>1 DEF c
      <4>8. c + 1 = 1 <=> c = 0
        BY <4>1 DEF c
      <4> QED
        BY <4>2, <4>5, <4>6, <4>7, <4>8
    <3> QED
      BY <3>1, <3>2
  <2> QED
    BY <2>1, <2>2, <1>1 DEF OneGoal
<1> QED
  BY <1>14, <1>15, <1>16, <1>17, <1>18, <1>19, <1>20, <1>21 DEF SessionInv

LEMMA StutterKeeps ==
  ASSUME SessionInv, LockInv', UNCHANGED <<claim, pc, sess, memory, flushed, stage, appending, rows>>
  PROVE  SessionInv'
<1>1. \A r : Own(r)' = Own(r) /\ Conversation(r)' = Conversation(r) /\ (Placed(r)' <=> Placed(r))
  BY TalkOfRows
<1>2. DataOK' /\ AtWork' /\ Writing' /\ RowsSaved'
  BY DEF SessionInv, DataOK, AtWork, Writing, RowsSaved
<1>3. Begun' /\ HistoryKept'
  BY <1>1 DEF SessionInv, Begun, HistoryKept
<1> QED
  BY <1>2, <1>3, RowsKept DEF SessionInv

LEMMA InitSession == Init => SessionInv
<1> SUFFICES ASSUME Init PROVE SessionInv
  OBVIOUS
<1> DEFINE first == [seq |-> 1, text |-> Goal, episode |-> FALSE]
<1>0. /\ pc = [m \in Manager |-> "away"] /\ sess = [m \in Manager |-> NoSession]
      /\ memory = [m \in Manager |-> <<>>] /\ flushed = [m \in Manager |-> 0]
      /\ stage = [m \in Manager |-> [t \in Thread |-> Idle]]
      /\ appending = [p \in Process |-> Free]
      /\ rows = [s \in Ids |-> IF s \in OldId THEN <<first>> ELSE <<>>]
  BY DEF Init
<1> HIDE DEF first
<1>1. LockInv
  BY LockInitInv DEF Init
<1>2. first \in Row /\ <<first>> \in Seq(Row) /\ <<>> \in Seq(Row)
  BY DEF first, Row, Said
<1>3. DataOK
  <2>1. stage \in [Manager -> [Thread -> {Idle} \cup Pending]]
    BY <1>0
  <2>2. /\ pc \in [Manager -> {"away", "opened", "asking", "running", "leaving"}]
        /\ sess \in [Manager -> Ids \cup {NoSession}]
        /\ appending \in [Process -> (Manager \X Thread) \cup {Free}]
    BY <1>0
  <2>3. memory \in [Manager -> Seq(Said)] /\ flushed \in [Manager -> Nat]
    BY <1>0
  <2>4. rows \in [Ids -> Seq(Row)]
    BY <1>0, <1>2
  <2> QED
    BY <2>1, <2>2, <2>3, <2>4 DEF DataOK
<1>4. AtWork /\ Writing /\ RowsSaved /\ HistoryKept
  BY <1>0 DEF AtWork, Writing, RowsSaved, HistoryKept
<1>5. PlacedIn(<<>>) /\ OwnOf(<<>>) = {} /\ TalkOf(<<>>) = <<>>
  <2>1. OwnOf(<<>>) = {}
    BY DEF OwnOf
  <2>2. Cardinality(OwnOf(<<>>)) = 0
    BY <2>1, FS_EmptySet
  <2>3. PlacedIn(<<>>)
    BY <2>2 DEF PlacedIn
  <2>4. TalkOf(<<>>) \in Seq(Said) /\ Len(TalkOf(<<>>)) = 0
    BY <1>2, <2>2, <2>3, TalkType
  <2> QED
    BY <2>1, <2>3, <2>4
<1>6. PlacedIn(<<first>>) /\ OwnOf(<<first>>) # {} /\ TalkOf(<<first>>) = <<Goal>>
  <2>1. ~ first.episode /\ first.text = Goal
    BY DEF first
  <2>2. Append(<<>>, first) = <<first>> /\ Append(<<>>, Goal) = <<Goal>> /\ Len(<<>>) = 0
    OBVIOUS
  <2>3. /\ OwnOf(Append(<<>>, first)) = OwnOf(<<>>) \cup {Len(<<>>) + 1}
        /\ PlacedIn(Append(<<>>, first))
        /\ TalkOf(Append(<<>>, first)) = Append(TalkOf(<<>>), first.text)
    BY <1>2, <1>5, <2>1, AppendOwn
  <2> QED
    BY <1>5, <2>1, <2>2, <2>3
<1>7. Begun
  <2>1. \A s \in Ids : Placed(s) /\ (rows[s] # <<>> => Own(s) # {})
    BY <1>0, <1>5, <1>6, TalkOfRows
  <2> QED
    BY <2>1, <1>0 DEF Begun
<1>8. RowsInOrder
  BY <1>0 DEF RowsInOrder, first
<1>9. OneGoal
  <2> SUFFICES ASSUME NEW s \in Ids
               PROVE  \A i \in DOMAIN Conversation(s) : Conversation(s)[i] = Goal <=> i = 1
    BY DEF OneGoal
  <2>1. Conversation(s) = <<>> \/ Conversation(s) = <<Goal>>
    BY <1>0, <1>5, <1>6, TalkOfRows
  <2> QED
    BY <2>1
<1> QED
  BY <1>1, <1>3, <1>4, <1>7, <1>8, <1>9 DEF SessionInv

LEMMA StepSession == SessionInv /\ [Next]_vars => SessionInv'
<1> SUFFICES ASSUME SessionInv, [Next]_vars PROVE SessionInv'
  OBVIOUS
<1>0. LockInv'
  BY SessionLockStep, LockStepInv DEF SessionInv
<1>1. ASSUME NEW m \in Manager, NEW s \in Ids, Open(m, s) PROVE SessionInv'
  BY <1>0, <1>1, OpenKeeps
<1>2. ASSUME NEW m \in Manager, Refuse(m) \/ Leave(m) PROVE SessionInv'
  <2>1. Drop(m) /\ UNCHANGED <<stage, appending, rows>>
    BY <1>2 DEF Refuse, Leave, threadVars
  <2>2. \A t \in Thread : stage[m][t] = Idle
    BY <1>2 DEF Refuse, Leave, SessionInv, Writing
  <2> QED
    BY <1>0, <2>1, <2>2, DropKeeps
<1>3. ASSUME NEW m \in Manager, Begin(m) PROVE SessionInv'
  BY <1>0, <1>3, BeginKeeps
<1>4. ASSUME NEW m \in Manager, AddMessage(m) PROVE SessionInv'
  BY <1>0, <1>4, AddMessageKeeps
<1>5. ASSUME NEW m \in Manager, NEW t \in Thread, AddToEpisode(m, t) PROVE SessionInv'
  BY <1>0, <1>5, AddToEpisodeKeeps
<1>6. ASSUME NEW m \in Manager, NEW t \in Thread, CommitAppend(m, t) PROVE SessionInv'
  BY <1>0, <1>6, CommitKeeps
<1>7. ASSUME NEW m \in Manager, NEW c \in Command, NEW v \in BOOLEAN, RunbookSet(m, c, v)
      PROVE  SessionInv'
  BY <1>0, <1>7, StutterKeeps DEF RunbookSet, lockVars, memoryVars, threadVars
<1>8. ASSUME NEW p \in Process, Crash(p) PROVE SessionInv'
  BY <1>0, <1>8, CrashKeeps
<1>9. CASE UNCHANGED vars
  BY <1>0, <1>9, StutterKeeps DEF vars, lockVars, memoryVars, threadVars
<1> QED
  BY <1>1, <1>2, <1>3, <1>4, <1>5, <1>6, <1>7, <1>8, <1>9 DEF Next

LEMMA SessionInvHolds == Spec => []SessionInv
<1> QED
  BY InitSession, StepSession, PTL DEF Spec

\* The rows of every session are numbered 1, 2, 3, ... as they were committed,
\* for any number of processes, managers, threads of a batch and sessions:
\* append_history_to_db's read of max(seq) and its commit are one step to all
\* others, through _APPEND_LOCK inside a process and the flock between them.
THEOREM RowsAreInOrder == Spec => []RowsInOrder
<1>1. SessionInv => RowsInOrder
  BY DEF SessionInv
<1> QED
  BY <1>1, SessionInvHolds, PTL

\* The database has the messages a run counts as saved, each once and in
\* order, from the moment the session is opened until it is left or killed.
THEOREM HistoryIsKept == Spec => []HistoryKept
<1>1. SessionInv => HistoryKept
  BY DEF SessionInv
<1> QED
  BY <1>1, SessionInvHolds, PTL

\* A session has one goal and it comes first, wherever a run was killed.
THEOREM GoalComesOnce == Spec => []OneGoal
<1>1. SessionInv => OneGoal
  BY DEF SessionInv
<1> QED
  BY <1>1, SessionInvHolds, PTL

---------------------------------------------------------------------------
(* The runbook.                                                            *)

RunbookInv ==
  /\ runbook \in [Ids -> {runbook[s] : s \in Ids}]
  /\ \A s \in Ids : runbook[s].verified \in BOOLEAN
  /\ vouched \in [Ids -> SUBSET Command]
  /\ VerifiedHere

\* What is carried over is never verified.
LEMMA CarriedUnverified ==
  ASSUME NEW s \in Ids
  PROVE  CarriedFrom(s).verified = FALSE
BY DEF CarriedFrom, NoEntry

\* One entry changes: the others are vouched for as before.
LEMMA OneEntry ==
  ASSUME RunbookInv, NEW s \in Ids, NEW e,
         e.verified = FALSE \/ (e.verified = TRUE /\ e.command \in vouched'[s]),
         runbook' = [runbook EXCEPT ![s] = e],
         vouched' \in [Ids -> SUBSET Command],
         \A r \in Ids : vouched[r] \subseteq vouched'[r]
  PROVE  RunbookInv'
<1>0. e.verified \in BOOLEAN /\ (e.verified => e.command \in vouched'[s])
  OBVIOUS
<1>1. runbook'[s] = e /\ \A r \in Ids \ {s} : runbook'[r] = runbook[r]
  BY DEF RunbookInv
<1>2. runbook' \in [Ids -> {runbook'[r] : r \in Ids}]
  BY DEF RunbookInv
<1>3. \A r \in Ids : runbook'[r].verified \in BOOLEAN
  BY <1>0, <1>1 DEF RunbookInv
<1>4. VerifiedHere'
  <2> SUFFICES ASSUME NEW r \in Ids, runbook'[r].verified
               PROVE  runbook'[r].command \in vouched'[r]
    BY DEF VerifiedHere
  <2>1. CASE r = s
    BY <2>1, <1>0, <1>1
  <2>2. CASE r # s
    <3>1. runbook'[r] = runbook[r]
      BY <2>2, <1>1
    <3> QED
      BY <3>1 DEF RunbookInv, VerifiedHere
  <2> QED
    BY <2>1, <2>2
<1> QED
  BY <1>2, <1>3, <1>4 DEF RunbookInv

LEMMA RunbookSetKeeps ==
  ASSUME RunbookInv, NEW m \in Manager, NEW c \in Command, NEW v \in BOOLEAN,
         RunbookSet(m, c, v)
  PROVE  RunbookInv'
<1> DEFINE s == sess[m]
           e == [command |-> c, verified |-> v \/ (runbook[s].command = c /\ runbook[s].verified)]
<1>1. /\ runbook' = [runbook EXCEPT ![s] = [command |-> c,
                       verified |-> v \/ (runbook[s].command = c /\ @.verified)]]
      /\ vouched' = [vouched EXCEPT ![s] = IF v THEN @ \cup {c} ELSE @]
  BY DEF RunbookSet
<1>2. CASE s \notin Ids
  <2>1. runbook' = runbook /\ vouched' = vouched
    BY <1>1, <1>2 DEF RunbookInv
  <2> QED
    BY <2>1 DEF RunbookInv, VerifiedHere
<1>3. CASE s \in Ids
  <2>1. runbook' = [runbook EXCEPT ![s] = e]
    BY <1>1, <1>3 DEF RunbookInv
  <2>2. /\ vouched' \in [Ids -> SUBSET Command] /\ \A r \in Ids : vouched[r] \subseteq vouched'[r]
        /\ v => c \in vouched'[s]
    BY <1>1, <1>3 DEF RunbookInv
  <2>3. e.verified \in BOOLEAN
    BY <1>3 DEF RunbookInv
  <2>4. e.verified => e.command \in vouched'[s]
    <3>1. CASE v
      BY <3>1, <2>2
    <3>2. CASE ~ v
      <4>1. e.verified => runbook[s].command = c /\ runbook[s].verified
        BY <3>2
      <4>2. runbook[s].verified => runbook[s].command \in vouched[s]
        BY <1>3 DEF RunbookInv, VerifiedHere
      <4>3. vouched[s] \subseteq vouched'[s] /\ e.command = c
        BY <2>2, <1>3
      <4> HIDE DEF e
      <4> QED
        BY <4>1, <4>2, <4>3
    <3> QED
      BY <3>1, <3>2
  <2>5. e.verified = FALSE \/ (e.verified = TRUE /\ e.command \in vouched'[s])
    BY <2>3, <2>4
  <2> HIDE DEF e
  <2> QED
    BY <2>1, <2>2, <2>5, <1>3, OneEntry
<1> QED
  BY <1>2, <1>3

LEMMA RunbookStep == RunbookInv /\ [Next]_vars => RunbookInv'
<1> SUFFICES ASSUME RunbookInv, [Next]_vars PROVE RunbookInv'
  OBVIOUS
<1>1. CASE UNCHANGED <<runbook, vouched>>
  BY <1>1 DEF RunbookInv, VerifiedHere
<1>2. ASSUME NEW m \in Manager, NEW s \in Ids, Open(m, s) PROVE RunbookInv'
  <2>1. UNCHANGED vouched /\ (UNCHANGED runbook \/ runbook' = [runbook EXCEPT ![s] = CarriedFrom(s)])
    BY <1>2 DEF Open, EnsureRecord
  <2>2. CASE UNCHANGED runbook
    BY <1>1, <2>1, <2>2
  <2>3. CASE runbook' = [runbook EXCEPT ![s] = CarriedFrom(s)]
    <3>1. vouched' \in [Ids -> SUBSET Command] /\ \A r \in Ids : vouched[r] \subseteq vouched'[r]
      BY <2>1 DEF RunbookInv
    <3>2. CarriedFrom(s).verified = FALSE
      BY CarriedUnverified
    <3> QED
      BY <2>3, <3>1, <3>2, OneEntry
  <2> QED
    BY <2>1, <2>2, <2>3
<1>3. ASSUME NEW m \in Manager, Refuse(m) \/ Begin(m) \/ Leave(m) \/ AddMessage(m)
      PROVE  UNCHANGED <<runbook, vouched>>
  BY <1>3 DEF Refuse, Begin, Leave, AddMessage, runbookVars
<1>4. ASSUME NEW m \in Manager, NEW t \in Thread, AddToEpisode(m, t) \/ CommitAppend(m, t)
      PROVE  UNCHANGED <<runbook, vouched>>
  BY <1>4 DEF AddToEpisode, CommitAppend, runbookVars
<1>5. ASSUME NEW m \in Manager, NEW c \in Command, NEW v \in BOOLEAN, RunbookSet(m, c, v)
      PROVE  RunbookInv'
  BY <1>5, RunbookSetKeeps
<1>6. ASSUME NEW p \in Process, Crash(p) PROVE UNCHANGED <<runbook, vouched>>
  BY <1>6 DEF Crash, runbookVars
<1>7. CASE UNCHANGED vars
  BY <1>1, <1>7 DEF vars, runbookVars
<1> QED
  BY <1>1, <1>2, <1>3, <1>4, <1>5, <1>6, <1>7 DEF Next

\* A runbook entry marked verified has a command that some runbook_set of this
\* very session called verified, whatever was carried over from another one or
\* changed since.
THEOREM RunbookIsVerifiedHere == Spec => []VerifiedHere
<1>1. Init => RunbookInv
  <2> SUFFICES ASSUME Init PROVE RunbookInv
    OBVIOUS
  <2>1. runbook = [s \in Ids |-> NoEntry] /\ vouched = [s \in Ids |-> {}]
    BY DEF Init
  <2>2. NoEntry.verified = FALSE
    BY DEF NoEntry
  <2> QED
    BY <2>1, <2>2 DEF RunbookInv, VerifiedHere
<1>2. RunbookInv => VerifiedHere
  BY DEF RunbookInv
<1> QED
  BY <1>1, <1>2, RunbookStep, PTL DEF Spec

-----------------------------------------------------------------------------
(* What a person is asked (module Approvals): approvals come from people.   *)

\* What people said is numbered by the question it was said to.
SaidInv ==
  /\ asked \in Nat /\ presses \in Nat
  /\ question # None => at = "asking" /\ question.number = asked /\ asked > 0
  /\ \A s \in said : /\ s.to \in 1..asked /\ s.nth \in Nat \ {0}
                     /\ s.to = asked => s.nth <= presses
  /\ \A s, t \in said : s.to = t.to /\ s.nth = t.nth => s = t

\* The queue holds what people said to this process, each answer once, and none
\* a command ran by; without an answer too many it is to the question shown.
AnswersInv ==
  /\ answers \in Seq(said)
  /\ \A i \in DOMAIN answers : answers[i].run = runs
  /\ \A i, j \in DOMAIN answers : answers[i] = answers[j] => i = j
  /\ \A i \in DOMAIN answers, r \in ran : answers[i] # r.by
  /\ question # None /\ ~Excess(asked, runs) => \A i \in DOMAIN answers : answers[i].to = asked
  /\ question = None /\ ~stopped /\ ~Excess(asked + 1, runs) => answers = <<>>

TypedInv == SaidInv /\ AnswersInv /\ StandingWasTyped /\ RanForCause

\* A sequence over a set is one over a larger set.
LEMMA SeqGrows ==
  ASSUME NEW S, NEW T, S \subseteq T, NEW q \in Seq(S) PROVE q \in Seq(T)
BY SMT

\* The console's answer at the gate is "Yes, run once" (cmd_tools.request).
LEMMA FirstOption == Options("command")[1] = "y"
BY DEF Options

\* Nobody said an answer that stands in for one.
LEMMA UnsaidIsNot ==
  ASSUME SaidInv, NEW key PROVE Unsaid(key) \notin said
<1>1. Unsaid(key).to = 0
  BY DEF Unsaid
<1> QED BY <1>1 DEF SaidInv

\* One more command runs by an answer that no other ran by.
LEMMA RanGrows ==
  ASSUME RanForCause, UNCHANGED said, NEW new, ran' = ran \union {new},
         \/ new.by = Standing
         \/ new.by.to = 0 /\ new.late
         \/ /\ new.by \in said /\ new.by.key \in Yes
            /\ new.by.to = new.number \/ Excess(new.number, new.run),
         new.by \in said => \A r \in ran : r.by # new.by
  PROVE  RanForCause'
<1>1. \A n, k : Excess(n, k)' <=> Excess(n, k)
  BY DEF Excess
<1>2. \A r \in ran' : \/ r.by = Standing
                      \/ r.by.to = 0 /\ r.late
                      \/ /\ r.by \in said /\ r.by.key \in Yes
                         /\ r.by.to = r.number \/ Excess(r.number, r.run)
  BY DEF RanForCause
<1>3. \A q, r \in ran' : q.by = r.by /\ r.by \in said => q = r
  BY DEF RanForCause
<1> QED BY <1>1, <1>2, <1>3 DEF RanForCause, Excess, Standing, Unsaid, Yes

\* The handler of an answer keeps the promises, when a person gave it and it is
\* the question's own or there was one too many, or when it is the first option
\* of its menu and the run is stopped (get_user_choice).
LEMMA DecideKeeps ==
  ASSUME StandingWasTyped, RanForCause, UNCHANGED <<said, runs>>,
         NEW kind, NEW answer, Decide(kind, answer),
         \/ /\ answer \in said /\ \A r \in ran : r.by # answer
            /\ answer.to = question.number \/ Excess(question.number, runs)
         \/ /\ answer \notin said /\ answer.to = 0 /\ stopped
            /\ kind = "command" => answer.key = "y"
  PROVE  /\ StandingWasTyped' /\ RanForCause' /\ question' = None
         /\ stopped => stopped'
         /\ \A r \in ran' : r \in ran \/ r.by = answer
<1>0. question' = None
  BY DEF Decide
<1>1. CASE kind = "command" /\ DecideCommand(answer)
  <2>1. answer.key \in {"a", "s"} => answer \in said
    BY <1>1
  <2>2. approve_all' = (approve_all \/ answer.key = "a")
    BY <1>1 DEF DecideCommand
  <2>3. approved' = IF answer.key = "s" THEN approved \union {Head(calls)} ELSE approved
    BY <1>1 DEF DecideCommand, Saved
  <2>4. UNCHANGED stopped
    BY <1>1 DEF DecideCommand
  <2>5. CASE answer.key \in Yes
    <3> DEFINE new == [cmd |-> Head(calls), by |-> answer, number |-> question.number,
                       run |-> runs, late |-> stopped]
    <3>1. ran' = ran \union {new}
      BY <1>1, <2>5 DEF DecideCommand, Executes
    <3>2. new.by = answer /\ new.cmd = Head(calls) /\ new.run = runs /\ new.late = stopped
            /\ new.number = question.number
      OBVIOUS
    <3> HIDE DEF new
    <3>3. RanForCause'
      BY <2>5, <3>1, <3>2, RanGrows
    <3>4. approve_all' => \E r \in ran' : r.run = runs' /\ r.by \in said' /\ r.by.key = "a"
      BY <2>1, <2>2, <3>1, <3>2 DEF StandingWasTyped
    <3>5. \A c \in approved' : \E r \in ran' : r.cmd = c /\ r.by \in said' /\ r.by.key = "s"
      BY <2>1, <2>3, <3>1, <3>2 DEF StandingWasTyped
    <3> QED BY <1>0, <2>4, <3>1, <3>2, <3>3, <3>4, <3>5 DEF StandingWasTyped
  <2>6. CASE answer.key \notin Yes
    <3>1. UNCHANGED ran /\ answer.key # "a" /\ answer.key # "s"
      BY <1>1, <2>6 DEF DecideCommand, Drops, Yes
    <3>2. approve_all' => approve_all
      BY <2>2, <3>1
    <3>3. UNCHANGED approved
      BY <2>3, <3>1
    <3>4. StandingWasTyped'
      BY <3>1, <3>2, <3>3 DEF StandingWasTyped
    <3>5. RanForCause'
      BY <3>1 DEF RanForCause, Excess
    <3> QED BY <1>0, <2>4, <3>1, <3>4, <3>5
  <2> QED BY <2>5, <2>6
<1>2. CASE UNCHANGED <<approve_all, approved, ran>> /\ (stopped => stopped')
  BY <1>0, <1>2 DEF StandingWasTyped, RanForCause, Excess
<1> QED BY <1>1, <1>2 DEF Decide, DecideFailure, DecideEvidence, DecideLoop

\* A stopped menu answers for the person.
LEMMA StopDecides ==
  ASSUME TypedInv, stopped, NEW kind, Decide(kind, Unsaid(Options(kind)[1])),
         UNCHANGED <<answers, said, presses, asked, runs>>
  PROVE  TypedInv'
<1> DEFINE answer == Unsaid(Options(kind)[1])
<1>1. answer \notin said /\ answer.to = 0 /\ (kind = "command" => answer.key = "y")
  BY UnsaidIsNot, FirstOption DEF TypedInv, Unsaid
<1> HIDE DEF answer
<1>2. Decide(kind, answer)
  BY DEF answer
<1>3. /\ StandingWasTyped' /\ RanForCause' /\ question' = None /\ stopped'
      /\ \A r \in ran' : r \in ran \/ r.by = answer
  BY <1>1, <1>2, DecideKeeps DEF TypedInv
<1>4. SaidInv'
  BY <1>3 DEF TypedInv, SaidInv
<1>5. \A i \in DOMAIN answers : answers[i] \in said
  BY DEF TypedInv, AnswersInv
<1>6. \A i \in DOMAIN answers, r \in ran' : answers[i] # r.by
  BY <1>1, <1>3, <1>5 DEF TypedInv, AnswersInv
<1>7. AnswersInv'
  BY <1>3, <1>6 DEF TypedInv, AnswersInv
<1> QED BY <1>3, <1>4, <1>7 DEF TypedInv

LEMMA AskKeeps ==
  ASSUME TypedInv, question = None, NEW kind, Ask(kind) PROVE TypedInv'
<1>1. CASE AskStopped(kind)
  BY <1>1, StopDecides DEF AskStopped
<1>2. CASE AskShown(kind)
  <2>1. /\ ~stopped /\ asked' = asked + 1 /\ presses' = 0 /\ at' = "asking"
        /\ question' = [kind |-> kind, number |-> asked + 1]
        /\ UNCHANGED <<answers, said, stopped, approve_all, approved, ran, runs>>
    BY <1>2 DEF AskShown
  <2>2. asked \in Nat /\ \A s \in said : s.to \in 1..asked
    BY DEF TypedInv, SaidInv
  <2>3. question'.number = asked' /\ question' # None
    BY <2>1, <2>2 DEF None
  <2>4. \A s \in said : s.to \in 1..asked' /\ s.to # asked'
    BY <2>1, <2>2
  <2>5. SaidInv'
    BY <2>1, <2>3, <2>4 DEF TypedInv, SaidInv
  <2>6. ~Excess(asked', runs) => answers = <<>>
    BY <2>1 DEF TypedInv, AnswersInv
  <2>7. Excess(asked', runs') <=> Excess(asked', runs)
    BY <2>1
  <2>8. AnswersInv'
    BY <2>1, <2>3, <2>6 DEF TypedInv, AnswersInv, Excess
  <2>9. StandingWasTyped' /\ RanForCause'
    BY <2>1 DEF TypedInv, StandingWasTyped, RanForCause, Excess
  <2> QED BY <2>5, <2>8, <2>9 DEF TypedInv
<1> QED BY <1>1, <1>2 DEF Ask

\* The worker takes the answer at the head of the queue.
LEMMA TakeKeeps ==
  ASSUME TypedInv, TakeAnswer PROVE TypedInv'
<1>1. /\ at = "asking" /\ answers # <<>> /\ Decide(question.kind, Head(answers))
      /\ answers' = Tail(answers) /\ UNCHANGED <<said, presses, asked, runs>>
  BY DEF TakeAnswer
<1>2. answers \in Seq(said)
  BY DEF TypedInv, AnswersInv
<1>3. /\ Head(answers) = answers[1] /\ 1 \in DOMAIN answers /\ Head(answers) \in said
      /\ Tail(answers) \in Seq(said) /\ Len(answers) \in Nat \ {0}
      /\ DOMAIN Tail(answers) = 1..(Len(answers) - 1) /\ DOMAIN answers = 1..Len(answers)
      /\ \A i \in DOMAIN Tail(answers) :
           i \in Nat /\ i + 1 \in DOMAIN answers /\ i + 1 # 1 /\ Tail(answers)[i] = answers[i + 1]
  BY <1>1, <1>2
<1>4. question # None
  BY <1>1 DEF Decide, None
<1>5. question.number = asked
  BY <1>4 DEF TypedInv, SaidInv
<1>6. Head(answers).to = asked \/ Excess(asked, runs)
  BY <1>3, <1>4 DEF TypedInv, AnswersInv
<1>7. \A r \in ran : r.by # Head(answers)
  BY <1>3 DEF TypedInv, AnswersInv
<1>8. /\ StandingWasTyped' /\ RanForCause' /\ question' = None
      /\ \A r \in ran' : r \in ran \/ r.by = Head(answers)
  BY <1>1, <1>3, <1>5, <1>6, <1>7, DecideKeeps DEF TypedInv
<1>9. SaidInv'
  BY <1>1, <1>8 DEF TypedInv, SaidInv
<1>10. \A i \in DOMAIN Tail(answers), r \in ran' : Tail(answers)[i] # r.by
  <2> SUFFICES ASSUME NEW i \in DOMAIN Tail(answers), NEW r \in ran' PROVE Tail(answers)[i] # r.by
    OBVIOUS
  <2>1. i + 1 \in DOMAIN answers /\ i + 1 # 1 /\ Tail(answers)[i] = answers[i + 1]
    BY <1>3
  <2>2. answers[i + 1] # Head(answers)
    BY <1>3, <2>1 DEF TypedInv, AnswersInv
  <2>3. r \in ran => answers[i + 1] # r.by
    BY <2>1 DEF TypedInv, AnswersInv
  <2> QED BY <1>8, <2>1, <2>2, <2>3
<1>11. \A i, j \in DOMAIN Tail(answers) : Tail(answers)[i] = Tail(answers)[j] => i = j
  <2> SUFFICES ASSUME NEW i \in DOMAIN Tail(answers), NEW j \in DOMAIN Tail(answers),
                      Tail(answers)[i] = Tail(answers)[j] PROVE i = j
    OBVIOUS
  <2>1. i + 1 \in DOMAIN answers /\ j + 1 \in DOMAIN answers /\ answers[i + 1] = answers[j + 1]
    BY <1>3
  <2>2. i + 1 = j + 1
    BY <2>1 DEF TypedInv, AnswersInv
  <2>3. i \in Nat /\ j \in Nat
    BY <1>3
  <2> QED BY <2>2, <2>3
<1>12. ~Excess(asked + 1, runs) => Tail(answers) = <<>>
  <2> SUFFICES ASSUME ~Excess(asked + 1, runs), NEW i \in DOMAIN Tail(answers) PROVE FALSE
    BY <1>3
  <2>1. i + 1 \in DOMAIN answers /\ i + 1 # 1 /\ 1 \in DOMAIN answers
    BY <1>3
  <2>2. \A s \in said : s.to \in 1..asked /\ s.nth \in Nat \ {0} /\ asked \in Nat
    BY DEF TypedInv, SaidInv
  <2>3. ~Excess(asked, runs)
    BY <2>2 DEF Excess
  <2>4. \A k \in DOMAIN answers : answers[k].to = asked /\ answers[k].run = runs
    BY <2>3, <1>4 DEF TypedInv, AnswersInv
  <2>5. \A k \in DOMAIN answers : answers[k] \in said
    BY <1>2
  <2>6. \A k \in DOMAIN answers : answers[k].nth = 1
    BY <2>2, <2>4, <2>5 DEF Excess
  <2>7. answers[i + 1] = answers[1]
    BY <2>1, <2>4, <2>5, <2>6 DEF TypedInv, SaidInv
  <2> QED BY <2>1, <2>7 DEF TypedInv, AnswersInv
<1>13. \A i \in DOMAIN Tail(answers) : Tail(answers)[i].run = runs
  BY <1>3 DEF TypedInv, AnswersInv
<1>14. AnswersInv'
  BY <1>1, <1>3, <1>8, <1>10, <1>11, <1>12, <1>13 DEF AnswersInv, Excess
<1> QED BY <1>8, <1>9, <1>14 DEF TypedInv

\* A person answers: what is queued is new.
LEMMA PressKeeps ==
  ASSUME TypedInv, Press PROVE TypedInv'
<1>1. PICK k \in Keys(question.kind) :
        /\ answers' = Append(answers, [key |-> k, to |-> question.number, nth |-> presses + 1,
                                       run |-> runs])
        /\ said' = said \union {[key |-> k, to |-> question.number, nth |-> presses + 1,
                                 run |-> runs]}
  BY DEF Press
<1> DEFINE new == [key |-> k, to |-> question.number, nth |-> presses + 1, run |-> runs]
<1>2. /\ new.to = question.number /\ new.nth = presses + 1 /\ new.run = runs
      /\ answers' = Append(answers, new) /\ said' = said \union {new}
  BY <1>1
<1> HIDE DEF new
<1>3. /\ question # None /\ presses' = presses + 1
      /\ UNCHANGED <<at, question, asked, stopped, approve_all, approved, ran, runs>>
  BY DEF Press
<1>4. asked \in Nat \ {0} /\ presses \in Nat /\ question.number = asked /\ at = "asking"
  BY <1>3 DEF TypedInv, SaidInv
<1>5. \A s \in said : s.to \in 1..asked /\ s.nth \in Nat \ {0} /\ (s.to = asked => s.nth <= presses)
  BY DEF TypedInv, SaidInv
<1>6. \A s \in said : ~(s.to = new.to /\ s.nth = new.nth)
  BY <1>2, <1>4, <1>5
<1>7. new \notin said
  BY <1>6
<1>8. SaidInv'
  <2>1. \A s \in said' : /\ s.to \in 1..asked /\ s.nth \in Nat \ {0}
                         /\ s.to = asked => s.nth <= presses'
    BY <1>2, <1>3, <1>4, <1>5
  <2>2. \A s, t \in said' : s.to = t.to /\ s.nth = t.nth => s = t
    BY <1>2, <1>6 DEF TypedInv, SaidInv
  <2> QED BY <1>3, <1>4, <2>1, <2>2 DEF SaidInv
<1>9. answers \in Seq(said) /\ answers \in Seq(said')
  BY <1>2, SeqGrows DEF TypedInv, AnswersInv
<1>10. /\ answers' \in Seq(said') /\ DOMAIN answers = 1..Len(answers)
       /\ DOMAIN answers' = 1..(Len(answers) + 1) /\ Len(answers) \in Nat
       /\ \A i \in DOMAIN answers' : \/ i \in DOMAIN answers /\ answers'[i] = answers[i]
                                     \/ i = Len(answers) + 1 /\ answers'[i] = new
  BY <1>2, <1>9, AppendProperties
<1>11. \A i \in DOMAIN answers : answers[i] \in said
  BY <1>9
<1>12. \A i, j \in DOMAIN answers' : answers'[i] = answers'[j] => i = j
  BY <1>7, <1>10, <1>11 DEF TypedInv, AnswersInv
<1>13. \A r \in ran : r.by # new
  BY <1>2, <1>4, <1>7 DEF TypedInv, RanForCause, Standing, Unsaid
<1>14. \A i \in DOMAIN answers', r \in ran' : answers'[i] # r.by
  BY <1>3, <1>10, <1>13 DEF TypedInv, AnswersInv
<1>15. \A i \in DOMAIN answers' : answers'[i].run = runs'
  BY <1>2, <1>3, <1>10 DEF TypedInv, AnswersInv
<1>16. Excess(asked, runs) => Excess(asked, runs)'
  BY <1>2, <1>3 DEF Excess
<1>17. ~Excess(asked, runs)' => \A i \in DOMAIN answers' : answers'[i].to = asked'
  BY <1>2, <1>3, <1>4, <1>10, <1>16 DEF TypedInv, AnswersInv
<1>18. AnswersInv'
  BY <1>3, <1>10, <1>12, <1>14, <1>15, <1>17 DEF AnswersInv
<1>19. StandingWasTyped'
  BY <1>2, <1>3 DEF TypedInv, StandingWasTyped
<1>20. RanForCause'
  <2>1. \A n, m : Excess(n, m) => Excess(n, m)'
    BY <1>2, <1>3 DEF Excess
  <2>2. \A q, r \in ran : q.by = r.by /\ r.by \in said' => q = r
    BY <1>2, <1>13 DEF TypedInv, RanForCause
  <2>3. \A r \in ran : \/ r.by = Standing
                       \/ r.by.to = 0 /\ r.late
                       \/ /\ r.by \in said' /\ r.by.key \in Yes
                          /\ r.by.to = r.number \/ Excess(r.number, r.run)'
    BY <1>2, <2>1 DEF TypedInv, RanForCause
  <2> QED BY <1>3, <2>2, <2>3 DEF RanForCause, Standing, Unsaid, Yes
<1> QED BY <1>8, <1>18, <1>19, <1>20 DEF TypedInv

\* What the steps between the questions leave alone.
LEMMA QuietKeeps ==
  ASSUME TypedInv, UNCHANGED <<question, answers, said, presses, asked, approve_all, approved, ran,
                               runs>>,
         question # None => at' = at, stopped => stopped'
  PROVE  TypedInv'
BY DEF TypedInv, SaidInv, AnswersInv, StandingWasTyped, RanForCause, Excess

\* In every run and at any number of commands, questions and answers: a command
\* runs on a standing approval, after a stop, or by a yes of a person to its own
\* question (or to one before, once a question got two answers), no yes runs two
\* commands, and "All" and every saved prefix were a person's answer at the gate
\* (CmdApprovalGate.request, get_user_choice).
THEOREM ApprovalsTyped == ApprovalsSpec => [](StandingWasTyped /\ RanForCause)
<1>1. ApprovalsInit => TypedInv
  <2> SUFFICES ASSUME ApprovalsInit PROVE TypedInv
    OBVIOUS
  <2>1. answers = <<>> /\ <<>> \in Seq(said) /\ said = {} /\ ran = {} /\ asked = 0 /\ presses = 0
          /\ question = None /\ approve_all = FALSE /\ approved = {}
    BY DEF ApprovalsInit
  <2> QED BY <2>1 DEF TypedInv, SaidInv, AnswersInv, StandingWasTyped, RanForCause
<1>2. TypedInv /\ [ApprovalsNext]_approvalVars => TypedInv'
  <2> SUFFICES ASSUME TypedInv, [ApprovalsNext]_approvalVars PROVE TypedInv'
    OBVIOUS
  <2>0. at # "asking" => question = None
    BY DEF TypedInv, SaidInv
  <2>1. CASE ReviewEvidence
    BY <2>0, <2>1, AskKeeps, QuietKeeps DEF ReviewEvidence
  <2>2. CASE ReviewFails
    BY <2>0, <2>2, AskKeeps DEF ReviewFails
  <2>3. CASE RequestFails
    BY <2>0, <2>3, AskKeeps, QuietKeeps DEF RequestFails
  <2>4. CASE Call
    <3>0. question = None
      BY <2>0, <2>4 DEF Call
    <3>1. CASE Ask("command")
      BY <3>0, <3>1, AskKeeps
    <3>2. CASE Executes(Standing) /\ UNCHANGED <<question, answers, said, presses, asked, stopped,
                                                 approve_all, approved, runs>>
      <4> DEFINE new == [cmd |-> Head(calls), by |-> Standing, number |-> question.number,
                         run |-> runs, late |-> stopped]
      <4>1. ran' = ran \union {new} /\ new.by = Standing
        BY <3>2 DEF Executes
      <4> HIDE DEF new
      <4>2. Standing \notin said
        BY UnsaidIsNot DEF TypedInv, Standing
      <4>3. RanForCause'
        BY <3>2, <4>1, <4>2, RanGrows DEF TypedInv
      <4>4. StandingWasTyped'
        BY <3>2, <4>1 DEF TypedInv, StandingWasTyped
      <4>5. SaidInv'
        BY <3>0, <3>2 DEF TypedInv, SaidInv
      <4>6. \A i \in DOMAIN answers : answers[i] \in said
        BY DEF TypedInv, AnswersInv
      <4>7. \A i \in DOMAIN answers, r \in ran' : answers[i] # r.by
        BY <4>1, <4>2, <4>6 DEF TypedInv, AnswersInv
      <4>8. AnswersInv'
        BY <3>2, <4>7 DEF TypedInv, AnswersInv, Excess
      <4> QED BY <4>3, <4>4, <4>5, <4>8 DEF TypedInv
    <3> QED BY <2>4, <3>1, <3>2 DEF Call
  <2>5. CASE TakeAnswer
    BY <2>5, TakeKeeps
  <2>6. CASE StopAsking
    BY <2>6, StopDecides DEF StopAsking
  <2>7. CASE Press
    BY <2>7, PressKeeps
  <2>8. CASE Turn \/ Reply \/ CallsDone
    BY <2>0, <2>8, QuietKeeps DEF Turn, Reply, CallsDone
  <2>9. CASE EditEvidence \/ Stop
    BY <2>9, QuietKeeps DEF EditEvidence, Stop
  <2>10. CASE Restart
    <3>1. /\ question' = None /\ answers' = <<>> /\ approve_all' = FALSE
          /\ UNCHANGED <<said, presses, asked, approved, ran>>
      BY <2>10 DEF Restart
    <3>2. <<>> \in Seq(said)
      OBVIOUS
    <3> QED BY <3>1, <3>2 DEF TypedInv, SaidInv, AnswersInv, StandingWasTyped, RanForCause, Excess
  <2>11. CASE UNCHANGED approvalVars
    BY <2>11, QuietKeeps DEF approvalVars
  <2> QED BY <2>1, <2>2, <2>3, <2>4, <2>5, <2>6, <2>7, <2>8, <2>9, <2>10, <2>11
          DEF ApprovalsNext
<1>3. TypedInv => StandingWasTyped /\ RanForCause
  BY DEF TypedInv
<1> QED BY <1>1, <1>2, <1>3, PTL DEF ApprovalsSpec
=============================================================================
