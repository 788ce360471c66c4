----------------------------- MODULE Tools_proofs ---------------------------
(***************************************************************************)
(* What holds of the tools the episodes of a batch call, for every tree,   *)
(* every number of episodes, cases, processes and calls: what they claim   *)
(* in the plan has one owner, and what they ended is gone.  And of the     *)
(* models of LM Studio around a judge step: they come back.                *)
(***************************************************************************)
EXTENDS Tools, LMStudio, TLAPS

---------------------------------------------------------------------------
(* The claims.                                                             *)

\* The plan is well formed, and its cases have one owner each.
ClaimsInv ==
  /\ IsPlan(plan)
  /\ CasesApart(plan)
  /\ batch \in Batches

\* A row that shares no case with the others can be written: under a new id or
\* an old one, the cases of the plan still have one owner each.
LEMMA WriteKeepsApart ==
  ASSUME NEW p, IsPlan(p), CasesApart(p), NEW n \in Id, NEW row \in Row,
         \A m \in DOMAIN p \ {n} : p[m].cases \cap row.cases = {}
  PROVE  LET q == [m \in DOMAIN p \cup {n} |-> IF m = n THEN row ELSE p[m]]
         IN  IsPlan(q) /\ CasesApart(q)
<1> DEFINE q == [m \in DOMAIN p \cup {n} |-> IF m = n THEN row ELSE p[m]]
<1>1. IsPlan(q)
  <2>1. \A m \in DOMAIN p : p[m] \in Row
    BY DEF IsPlan
  <2>2. \A m \in DOMAIN q : q[m] \in Row
    BY <2>1
  <2>3. DOMAIN q = DOMAIN p \cup {n}
    OBVIOUS
  <2> QED
    BY <2>2, <2>3 DEF IsPlan
<1>2. ASSUME NEW k \in DOMAIN q, NEW m \in DOMAIN q, k # m
      PROVE  q[k].cases \cap q[m].cases = {}
  <2>1. CASE k = n
    <3>1. m \in DOMAIN p \ {n} /\ q[m] = p[m] /\ q[k] = row
      BY <1>2, <2>1
    <3> QED
      BY <3>1
  <2>2. CASE m = n
    <3>1. k \in DOMAIN p \ {n} /\ q[k] = p[k] /\ q[m] = row
      BY <1>2, <2>2
    <3> QED
      BY <3>1
  <2>3. CASE k # n /\ m # n
    BY <1>2, <2>3 DEF CasesApart
  <2> QED
    BY <2>1, <2>2, <2>3
<1> QED
  BY <1>1, <1>2 DEF CasesApart

\* add_node, whatever ids a deletion has freed.
LEMMA AddKeeps ==
  ASSUME ClaimsInv, NEW t \in Thread, NEW f \in Function \cup {NoFunction},
         NEW fs \in SUBSET File, NEW cs \in SUBSET Case, NEW k \in {"code", "delete"},
         batch.role \in {"lead", "task"}, Under(t) \in Id,
         AddClaim(t, f, fs, cs, k)
  PROVE  IsPlan(plan') /\ CasesApart(plan')
<1> DEFINE n == NextId(plan)
           row == [level |-> batch.role, parent |-> Under(t), function |-> f,
                   files |-> fs, cases |-> cs, kind |-> k]
<1>1. n \in Id /\ ~ Clash(plan, n, Under(t), cs)
  BY DEF AddClaim
<1>2. row \in Row
  BY DEF Row
<1>3. \A m \in DOMAIN plan \ {n} : plan[m].cases \cap row.cases = {}
  BY <1>1 DEF Clash
<1>4. plan' = [m \in DOMAIN plan \cup {n} |-> IF m = n THEN row ELSE plan[m]]
  BY DEF AddClaim
<1> HIDE DEF n, row
<1> QED
  BY <1>1, <1>2, <1>3, <1>4, WriteKeepsApart DEF ClaimsInv

\* update_node: the cases it keeps were apart from the others already.
LEMMA UpdateKeeps ==
  ASSUME ClaimsInv, NEW t \in Thread, NEW n \in DOMAIN plan, NEW f \in Function \cup {NoFunction},
         NEW fs \in SUBSET File, NEW cs \in SUBSET Case, NEW k \in {"code", "delete"},
         UpdateClaim(t, n, f, fs, cs, k)
  PROVE  IsPlan(plan') /\ CasesApart(plan')
<1> DEFINE row == [plan[n] EXCEPT !.function = f, !.files = fs, !.cases = cs, !.kind = k]
<1>1. n \in Id /\ plan[n] \in Row
  BY DEF ClaimsInv, IsPlan
<1>2. row \in Row
  BY <1>1 DEF Row
<1>3. row.cases = cs
  BY <1>1 DEF Row
<1>4. \A m \in DOMAIN plan \ {n} : plan[m].cases \cap row.cases = {}
  <2>1. CASE cs = plan[n].cases
    BY <1>3, <2>1 DEF ClaimsInv, CasesApart
  <2>2. CASE cs # plan[n].cases
    BY <1>3, <2>2 DEF UpdateClaim, Clash
  <2> QED
    BY <2>1, <2>2
<1>5. plan' = [m \in DOMAIN plan \cup {n} |-> IF m = n THEN row ELSE plan[m]]
  BY DEF UpdateClaim, ClaimsInv, IsPlan
<1> HIDE DEF row
<1> QED
  BY <1>1, <1>2, <1>4, <1>5, WriteKeepsApart DEF ClaimsInv

\* Fewer rows claim no more.
LEMMA DeleteKeeps ==
  ASSUME ClaimsInv, NEW t \in Thread, NEW n \in DOMAIN plan, DeleteClaim(t, n)
  PROVE  IsPlan(plan') /\ CasesApart(plan')
<1>1. plan' = [m \in DOMAIN plan \ {n} |-> plan[m]]
  BY DEF DeleteClaim
<1>2. IsPlan(plan')
  BY <1>1 DEF ClaimsInv, IsPlan
<1> QED
  BY <1>1, <1>2 DEF ClaimsInv, CasesApart

LEMMA ClaimCallKeeps ==
  ASSUME ClaimsInv, NEW t \in Thread, ClaimCall(t)
  PROVE  ClaimsInv'
<1>1. batch.role \in {"lead", "task"} /\ Under(t) \in Id
  BY ClaimsAssumption DEF ClaimsInv, Under
<1>2. batch' = batch
  BY DEF ClaimCall, AddClaim, UpdateClaim, DeleteClaim, CaptureCase, FinishClaims
<1> SUFFICES IsPlan(plan') /\ CasesApart(plan')
  BY <1>2 DEF ClaimsInv, IsPlan, CasesApart
<1>3. CASE \E f \in Function \cup {NoFunction}, fs \in SUBSET File, cs \in SUBSET Case,
              k \in {"code", "delete"} : AddClaim(t, f, fs, cs, k)
  BY <1>1, <1>3, AddKeeps
<1>4. CASE \E n \in DOMAIN plan :
             \/ \E f \in Function \cup {NoFunction}, fs \in SUBSET File, cs \in SUBSET Case,
                  k \in {"code", "delete"} : UpdateClaim(t, n, f, fs, cs, k)
             \/ DeleteClaim(t, n)
  BY <1>4, UpdateKeeps, DeleteKeeps
<1>5. CASE (\E c \in Case : CaptureCase(t, c)) \/ FinishClaims(t)
  BY <1>5 DEF CaptureCase, FinishClaims, ClaimsInv, IsPlan, CasesApart
<1> QED
  BY <1>3, <1>4, <1>5 DEF ClaimCall

\* No two nodes are ever compared with the same case, however many episodes
\* add, rewrite and delete nodes at the same time (nodes.py:309-317).
THEOREM OneOwner == ToolsSpec => []CasesHaveOneOwner
<1>1. ToolsInit => ClaimsInv
  BY ClaimsAssumption DEF ToolsInit, ClaimsInit, ClaimsInv
<1>2. ClaimsInv /\ [ToolsNext]_toolVars => ClaimsInv'
  <2> SUFFICES ASSUME ClaimsInv, [ToolsNext]_toolVars
               PROVE  ClaimsInv'
    OBVIOUS
  <2>1. CASE UNCHANGED claimVars
    BY <2>1 DEF ClaimsInv, claimVars, IsPlan, CasesApart
  <2>2. ASSUME NEW t \in Thread, ClaimOf(t) \/ BeginOf(t) \/ GoOnOf(t)
        PROVE  ClaimsInv'
    BY <2>1, <2>2, ClaimCallKeeps DEF ClaimOf, BeginOf, GoOnOf
  <2>3. CASE Outside \/ UNCHANGED toolVars
    BY <2>1, <2>3 DEF Outside, toolVars
  <2> QED
    BY <2>2, <2>3 DEF ToolsNext
<1>3. ClaimsInv => CasesHaveOneOwner
  BY DEF ClaimsInv, CasesHaveOneOwner
<1> QED
  BY <1>1, <1>2, <1>3, PTL DEF ToolsSpec

---------------------------------------------------------------------------
(* The processes and the browser.                                          *)

ServicesTypeOK ==
  /\ next_id \in 0 .. MaxHandle
  /\ registry \subseteq 1 .. next_id
  /\ wrapper \in [Handle -> {"none", "running", "zombie", "reaped"}]
  /\ child \in [Handle -> BOOLEAN] /\ stubborn \in [Handle -> BOOLEAN]
  /\ at \in [Thread -> At]
  /\ handle \in [Thread -> 0 .. MaxHandle]
  /\ made \in Nat /\ over \in BOOLEAN /\ raced \in BOOLEAN

\* What is stopped was started, and stays stopped.
StoppedStays == \A h \in stopped : h \in 1 .. next_id /\ ~ Alive(h)

\* A call that ends a process is about one that was started; once the group has
\* its SIGTERM only a child can be alive, since the handle isn't used again.
EndingKnown ==
  \A t \in Thread :
    /\ at[t] \in {"found", "probing", "killing"} => handle[t] \in 1 .. next_id
    /\ at[t] = "probing" => wrapper[handle[t]] # "running"

\* Unless two were made at once there is one BrowserSession at a time, so the
\* pages are its own; after the session's end no call is on its way.
PagesKnown ==
  /\ ~ raced => open_pages \subseteq {session} \ {0}
  /\ \A t \in Thread : at[t] = "calling" => session # 0
  /\ over => (open_pages = {} \/ raced) /\ \A t \in Thread : at[t] = "idle"

ServicesInv == ServicesTypeOK /\ StoppedStays /\ EndingKnown /\ PagesKnown

\* A call in progress moves on and leaves the browser alone.
LEMMA PagesAside ==
  ASSUME ServicesInv, NEW t \in Thread, NEW where \in At \ {"calling"}, ~ over,
         Goes(t, where), UNCHANGED <<browserVars, over>>
  PROVE  PagesKnown'
BY DEF ServicesInv, ServicesTypeOK, PagesKnown, Goes, browserVars

\* Polling kills nothing, and revives nothing.
LEMMA Polling ==
  ASSUME ServicesInv, NEW hs \in SUBSET Handle
  PROVE  /\ Reaped(hs) \in [Handle -> {"none", "running", "zombie", "reaped"}]
         /\ \A h \in Handle : Reaped(hs)[h] = "running" <=> wrapper[h] = "running"
BY DEF ServicesInv, ServicesTypeOK, Reaped

\* The handles given out are among those there may be.
LEMMA Known ==
  ASSUME ServicesInv
  PROVE  /\ 1 .. next_id \subseteq Handle /\ registry \subseteq Handle
         /\ \A t \in Thread : at[t] # "idle" => ~ over
BY MaxHandleAssumption DEF ServicesInv, ServicesTypeOK, PagesKnown, Handle

\* start_background_process, up to its metadata.
LEMMA StartingKeeps ==
  ASSUME ServicesInv, NEW t \in Thread,
         \/ StartFails(t)
         \/ \E forks, ignores \in BOOLEAN : Start(t, forks, ignores)
         \/ Describe(t)
  PROVE  ServicesInv'
<1>1. CASE StartFails(t)
  <2>1. next_id + 1 \in 0 .. MaxHandle /\ 1 .. next_id \subseteq 1 .. next_id + 1
    BY <1>1, MaxHandleAssumption DEF StartFails, ServicesInv, ServicesTypeOK
  <2>2. ServicesTypeOK'
    BY <1>1, <2>1 DEF StartFails, ServicesInv, ServicesTypeOK, browserVars
  <2>3. StoppedStays' /\ EndingKnown'
    BY <1>1, <2>1 DEF StartFails, ServicesInv, StoppedStays, EndingKnown, Alive
  <2>4. PagesKnown'
    BY <1>1 DEF StartFails, ServicesInv, PagesKnown, browserVars
  <2> QED
    BY <2>2, <2>3, <2>4 DEF ServicesInv
<1>2. ASSUME NEW forks \in BOOLEAN, NEW ignores \in BOOLEAN, Start(t, forks, ignores)
      PROVE  ServicesInv'
  <2> DEFINE h == next_id + 1
  <2>1. /\ h \in Handle /\ h \in 0 .. MaxHandle /\ h \notin 1 .. next_id
        /\ 1 .. next_id \subseteq 1 .. h /\ h \in 1 .. h
    BY <1>2, MaxHandleAssumption DEF Start, ServicesInv, ServicesTypeOK, Handle
  <2>2. /\ next_id' = h /\ handle' = [handle EXCEPT ![t] = h]
        /\ at' = [at EXCEPT ![t] = "popened"] /\ registry' = registry \cup {h}
        /\ wrapper' = [wrapper EXCEPT ![h] = "running"]
        /\ child' = [child EXCEPT ![h] = forks] /\ stubborn' = [stubborn EXCEPT ![h] = ignores]
        /\ stopped' = stopped /\ ~ over /\ at[t] = "idle"
        /\ UNCHANGED <<browserVars, over>>
    BY <1>2 DEF Start, Idle, Goes, For
  <2> HIDE DEF h
  <2>3. ServicesTypeOK'
    BY <2>1, <2>2 DEF ServicesInv, ServicesTypeOK, browserVars, At
  <2>4. StoppedStays'
    BY <2>1, <2>2, Known DEF ServicesInv, ServicesTypeOK, StoppedStays, Alive
  <2>5. EndingKnown'
    BY <2>1, <2>2 DEF ServicesInv, ServicesTypeOK, EndingKnown
  <2>6. PagesKnown'
    BY <2>2, PagesAside DEF Goes, At
  <2> QED
    BY <2>3, <2>4, <2>5, <2>6 DEF ServicesInv
<1>3. CASE Describe(t)
  <2>1. ~ over
    BY <1>3, Known DEF Describe
  <2>2. ServicesTypeOK' /\ StoppedStays' /\ EndingKnown'
    BY <1>3 DEF Describe, Goes, ServicesInv, ServicesTypeOK, StoppedStays, EndingKnown, Alive,
                browserVars, At
  <2>3. PagesKnown'
    BY <1>3, <2>1, PagesAside DEF Describe, At
  <2> QED
    BY <2>2, <2>3 DEF ServicesInv
<1> QED
  BY <1>1, <1>2, <1>3

\* The calls that poll: a mirrored entry, a process that is looked up, the
\* finished ones.
LEMMA PollingKeeps ==
  ASSUME ServicesInv, NEW t \in Thread,
         Mirror(t) \/ (\E h \in Handle : Find(t, h)) \/ LookForFinished(t)
  PROVE  ServicesInv'
<1>1. CASE Mirror(t)
  <2>1. wrapper' = wrapper \/ wrapper' = Reaped(registry)
    BY <1>1 DEF Mirror
  <2>2. /\ wrapper' \in [Handle -> {"none", "running", "zombie", "reaped"}]
        /\ \A h \in Handle : wrapper'[h] = "running" <=> wrapper[h] = "running"
    <3>1. CASE wrapper' = Reaped(registry)
      BY <3>1, Polling, Known
    <3>2. CASE wrapper' = wrapper
      BY <3>2 DEF ServicesInv, ServicesTypeOK
    <3> QED
      BY <2>1, <3>1, <3>2
  <2>3. ServicesTypeOK'
    BY <1>1, <2>2, MaxHandleAssumption DEF Mirror, Goes, For, NoHandle, ServicesInv, ServicesTypeOK, browserVars, At
  <2>4. StoppedStays'
    BY <1>1, <2>2, Known DEF Mirror, ServicesInv, StoppedStays, Alive
  <2>5. EndingKnown'
    BY <1>1, <2>2, Known DEF Mirror, Goes, For, ServicesInv, ServicesTypeOK, EndingKnown
  <2>6. PagesKnown'
    BY <1>1, Known, PagesAside DEF Mirror, At
  <2> QED
    BY <2>3, <2>4, <2>5, <2>6 DEF ServicesInv
<1>2. ASSUME NEW h \in Handle, Find(t, h)
      PROVE  ServicesInv'
  <2> DEFINE where == IF Polled(h) = "running" THEN "found" ELSE "stopped"
  <2>1. /\ h \in registry /\ at' = [at EXCEPT ![t] = where] /\ handle' = [handle EXCEPT ![t] = h]
        /\ wrapper' = Reaped({h}) /\ ~ over
    BY <1>2 DEF Find, Goes, For, Idle
  <2>2. where \in At \ {"calling", "probing"}
    BY DEF At
  <2>3. /\ wrapper' \in [Handle -> {"none", "running", "zombie", "reaped"}]
        /\ \A g \in Handle : wrapper'[g] = "running" <=> wrapper[g] = "running"
    BY <2>1, Polling DEF ServicesInv, ServicesTypeOK
  <2> HIDE DEF where
  <2>4. h \in 1 .. next_id /\ h \in 0 .. MaxHandle
    BY <2>1, MaxHandleAssumption DEF ServicesInv, ServicesTypeOK, Handle
  <2>5. ServicesTypeOK'
    BY <1>2, <2>1, <2>2, <2>3, <2>4 DEF Find, ServicesInv, ServicesTypeOK, browserVars
  <2>6. StoppedStays'
    BY <1>2, <2>3, Known DEF Find, ServicesInv, StoppedStays, Alive
  <2>7. EndingKnown'
    BY <1>2, <2>1, <2>2, <2>3, <2>4, Known DEF Find, ServicesInv, ServicesTypeOK, EndingKnown
  <2>8. PagesKnown'
    BY <1>2, <2>1, <2>2, PagesAside DEF Find, Goes
  <2> QED
    BY <2>5, <2>6, <2>7, <2>8 DEF ServicesInv
<1>3. CASE LookForFinished(t)
  <2>1. ~ over /\ at' = [at EXCEPT ![t] = "clearing"]
    BY <1>3 DEF LookForFinished, Idle, Goes
  <2>2. /\ wrapper' \in [Handle -> {"none", "running", "zombie", "reaped"}]
        /\ \A h \in Handle : wrapper'[h] = "running" <=> wrapper[h] = "running"
    BY <1>3, Polling, Known DEF LookForFinished
  <2>3. ServicesTypeOK'
    BY <1>3, <2>1, <2>2 DEF LookForFinished, ServicesInv, ServicesTypeOK, browserVars, At
  <2>4. StoppedStays'
    BY <1>3, <2>2, Known DEF LookForFinished, ServicesInv, StoppedStays, Alive
  <2>5. EndingKnown'
    BY <1>3, <2>1, <2>2, Known DEF LookForFinished, ServicesInv, ServicesTypeOK, EndingKnown
  <2>6. PagesKnown'
    BY <1>3, <2>1, PagesAside DEF LookForFinished, Goes, At
  <2> QED
    BY <2>3, <2>4, <2>5, <2>6 DEF ServicesInv
<1> QED
  BY <1>1, <1>2, <1>3

\* SIGTERM, the wait, SIGKILL: an answer says stopped only once nothing is alive.
LEMMA EndingKeeps ==
  ASSUME ServicesInv, NEW t \in Thread, Terminate(t) \/ Probe(t) \/ Kill(t)
  PROVE  ServicesInv'
<1> DEFINE h == handle[t]
<1>1. /\ ~ over /\ h \in 1 .. next_id /\ h \in Handle
      /\ at[t] = "probing" => wrapper[h] # "running"
  BY Known DEF Terminate, Probe, Kill, ServicesInv, EndingKnown
<1>2. CASE Terminate(t)
  <2>1. CASE h \notin metadata
    <3>1. at' = [at EXCEPT ![t] = "idle"] /\ handle' = [handle EXCEPT ![t] = 0]
          /\ UNCHANGED <<wrapper, child>>
      BY <1>2, <2>1 DEF Terminate, Goes, For, NoHandle
    <3>2. ServicesTypeOK'
      BY <1>2, <3>1, MaxHandleAssumption DEF Terminate, ServicesInv, ServicesTypeOK, browserVars, At
    <3>3. StoppedStays' /\ EndingKnown'
      BY <1>2, <3>1 DEF Terminate, ServicesInv, ServicesTypeOK, StoppedStays, EndingKnown, Alive
    <3> QED
      BY <1>1, <1>2, <3>1, <3>2, <3>3, PagesAside DEF Terminate, Goes, At, ServicesInv
  <2>2. CASE h \in metadata /\ wrapper[h] = "reaped"
    <3>1. at' = [at EXCEPT ![t] = "stopped"] /\ UNCHANGED <<wrapper, child, handle>>
      BY <1>2, <2>2 DEF Terminate, Goes
    <3>2. ServicesTypeOK'
      BY <1>2, <3>1 DEF Terminate, ServicesInv, ServicesTypeOK, browserVars, At
    <3>3. StoppedStays' /\ EndingKnown'
      BY <1>2, <3>1 DEF Terminate, ServicesInv, ServicesTypeOK, StoppedStays, EndingKnown, Alive
    <3> QED
      BY <1>1, <1>2, <3>1, <3>2, <3>3, PagesAside DEF Terminate, Goes, At, ServicesInv
  <2>3. CASE h \in metadata /\ wrapper[h] # "reaped"
    <3>1. /\ at' = [at EXCEPT ![t] = "probing"] /\ UNCHANGED <<handle, stubborn>>
          /\ wrapper' = [wrapper EXCEPT ![h] = "zombie"]
          /\ child' = [child EXCEPT ![h] = child[h] /\ stubborn[h]]
      BY <1>2, <2>3 DEF Terminate, Goes
    <3> HIDE DEF h
    <3>2. (child[h] /\ stubborn[h]) \in BOOLEAN
      OBVIOUS
    <3>3. ServicesTypeOK'
      BY <1>1, <1>2, <3>1, <3>2 DEF Terminate, ServicesInv, ServicesTypeOK, browserVars, At
    <3>4. ASSUME NEW g \in Handle
          PROVE  /\ wrapper'[g] = "running" => wrapper[g] = "running"
                 /\ child'[g] => child[g]
      BY <1>1, <3>1 DEF ServicesInv, ServicesTypeOK
    <3>5. StoppedStays'
      BY <1>2, <3>4, Known DEF Terminate, ServicesInv, StoppedStays, Alive
    <3>6. wrapper'[h] # "running" /\ handle[t] = h
      BY <1>1, <3>1 DEF ServicesInv, ServicesTypeOK, h
    <3>7. EndingKnown'
      BY <1>1, <1>2, <3>1, <3>4, <3>6, Known DEF Terminate, ServicesInv, ServicesTypeOK, EndingKnown
    <3> QED
      BY <1>1, <1>2, <3>1, <3>3, <3>5, <3>7, PagesAside DEF Terminate, Goes, At, ServicesInv
  <2> QED
    BY <2>1, <2>2, <2>3
<1>3. CASE Probe(t)
  <2>1. PICK where \in {"stopped", "killing"} :
          /\ at' = [at EXCEPT ![t] = where] /\ handle' = handle
          /\ where = "stopped" => ~ child[h] /\ stopped' = stopped \cup {h}
          /\ where = "killing" => stopped' = stopped
    BY <1>3 DEF Probe, Goes
  <2>2. at[t] = "probing" /\ wrapper' = Reaped({h})
    BY <1>3 DEF Probe
  <2> HIDE DEF h
  <2>3. /\ wrapper' \in [Handle -> {"none", "running", "zombie", "reaped"}]
        /\ \A g \in Handle : wrapper'[g] = "running" <=> wrapper[g] = "running"
    BY <1>1, <2>2, Polling
  <2>4. ServicesTypeOK'
    BY <1>3, <2>1, <2>3 DEF Probe, ServicesInv, ServicesTypeOK, browserVars, At
  <2>5. StoppedStays'
    BY <1>1, <1>3, <2>1, <2>2, <2>3, Known DEF Probe, ServicesInv, StoppedStays, Alive
  <2>6. EndingKnown'
    BY <1>1, <1>3, <2>1, <2>2, <2>3, Known
    DEF Probe, ServicesInv, ServicesTypeOK, EndingKnown, h
  <2>7. PagesKnown'
    BY <1>1, <1>3, <2>1, PagesAside DEF Probe, Goes, At
  <2> QED
    BY <2>4, <2>5, <2>6, <2>7 DEF ServicesInv
<1>4. CASE Kill(t)
  <2>1. /\ at' = [at EXCEPT ![t] = "stopped"] /\ handle' = handle /\ stopped' = stopped
        /\ wrapper' = Reaped({h})
        /\ child' = [child EXCEPT ![h] = FALSE] \/ child' = child
    BY <1>4 DEF Kill, Goes
  <2> HIDE DEF h
  <2>2. /\ wrapper' \in [Handle -> {"none", "running", "zombie", "reaped"}]
        /\ \A g \in Handle : wrapper'[g] = "running" <=> wrapper[g] = "running"
    BY <1>1, <2>1, Polling
  <2>3. /\ child' \in [Handle -> BOOLEAN]
        /\ \A g \in Handle : child'[g] => child[g]
    BY <1>1, <2>1 DEF ServicesInv, ServicesTypeOK
  <2>4. ServicesTypeOK'
    BY <1>1, <1>4, <2>1, <2>2, <2>3 DEF Kill, ServicesInv, ServicesTypeOK, browserVars, At
  <2>5. StoppedStays'
    BY <1>1, <1>4, <2>1, <2>2, <2>3, Known DEF Kill, ServicesInv, StoppedStays, Alive
  <2>6. EndingKnown'
    BY <1>1, <1>4, <2>1, <2>2, Known DEF Kill, ServicesInv, ServicesTypeOK, EndingKnown
  <2>7. PagesKnown'
    BY <1>1, <1>4, <2>1, PagesAside DEF Kill, Goes, At
  <2> QED
    BY <2>4, <2>5, <2>6, <2>7 DEF ServicesInv
<1> QED
  BY <1>2, <1>3, <1>4

LEMMA ClearKeeps ==
  ASSUME ServicesInv, NEW t \in Thread, Clear(t)
  PROVE  ServicesInv'
<1>1. registry' \subseteq registry /\ at' = [at EXCEPT ![t] = "idle"] /\ ~ over
  BY Known DEF Clear, Goes
<1>2. ServicesTypeOK' /\ StoppedStays' /\ EndingKnown'
  BY <1>1 DEF Clear, ServicesInv, ServicesTypeOK, StoppedStays, EndingKnown, Alive, browserVars, At
<1> QED
  BY <1>1, <1>2, PagesAside DEF Clear, Goes, At, ServicesInv

\* The browser's calls: one BrowserSession, unless two were made at once.
LEMMA BrowserKeeps ==
  ASSUME ServicesInv,
         \/ \E t \in Thread : Browse(t)
         \/ \E t \in Thread : Make(t)
         \/ \E t \in Thread, what \in {"open", "close", "other"} : Dispatch(t, what)
         \/ CloseBrowser
  PROVE  ServicesInv'
<1>1. UNCHANGED processVars
  BY DEF Browse, Make, Dispatch, CloseBrowser
<1>2. ASSUME NEW t \in Thread, Browse(t)
      PROVE  ServicesInv'
  <2>1. PICK where \in {"making", "calling"} :
          /\ at' = [at EXCEPT ![t] = where] /\ (where = "calling" => session # 0)
          /\ ~ over /\ UNCHANGED <<browserVars, over>>
    BY <1>2 DEF Browse, Goes, Idle
  <2>2. ServicesTypeOK' /\ StoppedStays' /\ EndingKnown'
    BY <1>1, <2>1 DEF processVars, browserVars, ServicesInv, ServicesTypeOK, StoppedStays,
                      EndingKnown, Alive, At
  <2>3. PagesKnown'
    BY <2>1 DEF ServicesInv, ServicesTypeOK, PagesKnown, browserVars
  <2> QED
    BY <2>2, <2>3 DEF ServicesInv
<1>3. ASSUME NEW t \in Thread, Make(t)
      PROVE  ServicesInv'
  <2>1. /\ at' = [at EXCEPT ![t] = "calling"] /\ ~ over /\ over' = over
        /\ made' = made + 1 /\ session' = made + 1 /\ made + 1 \in Nat /\ made + 1 # 0
        /\ open_pages' = open_pages
    BY <1>3, Known DEF Make, Goes, ServicesInv, ServicesTypeOK
  <2>2. raced' <=> (raced \/ session # 0)
    BY <1>3 DEF Make
  <2>3. ServicesTypeOK' /\ StoppedStays' /\ EndingKnown'
    <3>1. raced' \in BOOLEAN
      BY <1>3 DEF Make
    <3> QED
      BY <1>1, <2>1, <3>1 DEF processVars, ServicesInv, ServicesTypeOK, StoppedStays,
                              EndingKnown, Alive, At
  <2>4. PagesKnown'
    BY <2>1, <2>2 DEF ServicesInv, ServicesTypeOK, PagesKnown
  <2> QED
    BY <2>3, <2>4 DEF ServicesInv
<1>4. ASSUME NEW t \in Thread, NEW what \in {"open", "close", "other"}, Dispatch(t, what)
      PROVE  ServicesInv'
  <2>1. /\ at' = [at EXCEPT ![t] = "idle"] /\ at[t] = "calling" /\ ~ over /\ over' = over
        /\ open_pages' \subseteq open_pages \cup {session}
        /\ session' = session /\ made' = made /\ raced' = raced
    BY <1>4, Known DEF Dispatch, Goes
  <2>2. ServicesTypeOK' /\ StoppedStays' /\ EndingKnown'
    BY <1>1, <2>1 DEF processVars, ServicesInv, ServicesTypeOK, StoppedStays,
                      EndingKnown, Alive, At
  <2>3. PagesKnown'
    BY <2>1 DEF ServicesInv, ServicesTypeOK, PagesKnown
  <2> QED
    BY <2>2, <2>3 DEF ServicesInv
<1>5. CASE CloseBrowser
  <2>1. ServicesTypeOK' /\ StoppedStays' /\ EndingKnown'
    BY <1>1, <1>5 DEF CloseBrowser, processVars, ServicesInv, ServicesTypeOK, StoppedStays,
                      EndingKnown, Alive
  <2>2. PagesKnown'
    BY <1>5 DEF CloseBrowser, ServicesInv, PagesKnown
  <2> QED
    BY <2>1, <2>2 DEF ServicesInv
<1> QED
  BY <1>2, <1>3, <1>4, <1>5

\* A process, or what it started, exits by itself; a snapshot reaps.
LEMMA AroundKeeps ==
  ASSUME ServicesInv, Around
  PROVE  ServicesInv'
<1>1. UNCHANGED <<next_id, registry, stubborn, handle, stopped, browserVars, at, over>>
  BY DEF Around, WrapperExits, ChildExits, Snapshot
<1>2. /\ wrapper' \in [Handle -> {"none", "running", "zombie", "reaped"}]
      /\ child' \in [Handle -> BOOLEAN]
      /\ \A h \in Handle : wrapper'[h] = "running" => wrapper[h] = "running"
      /\ \A h \in Handle : child'[h] => child[h]
  <2>1. CASE Snapshot
    BY <2>1, Polling, Known DEF Snapshot, ServicesInv, ServicesTypeOK
  <2>2. CASE \E h \in Handle : WrapperExits(h) \/ ChildExits(h)
    BY <2>2 DEF WrapperExits, ChildExits, ServicesInv, ServicesTypeOK
  <2> QED
    BY <2>1, <2>2 DEF Around
<1>3. ServicesTypeOK'
  BY <1>1, <1>2 DEF ServicesInv, ServicesTypeOK, browserVars
<1>4. StoppedStays' /\ EndingKnown'
  BY <1>1, <1>2, Known DEF ServicesInv, StoppedStays, EndingKnown, Alive
<1>5. PagesKnown'
  BY <1>1 DEF ServicesInv, PagesKnown, browserVars
<1> QED
  BY <1>3, <1>4, <1>5 DEF ServicesInv

\* What was ended is gone, for any number of episodes, of processes and of
\* calls: a process an answer called stopped has neither its wrapper nor its
\* child alive, whatever else polls, clears and starts meanwhile
\* (process_tools.py:159-214), and the session's end leaves no browser open
\* unless two episodes made one at once (browser_session.py:238-255).
THEOREM WhatEndedIsGone == ToolsSpec => []EndedIsGone
<1>1. ToolsInit => ServicesInv
  <2> SUFFICES ASSUME ServicesInit PROVE ServicesInv
    BY DEF ToolsInit
  <2>1. ServicesTypeOK
    <3>1. 0 \in 0 .. MaxHandle /\ 0 \in Nat
      BY MaxHandleAssumption
    <3>2. /\ next_id \in 0 .. MaxHandle /\ registry \subseteq 1 .. next_id
          /\ handle \in [Thread -> 0 .. MaxHandle] /\ made \in Nat
      BY <3>1 DEF ServicesInit, NoHandle
    <3>3. /\ wrapper \in [Handle -> {"none", "running", "zombie", "reaped"}]
          /\ child \in [Handle -> BOOLEAN] /\ stubborn \in [Handle -> BOOLEAN]
      BY DEF ServicesInit
    <3>4. at \in [Thread -> At] /\ over \in BOOLEAN /\ raced \in BOOLEAN
      BY DEF ServicesInit, At
    <3> QED
      BY <3>2, <3>3, <3>4 DEF ServicesTypeOK
  <2>2. StoppedStays /\ PagesKnown
    BY DEF ServicesInit, StoppedStays, PagesKnown
  <2>3. EndingKnown
    BY DEF ServicesInit, EndingKnown
  <2> QED
    BY <2>1, <2>2, <2>3 DEF ServicesInv
<1>2. ServicesInv /\ [ToolsNext]_toolVars => ServicesInv'
  <2> SUFFICES ASSUME ServicesInv, [ToolsNext]_toolVars
               PROVE  ServicesInv'
    OBVIOUS
  <2>1. CASE UNCHANGED serviceVars
    BY <2>1 DEF serviceVars, processVars, browserVars, ServicesInv, ServicesTypeOK, StoppedStays,
                EndingKnown, PagesKnown, Alive
  <2>2. ASSUME NEW t \in Thread, Begins(t) \/ GoesOn(t)
        PROVE  ServicesInv'
    BY <2>2, StartingKeeps, PollingKeeps, EndingKeeps, ClearKeeps, BrowserKeeps DEF Begins, GoesOn
  <2>3. CASE Around \/ CloseBrowser
    BY <2>3, AroundKeeps, BrowserKeeps
  <2> QED
    BY <2>1, <2>2, <2>3 DEF ToolsNext, ClaimOf, BeginOf, GoOnOf, Outside, toolVars
<1>3. ServicesInv => EndedIsGone
  BY DEF ServicesInv, StoppedStays, PagesKnown, EndedIsGone
<1> QED
  BY <1>1, <1>2, <1>3, PTL DEF ToolsSpec

---------------------------------------------------------------------------
(* LM Studio's models around a step (models_unloaded).                     *)

\* While they are out, those still to be loaded are on the list; a list is
\* only made and shortened by a step.
OutInv ==
  /\ wanted \subseteq loaded \union Lost \union todo
  /\ pc \in {"idle", "listed"} => todo = {}
  /\ Lost \intersect loaded = {}

\* Between two steps every model that was wanted is back.  One that is not has
\* not been there since lms could not load it, an unload failed midway, the
\* process was killed, or it was loaded between the list and the unload: for any
\* number of models, of steps, and of failures of Laya (lmstudio_control.py).
THEOREM ModelsComeBack == LMSpec => []ModelsBack
<1>1. LMInit => OutInv
  BY DEF LMInit, OutInv, Lost
<1>2. OutInv /\ [LMNext]_lmVars => OutInv'
  <2> SUFFICES ASSUME OutInv, [LMNext]_lmVars PROVE OutInv'
    OBVIOUS
  <2> USE DEF OutInv, Lost, losses
  <2>1. CASE Unmanaged \/ List \/ ListFails \/ NothingLoaded
    BY <2>1 DEF Unmanaged, List, ListFails, NothingLoaded
  <2>2. CASE Unload
    BY <2>2 DEF Unload
  <2>3. CASE UnloadFails
    BY <2>3 DEF UnloadFails
  <2>4. CASE StepEnds \/ StepOver
    BY <2>4 DEF StepEnds, StepOver
  <2>5. CASE Killed
    BY <2>5 DEF Killed
  <2>6. ASSUME NEW m \in Model, Reload(m) \/ SomeoneLoads(m) \/ SomeoneUnloads(m) PROVE OutInv'
    BY <2>6 DEF Reload, SomeoneLoads, SomeoneUnloads, Found
  <2>7. CASE UNCHANGED lmVars
    BY <2>7 DEF lmVars
  <2> QED BY <2>1, <2>2, <2>3, <2>4, <2>5, <2>6, <2>7 DEF LMNext
<1>3. OutInv => ModelsBack
  BY DEF OutInv, ModelsBack
<1> QED BY <1>1, <1>2, <1>3, PTL DEF LMSpec
=============================================================================
