---------------------------- MODULE Files_proofs ----------------------------
(***************************************************************************)
(* What holds of the files the program works on, for every set of files,   *)
(* names, sessions, leaves, cases and callers.  Of the code: the work of a *)
(* leaf that is done stays on disk, and no call of a planner's tool loses  *)
(* real code.  Of the evidence folder: two cases never keep the same       *)
(* picture as their screens, renames lose nothing, and what a person       *)
(* accepted keeps its answers.                                             *)
(***************************************************************************)
EXTENDS Workspace, Evidence, SequenceTheorems, FiniteSetTheorems, WellFoundedInduction, TLAPS

---------------------------------------------------------------------------
(* The code.                                                               *)

\* The names of a file that have real code.
Real(c) == {n \in Name : RealCode(c[n])}

\* A leaf's checkpoint is the place of one of its commits.
Checkpointed ==
  \A l \in Leaf : checkpoint[l] # 0 => chain[SessionOf[l]][checkpoint[l]].leaf = l

\* What nobody wrote since a session's last commit is on disk as it has it.
Committed ==
  \A s \in Session, f \in File :
    chain[s] # <<>> /\ f \notin edited[s] => files[f] = LastTree(s)[f]

\* Two texts of a file agree in its real code, where it can be seen.
Agree(c, d) == c = Broken \/ d = Broken \/ Real(c) = Real(d)

\* The calls nobody has overtaken.
Current == Calling \ overtaken

\* While a planner's tool has a text to write nobody works at a leaf.  A text
\* nobody has overtaken has the real code of its file, no more and no less, and
\* so do two such texts of one file.
CallsKeepCode ==
  /\ at # NoLeaf => Quiet
  /\ overtaken \subseteq Calling
  /\ \A t \in Current : Agree(call[t].text, files[call[t].file])
  /\ \A t, u \in Current :
       call[t].file = call[u].file => Agree(call[t].text, call[u].text)

WorkspaceInv == TypeOK /\ Checkpointed /\ Committed /\ CallsKeepCode

---------------------------------------------------------------------------
(* What the tools make of a file.                                          *)

LEMMA WhatIsParsed ==
  ASSUME NEW c \in Content
  PROVE  /\ Parsed(c) => c \in [Name -> Symbol]
         /\ ~ Parsed(c) => Real(c) = {}
         /\ Defined(c) \subseteq Name
<1>1. Real(Absent) = {} /\ Real(Broken) = {}
  BY DEF Real, RealCode, Absent, Broken
<1> QED
  BY <1>1 DEF Parsed, Content, Defined

\* A planner's tool leaves the same real code, or a file that doesn't parse.
LEMMA PlannerKeepsCode ==
  ASSUME NEW c \in Content, NEW d \in PlannerResults(c), d # Broken
  PROVE  d \in Content /\ Real(d) = Real(c) /\ c # Broken
<1>0. c # Broken
  <2> SUFFICES ASSUME c = Broken PROVE FALSE
    OBVIOUS
  <2>1. Defined(c) = {} /\ ~ OnlyStubs(c)
    BY DEF Defined, OnlyStubs, Parsed
  <2>2. \E new \in SUBSET Name : d = Scaffolded(c, new)
    BY <2>1 DEF PlannerResults, CanUnscaffold, CanMark
  <2>3. CASE c # Absent
    BY <2>2, <2>3 DEF Scaffolded
  <2>4. CASE c = Absent
    <3>1. ASSUME NEW n \in Name PROVE FALSE
      <4>1. Absent[n] = "absent" /\ Broken[n] = "broken"
        BY DEF Absent, Broken
      <4> QED
        BY <2>4, <4>1
    <3>2. \E e \in [Name -> {"stub", "none"}] : d = e \/ d = Broken \/ d = [n \in Name |-> c[n]]
      BY <2>2, <3>1 DEF Scaffolded, Broken
    <3> QED
      BY <3>1, <3>2 DEF Broken
  <2> QED
    BY <2>3, <2>4
<1>1. CASE \E new \in SUBSET Name : CanScaffold(c, new) /\ d = Scaffolded(c, new)
  <2>1. PICK new \in SUBSET Name : CanScaffold(c, new) /\ d = Scaffolded(c, new)
    BY <1>1
  <2>3. CASE c = Absent
    <3>1. d = [n \in Name |-> IF n \in new THEN "stub" ELSE "none"]
      BY <1>0, <2>1, <2>3 DEF Scaffolded
    <3>2. Real(d) = {} /\ d \in [Name -> Symbol]
      BY <3>1 DEF Real, RealCode, Symbol
    <3> QED
      BY <1>0, <2>3, <3>2, WhatIsParsed DEF Content, Parsed
  <2>4. CASE Parsed(c)
    <3>1. d = [n \in Name |-> IF n \in new THEN "stub" ELSE c[n]]
      BY <2>1, <2>4 DEF Scaffolded, Parsed
    <3>2. \A n \in new : c[n] = "none"
      BY <2>1, <2>4 DEF CanScaffold, Defined
    <3>3. Real(d) = Real(c)
      BY <3>1, <3>2 DEF Real, RealCode
    <3>4. d \in [Name -> Symbol]
      BY <2>4, <3>1, WhatIsParsed DEF Symbol
    <3> QED
      BY <1>0, <3>3, <3>4 DEF Content
  <2> QED
    BY <1>0, <2>3, <2>4 DEF Parsed
<1>2. CASE \E n \in Name : CanUnscaffold(c, n) /\ d = Unscaffolded(c, n)
  <2>1. PICK n \in Name : CanUnscaffold(c, n) /\ d = Unscaffolded(c, n)
    BY <1>2
  <2>2. c \in [Name -> Symbol] /\ ~ RealCode(c[n])
    BY <2>1, WhatIsParsed DEF CanUnscaffold, Defined, IsStub, RealCode
  <2>3. d \in [Name -> Symbol] /\ d[n] = "none" /\ \A m \in Name : m # n => d[m] = c[m]
    BY <2>1, <2>2 DEF Unscaffolded, Symbol
  <2>4. Real(d) = Real(c)
    BY <2>2, <2>3 DEF Real, RealCode
  <2> QED
    BY <1>0, <2>3, <2>4 DEF Content
<1>3. CASE \E n \in Name : CanMark(c, n) /\ d = Marked(c, n)
  <2>1. PICK n \in Name : CanMark(c, n) /\ d = Marked(c, n)
    BY <1>3
  <2>2. CASE ~ RealCode(c[n])
    BY <1>0, <2>1, <2>2 DEF Marked
  <2>3. CASE RealCode(c[n])
    <3>1. c \in [Name -> Symbol]
      BY <2>1, WhatIsParsed DEF CanMark, Defined
    <3>2. d \in [Name -> Symbol] /\ d[n] = "marked" /\ \A m \in Name : m # n => d[m] = c[m]
      BY <2>1, <2>3, <3>1 DEF Marked, Symbol
    <3>3. Real(d) = Real(c)
      BY <2>3, <3>2 DEF Real, RealCode
    <3> QED
      BY <1>0, <3>2, <3>3 DEF Content
  <2> QED
    BY <2>2, <2>3
<1>4. CASE d = Absent /\ OnlyStubs(c)
  <2>1. Real(c) = {}
    BY <1>4 DEF OnlyStubs, Defined, Real, IsStub, RealCode
  <2>2. Real(d) = {} /\ d \in Content
    BY <1>4 DEF Real, RealCode, Absent, Content
  <2> QED
    BY <1>0, <2>1, <2>2
<1> QED
  BY <1>0, <1>1, <1>2, <1>3, <1>4 DEF PlannerResults

\* What Dev and the person leave is a content.
LEMMA WrittenIsContent == Written \subseteq Content /\ Start \subseteq Content
BY WorkspaceAssumption DEF RewriteResults

---------------------------------------------------------------------------
(* Types.                                                                  *)

LEMMA TreeBefore ==
  ASSUME TypeOK, NEW s \in Session, NEW c \in 1 .. Len(chain[s])
  PROVE  Before(s, c) \in Tree /\ Changed(s, c) \subseteq File
<1>1. chain[s] \in Seq(Commit) /\ Len(chain[s]) \in Nat
  BY DEF TypeOK, GitTypeOK
<1>2. NoFiles \in Tree
  BY DEF NoFiles, Tree, Content
<1>3. CASE c # 1
  <2>1. c - 1 \in 1 .. Len(chain[s])
    BY <1>1, <1>3
  <2>2. chain[s][c - 1] \in Commit
    BY <1>1, <2>1
  <2> QED
    BY <1>3, <2>2 DEF Before, Commit, Changed
<1> QED
  BY <1>2, <1>3 DEF Before, Changed

LEMMA RestoreTyped ==
  ASSUME TypeOK, NEW s \in Session, NEW c \in 1 .. Len(chain[s]),
         NEW done \in SUBSET File, Restore(s, c, done)
  PROVE  GitTypeOK' /\ \A f \in File : f \notin done => files'[f] = files[f]
<1>1. Before(s, c) \in Tree
  BY TreeBefore
<1>2. files' \in Tree /\ \A f \in File : f \notin done => files'[f] = files[f]
  BY <1>1 DEF Restore, Tree, TypeOK, GitTypeOK
<1>3. index' \subseteq File
  BY DEF Restore, TypeOK, GitTypeOK
<1> QED
  BY <1>2, <1>3 DEF Restore, TypeOK, GitTypeOK

LEMMA WriteTyped ==
  ASSUME TypeOK, NEW f \in File, NEW c \in Content, Write(f, c)
  PROVE  /\ files' \in Tree /\ writes' \in 0 .. MaxWrites /\ edited' \in [Session -> SUBSET File]
         /\ files'[f] = c /\ \A g \in File : g # f => files'[g] = files[g]
         /\ \A s \in Session : edited'[s] = edited[s] \cup {f}
<1>1. writes' \in 0 .. MaxWrites
  BY WorkspaceAssumption DEF Write, TypeOK
<1>2. files \in Tree /\ files' = [files EXCEPT ![f] = c]
  BY DEF Write, TypeOK, GitTypeOK
<1>3. edited \in [Session -> SUBSET File] /\ edited' = [s \in Session |-> edited[s] \cup {f}]
  BY DEF Write, TypeOK
<1> QED
  BY <1>1, <1>2, <1>3 DEF Tree

\* A commit: the work tree is at the end of the session's chain.
LEMMA CommitTyped ==
  ASSUME TypeOK, NEW s \in Session, NEW l \in Leaf \cup {NoLeaf}, CommitFiles(s, l),
         UNCHANGED files
  PROVE  /\ GitTypeOK'
         /\ Len(chain'[s]) = Len(chain[s]) + 1
         /\ chain'[s][Len(chain[s]) + 1] = [leaf |-> l, tree |-> files]
         /\ \A k \in 1 .. Len(chain[s]) : chain'[s][k] = chain[s][k]
         /\ \A r \in Session : r # s => chain'[r] = chain[r]
<1>1. /\ chain \in [Session -> Seq(Commit)] /\ chain[s] \in Seq(Commit) /\ Len(chain[s]) \in Nat
      /\ \A r \in Session : Len(chain[r]) <= MaxCommits
      /\ files \in Tree
  BY DEF TypeOK, GitTypeOK
<1> DEFINE new == [leaf |-> l, tree |-> files]
<1>2. new \in Commit
  BY <1>1 DEF Commit
<1>3. chain' = [chain EXCEPT ![s] = Append(chain[s], new)] /\ Len(chain[s]) < MaxCommits
  BY DEF CommitFiles
<1>4. index' \subseteq File /\ files' \in Tree
  BY <1>1 DEF CommitFiles, OnDisk
<1> HIDE DEF new
<1>5. /\ Append(chain[s], new) \in Seq(Commit) /\ Len(Append(chain[s], new)) = Len(chain[s]) + 1
      /\ Append(chain[s], new)[Len(chain[s]) + 1] = new
      /\ \A k \in 1 .. Len(chain[s]) : Append(chain[s], new)[k] = chain[s][k]
  BY <1>1, <1>2
<1>6. /\ chain' \in [Session -> Seq(Commit)] /\ chain'[s] = Append(chain[s], new)
      /\ \A r \in Session : r # s => chain'[r] = chain[r]
  BY <1>1, <1>3, <1>5
<1>7. \A r \in Session : Len(chain'[r]) <= MaxCommits
  BY <1>1, <1>3, <1>5, <1>6, CheckpointAssumption
<1>8. GitTypeOK'
  BY <1>4, <1>6, <1>7 DEF GitTypeOK
<1> QED
  BY <1>5, <1>6, <1>8 DEF new

---------------------------------------------------------------------------
(* What is on disk.                                                        *)

LEMMA WriteStays ==
  ASSUME TypeOK, Committed, NEW f \in File, NEW c \in Content, Write(f, c), UNCHANGED chain
  PROVE  Committed'
<1> SUFFICES ASSUME NEW s \in Session, NEW g \in File, chain[s] # <<>>, g \notin edited'[s]
             PROVE  files'[g] = LastTree(s)'[g]
  BY DEF Committed
<1>1. g \notin edited[s] /\ g # f /\ files'[g] = files[g]
  BY WriteTyped
<1>2. files[g] = LastTree(s)[g]
  BY <1>1 DEF Committed
<1> QED
  BY <1>1, <1>2 DEF LastTree

LEMMA CommitStays ==
  ASSUME TypeOK, Committed, Checkpointed, NEW s \in Session, NEW l \in Leaf \cup {NoLeaf},
         CommitFiles(s, l), UNCHANGED files, edited' = [edited EXCEPT ![s] = {}],
         \/ UNCHANGED checkpoint
         \/ /\ l \in Leaf /\ s = SessionOf[l]
            /\ checkpoint' = [checkpoint EXCEPT ![l] = Len(chain'[s])]
  PROVE  /\ Committed' /\ Checkpointed' /\ edited' \in [Session -> SUBSET File]
         /\ checkpoint' \in [Leaf -> Nat]
         /\ \A k \in Leaf : checkpoint'[k] <= Len(chain'[SessionOf[k]])
<1>1. /\ Len(chain'[s]) = Len(chain[s]) + 1 /\ Len(chain[s]) \in Nat
      /\ chain'[s][Len(chain[s]) + 1] = [leaf |-> l, tree |-> files]
      /\ \A k \in 1 .. Len(chain[s]) : chain'[s][k] = chain[s][k]
      /\ \A r \in Session : r # s => chain'[r] = chain[r]
  BY CommitTyped DEF TypeOK, GitTypeOK
<1>2. edited \in [Session -> SUBSET File]
  BY DEF TypeOK
<1>3. /\ checkpoint \in [Leaf -> Nat] /\ SessionOf \in [Leaf -> Session]
      /\ \A k \in Leaf : checkpoint[k] <= Len(chain[SessionOf[k]])
      /\ \A r \in Session : Len(chain[r]) \in Nat
  BY CheckpointAssumption DEF TypeOK, GitTypeOK
<1>4. Committed'
  <2> SUFFICES ASSUME NEW r \in Session, NEW f \in File, chain'[r] # <<>>, f \notin edited'[r]
               PROVE  files'[f] = LastTree(r)'[f]
    BY DEF Committed
  <2>1. CASE r = s
    <3>1. LastTree(r)' = files
      BY <1>1, <2>1 DEF LastTree
    <3> QED
      BY <3>1
  <2>2. CASE r # s
    <3>1. chain'[r] = chain[r] /\ f \notin edited[r]
      BY <1>1, <1>2, <2>2
    <3> QED
      BY <3>1 DEF Committed, LastTree
  <2> QED
    BY <2>1, <2>2
<1>5. ASSUME NEW k \in Leaf, checkpoint'[k] = checkpoint[k]
      PROVE  /\ checkpoint'[k] <= Len(chain'[SessionOf[k]])
             /\ checkpoint'[k] # 0 => chain'[SessionOf[k]][checkpoint'[k]].leaf = k
  <2>1. /\ checkpoint[k] \in Nat /\ checkpoint[k] <= Len(chain[SessionOf[k]])
        /\ SessionOf[k] \in Session
    BY <1>3
  <2>2. checkpoint[k] # 0 =>
          chain'[SessionOf[k]][checkpoint[k]] = chain[SessionOf[k]][checkpoint[k]]
    BY <1>1, <2>1
  <2> QED
    BY <1>1, <1>5, <2>1, <2>2 DEF Checkpointed
<1>6. CASE UNCHANGED checkpoint
  BY <1>2, <1>3, <1>4, <1>5, <1>6 DEF Checkpointed
<1>7. CASE /\ l \in Leaf /\ s = SessionOf[l]
           /\ checkpoint' = [checkpoint EXCEPT ![l] = Len(chain'[s])]
  <2>1. /\ checkpoint' \in [Leaf -> Nat] /\ checkpoint'[l] = Len(chain[s]) + 1
        /\ \A k \in Leaf : k # l => checkpoint'[k] = checkpoint[k]
    BY <1>1, <1>3, <1>7
  <2>2. chain'[SessionOf[l]][checkpoint'[l]].leaf = l
    BY <1>1, <1>7, <2>1
  <2>3. checkpoint'[l] <= Len(chain'[SessionOf[l]])
    BY <1>1, <1>7, <2>1
  <2> QED
    BY <1>2, <1>4, <1>5, <2>1, <2>2, <2>3 DEF Checkpointed
<1> QED
  BY <1>6, <1>7

\* The commit a leaf's revert may take back is the last one that changed its
\* files.
LEMMA RevertsTheLast ==
  ASSUME TypeOK, NEW s \in Session, NEW c \in 1 .. Len(chain[s]), CanRevert(s, c),
         NEW f \in Changed(s, c)
  PROVE  LastChange(s, f) = c
<1> DEFINE at_f == {d \in 1 .. Len(chain[s]) : f \in Changed(s, d)}
<1>1. Len(chain[s]) \in Nat /\ c \in at_f
  BY DEF TypeOK, GitTypeOK
<1>2. \A d \in at_f : d <= c
  <2>1. ASSUME NEW d \in at_f, ~ (d <= c) PROVE FALSE
    <3>1. d \in c + 1 .. Len(chain[s])
      BY <1>1, <2>1
    <3>2. d \in LaterLeaves(s, c)
      BY <2>1, <3>1 DEF LaterLeaves
    <3> QED
      BY <3>2 DEF CanRevert
  <2> QED
    BY <2>1
<1>3. \A d \in at_f : (\A e \in at_f : e <= d) => d = c
  BY <1>1, <1>2
<1>4. LastChange(s, f) = CHOOSE d \in at_f : \A e \in at_f : e <= d
  BY <1>1 DEF LastChange
<1> HIDE DEF at_f
<1>5. (CHOOSE d \in at_f : \A e \in at_f : e <= d) = c
  BY <1>1, <1>2, <1>3, Zenon
<1> QED
  BY <1>4, <1>5

LEMMA RevertStays ==
  ASSUME TypeOK, Committed, Checkpointed, NEW l \in Leaf, checkpoint[l] # 0,
         CanRevert(SessionOf[l], checkpoint[l]),
         NEW done \in SUBSET Changed(SessionOf[l], checkpoint[l]),
         Restore(SessionOf[l], checkpoint[l], done), edited' = PutBack(l, done)
  PROVE  Committed' /\ GitTypeOK' /\ edited' \in [Session -> SUBSET File]
<1> DEFINE s == SessionOf[l]  c == checkpoint[l]
<1>1. s \in Session /\ c \in 1 .. Len(chain[s]) /\ edited \in [Session -> SUBSET File]
  BY CheckpointAssumption DEF TypeOK, GitTypeOK
<1>2. done \subseteq File /\ chain' = chain
  BY <1>1, TreeBefore DEF Restore
<1>3. GitTypeOK' /\ \A f \in File : f \notin done => files'[f] = files[f]
  BY <1>1, <1>2, RestoreTyped
<1>4. \A f \in done : chain[s][LastChange(s, f)].leaf = l
  <2>1. \A f \in done : LastChange(s, f) = c
    BY <1>1, RevertsTheLast
  <2> QED
    BY <2>1 DEF Checkpointed
<1>5. \A r \in Session : edited'[r] = edited[r] \cup done
  BY <1>4 DEF PutBack
<1>6. edited' \in [Session -> SUBSET File]
  BY <1>1, <1>2 DEF PutBack
<1>7. Committed'
  <2> SUFFICES ASSUME NEW r \in Session, NEW f \in File, chain'[r] # <<>>, f \notin edited'[r]
               PROVE  files'[f] = LastTree(r)'[f]
    BY DEF Committed
  <2>1. f \notin edited[r] /\ files'[f] = files[f]
    BY <1>3, <1>5
  <2> QED
    BY <1>2, <2>1 DEF Committed, LastTree
<1> QED
  BY <1>3, <1>6, <1>7

---------------------------------------------------------------------------
(* The steps.                                                              *)

LEMMA InitWorkspace == Init => WorkspaceInv
<1> SUFFICES ASSUME Init PROVE WorkspaceInv
  OBVIOUS
<1>1. GitTypeOK
  <2>1. files \in Tree
    BY WrittenIsContent DEF Init, Tree
  <2>2. <<>> \in Seq(Commit) /\ Len(<<>>) = 0 /\ 0 <= MaxCommits
    BY CheckpointAssumption
  <2> QED
    BY <2>1, <2>2 DEF Init, GitInit, GitTypeOK
<1>2. /\ checkpoint \in [Leaf -> Nat] /\ \A l \in Leaf : checkpoint[l] <= Len(chain[SessionOf[l]])
  <2>1. \A l \in Leaf : chain[SessionOf[l]] = <<>> /\ Len(<<>>) = 0
    BY CheckpointAssumption DEF Init, GitInit
  <2> QED
    BY <2>1 DEF Init
<1>3. TypeOK
  BY <1>1, <1>2, WorkspaceAssumption DEF Init, TypeOK
<1>4. Checkpointed /\ CallsKeepCode
  BY DEF Init, Checkpointed, CallsKeepCode, Calling, Current
<1>5. Committed
  BY DEF Init, GitInit, Committed
<1> QED
  BY <1>3, <1>4, <1>5 DEF WorkspaceInv

\* A step that writes nothing.
LEMMA NothingWritten ==
  ASSUME WorkspaceInv, UNCHANGED <<gitVars, checkpoint, edited>>
  PROVE  /\ Committed' /\ Checkpointed' /\ GitTypeOK' /\ edited' \in [Session -> SUBSET File]
         /\ checkpoint' \in [Leaf -> Nat]
         /\ \A l \in Leaf : checkpoint'[l] <= Len(chain'[SessionOf[l]])
BY DEF WorkspaceInv, TypeOK, GitTypeOK, gitVars, Committed, Checkpointed, LastTree

LEMMA OpenKeeps ==
  ASSUME WorkspaceInv, NEW s \in Session, OpenSession(s)
  PROVE  WorkspaceInv'
<1>0. TypeOK /\ Committed /\ Checkpointed /\ CallsKeepCode
  BY DEF WorkspaceInv
<1>1. CallsKeepCode'
  BY <1>0 DEF CallsKeepCode, Quiet, Calling, Current, OpenSession, leafVars
<1>2. CASE CommitFiles(s, NoLeaf)
  <2>1. chain'[s] # chain[s]
    <3>1. Len(chain'[s]) = Len(chain[s]) + 1 /\ UNCHANGED files
      BY <1>0, <1>2, CommitTyped DEF OpenSession
    <3>2. Len(chain[s]) \in Nat
      BY <1>0 DEF TypeOK, GitTypeOK
    <3> QED
      BY <3>1, <3>2
  <2>2. edited' = [edited EXCEPT ![s] = {}]
    BY <2>1 DEF OpenSession
  <2>3. GitTypeOK'
    BY <1>0, <1>2, CommitTyped DEF OpenSession
  <2> QED
    BY <1>0, <1>1, <1>2, <2>2, <2>3, CommitStays DEF OpenSession, WorkspaceInv, TypeOK, leafVars
<1>3. CASE UNCHANGED <<index, chain>>
  <2>1. edited' = edited
    BY <1>0, <1>3 DEF OpenSession, TypeOK
  <2> QED
    BY <1>0, <1>1, <1>3, <2>1, NothingWritten
    DEF OpenSession, WorkspaceInv, TypeOK, leafVars, gitVars
<1> QED
  BY <1>2, <1>3 DEF OpenSession, EnsureBaseline, CommitFails

LEMMA PlannerReadKeeps ==
  ASSUME WorkspaceInv, NEW t \in Thread, NEW f \in File, PlannerReads(t, f)
  PROVE  WorkspaceInv'
<1>0. TypeOK /\ Committed /\ Checkpointed /\ CallsKeepCode
  BY DEF WorkspaceInv
<1>1. files[f] \in Content /\ call \in [Thread -> {NoCall} \cup [file : File, text : Content]]
  BY <1>0 DEF TypeOK, GitTypeOK, Tree
<1>2. PICK c \in PlannerResults(files[f]) : call' = [call EXCEPT ![t] = [file |-> f, text |-> c]]
  BY DEF PlannerReads
<1>3. c \in Content /\ Agree(c, files[f]) /\ (files[f] = Broken => c = Broken)
  BY <1>1, PlannerKeepsCode DEF Agree, Content
<1>4. call' \in [Thread -> {NoCall} \cup [file : File, text : Content]]
  BY <1>1, <1>2, <1>3
<1>5. /\ call'[t] = [file |-> f, text |-> c]
      /\ \A u \in Thread : u # t => call'[u] = call[u]
  BY <1>1, <1>2
<1>6. /\ UNCHANGED <<gitVars, open, leafVars, historyVars>>
      /\ t \notin Calling /\ at = NoLeaf
  BY DEF PlannerReads, Calling
<1>7. Calling' \subseteq Calling \cup {t} /\ Calling \subseteq Calling'
  BY <1>5, <1>6 DEF Calling
<1>8. \A u \in Current' : u = t \/ (u \in Current /\ call'[u] = call[u])
  BY <1>5, <1>6, <1>7 DEF Current, Calling, historyVars
<1>9. \A u \in Current : call[u].file = f => Agree(call[u].text, c)
  BY <1>0, <1>3 DEF CallsKeepCode, Agree
<1>10. CallsKeepCode'
  <2>1. overtaken' \subseteq Calling' /\ at' = NoLeaf
    BY <1>0, <1>6, <1>7 DEF CallsKeepCode, historyVars, leafVars
  <2>2. \A u \in Current' : Agree(call'[u].text, files'[call'[u].file])
    BY <1>0, <1>3, <1>5, <1>6, <1>8 DEF CallsKeepCode, gitVars
  <2>3. ASSUME NEW u \in Current', NEW v \in Current', call'[u].file = call'[v].file
        PROVE  Agree(call'[u].text, call'[v].text)
    <3>1. CASE u = t /\ v = t
      BY <3>1 DEF Agree
    <3>2. CASE u = t /\ v # t
      BY <1>5, <1>8, <1>9, <2>3, <3>2 DEF Agree
    <3>3. CASE u # t /\ v = t
      BY <1>5, <1>8, <1>9, <2>3, <3>3 DEF Agree
    <3>4. CASE u # t /\ v # t
      BY <1>0, <1>8, <2>3, <3>4 DEF CallsKeepCode
    <3> QED
      BY <3>1, <3>2, <3>3, <3>4
  <2> QED
    BY <2>1, <2>2, <2>3 DEF CallsKeepCode
<1> QED
  BY <1>0, <1>4, <1>6, <1>10, NothingWritten
  DEF WorkspaceInv, TypeOK, gitVars, leafVars, historyVars

\* What a planner's tool writes: the text it had ready, and nothing else.
LEMMA PlannerWritten ==
  ASSUME TypeOK, NEW t \in Thread, PlannerWrites(t)
  PROVE  /\ call[t] \in [file : File, text : Content] /\ t \in Calling
         /\ files'[call[t].file] = call[t].text
         /\ \A g \in File : g # call[t].file => files'[g] = files[g]
<1>1. call[t] \in [file : File, text : Content] /\ t \in Calling
  BY DEF PlannerWrites, TypeOK, Calling
<1>2. CASE Write(call[t].file, call[t].text)
  BY <1>1, <1>2, WriteTyped
<1>3. CASE call[t].text = files[call[t].file] /\ UNCHANGED files
  BY <1>1, <1>3
<1> QED
  BY <1>1, <1>2, <1>3 DEF PlannerWrites

LEMMA PlannerWriteKeeps ==
  ASSUME WorkspaceInv, NEW t \in Thread, PlannerWrites(t)
  PROVE  WorkspaceInv'
<1>0. TypeOK /\ Committed /\ Checkpointed /\ CallsKeepCode
  BY DEF WorkspaceInv
<1> DEFINE f == call[t].file  c == call[t].text
<1>1. /\ call[t] \in [file : File, text : Content] /\ t \in Calling
      /\ files'[f] = c /\ \A g \in File : g # f => files'[g] = files[g]
  BY <1>0, PlannerWritten
<1>2. f \in File /\ c \in Content /\ at = NoLeaf
  BY <1>0, <1>1 DEF CallsKeepCode, Quiet
<1>3. call \in [Thread -> {NoCall} \cup [file : File, text : Content]]
  BY <1>0 DEF TypeOK
<1>4. /\ call' \in [Thread -> {NoCall} \cup [file : File, text : Content]]
      /\ call'[t] = NoCall /\ \A u \in Thread : u # t => call'[u] = call[u]
  BY <1>3 DEF PlannerWrites
<1>5. Calling' = Calling \ {t}
  BY <1>4 DEF Calling
<1>6. overtaken' = (overtaken \cup IF t \in overtaken THEN At(f) ELSE {}) \ {t}
  BY DEF PlannerWrites
<1>7. overtaken' \subseteq Calling' /\ overtaken' \subseteq Thread
  BY <1>0, <1>5, <1>6 DEF CallsKeepCode, At, Calling
<1>8. \A u \in Current' : u \in Current /\ u # t /\ call'[u] = call[u] /\ call[u].file \in File
  BY <1>3, <1>4, <1>5, <1>6 DEF Current, Calling
<1>9. ASSUME NEW u \in Current'
      PROVE  Agree(call[u].text, files'[call[u].file])
  <2>1. u \in Current /\ u \in Calling /\ call[u].file \in File
    BY <1>8 DEF Current
  <2>2. CASE call[u].file # f
    BY <1>0, <1>1, <2>1, <2>2 DEF CallsKeepCode
  <2>3. CASE call[u].file = f
    <3>1. u \in At(f)
      BY <2>1, <2>3 DEF At
    <3>2. t \in Current
      BY <1>1, <1>5, <1>6, <1>8, <3>1 DEF Current
    <3> QED
      BY <1>0, <1>1, <2>1, <2>3, <3>2 DEF CallsKeepCode
  <2> QED
    BY <2>2, <2>3
<1>10. CallsKeepCode'
  <2>1. at' = NoLeaf
    BY <1>2 DEF PlannerWrites, leafVars
  <2>2. \A u \in Current' : Agree(call'[u].text, files'[call'[u].file])
    BY <1>8, <1>9
  <2>3. \A u, v \in Current' :
          call'[u].file = call'[v].file => Agree(call'[u].text, call'[v].text)
    BY <1>0, <1>8 DEF CallsKeepCode
  <2> QED
    BY <1>7, <2>1, <2>2, <2>3 DEF CallsKeepCode
<1>11. CASE Write(f, c)
  <2>1. Committed'
    BY <1>0, <1>2, <1>11, WriteStays DEF PlannerWrites
  <2>2. files' \in Tree /\ writes' \in 0 .. MaxWrites /\ edited' \in [Session -> SUBSET File]
    BY <1>0, <1>2, <1>11, WriteTyped
  <2> HIDE DEF f, c
  <2> QED
    BY <1>0, <1>4, <1>7, <1>10, <2>1, <2>2
    DEF PlannerWrites, WorkspaceInv, TypeOK, GitTypeOK, Checkpointed, leafVars
<1>12. CASE UNCHANGED <<files, writes, edited>>
  <2> HIDE DEF f, c
  <2> QED
    BY <1>0, <1>4, <1>7, <1>10, <1>12, NothingWritten
    DEF PlannerWrites, WorkspaceInv, TypeOK, leafVars, gitVars
<1> QED
  BY <1>11, <1>12 DEF PlannerWrites

\* Dev writes while no planner's tool is at work, a person at any time.
LEMMA OthersKeep ==
  ASSUME WorkspaceInv, NEW f \in File, DevWrites(f) \/ PersonWrites(f)
  PROVE  WorkspaceInv'
<1>0. TypeOK /\ Committed /\ Checkpointed /\ CallsKeepCode
  BY DEF WorkspaceInv
<1>1. PICK c \in Written : Write(f, c)
  BY DEF DevWrites, PersonWrites
<1>2. c \in Content /\ UNCHANGED <<index, chain, open, leafVars, call, half>>
  BY <1>1, WrittenIsContent DEF DevWrites, PersonWrites
<1>3. Committed'
  BY <1>0, <1>1, <1>2, WriteStays
<1>4. /\ files' \in Tree /\ writes' \in 0 .. MaxWrites /\ edited' \in [Session -> SUBSET File]
      /\ \A g \in File : g # f => files'[g] = files[g]
  BY <1>0, <1>1, <1>2, WriteTyped
<1>5. Calling' = Calling
  BY <1>2 DEF Calling
<1>6. overtaken' \subseteq Calling' /\ overtaken \subseteq overtaken'
  BY <1>0, <1>5 DEF CallsKeepCode, DevWrites, PersonWrites, At
<1>7. \A u \in Current' : u \in Current /\ call[u].file # f /\ call[u].file \in File
  <2>1. CASE DevWrites(f)
    BY <1>0, <1>5, <2>1 DEF CallsKeepCode, DevWrites, Quiet, Current
  <2>2. CASE PersonWrites(f)
    BY <1>0, <1>5, <1>6, <2>2 DEF PersonWrites, Current, At, Calling, TypeOK
  <2> QED
    BY <2>1, <2>2
<1>8. CallsKeepCode'
  <2>1. at' # NoLeaf => Quiet'
    BY <1>0, <1>2, <1>5 DEF CallsKeepCode, Quiet, leafVars
  <2>2. \A u \in Current' : Agree(call'[u].text, files'[call'[u].file])
    BY <1>0, <1>2, <1>4, <1>7 DEF CallsKeepCode
  <2>3. \A u, v \in Current' :
          call'[u].file = call'[v].file => Agree(call'[u].text, call'[v].text)
    BY <1>0, <1>2, <1>7 DEF CallsKeepCode
  <2> QED
    BY <1>6, <2>1, <2>2, <2>3 DEF CallsKeepCode
<1>9. overtaken' \subseteq Thread
  BY <1>5, <1>6 DEF Calling
<1> QED
  BY <1>0, <1>2, <1>3, <1>4, <1>8, <1>9
  DEF WorkspaceInv, TypeOK, GitTypeOK, Checkpointed, leafVars

LEMMA FinishKeeps ==
  ASSUME WorkspaceInv, FinishLeaf \/ DieInFinishLeaf
  PROVE  WorkspaceInv'
<1>0. TypeOK /\ Committed /\ Checkpointed /\ CallsKeepCode
  BY DEF WorkspaceInv
<1>1. Quiet /\ at \in Leaf /\ SessionOf[at] \in Session /\ at \in Leaf \cup {NoLeaf}
  BY <1>0, CheckpointAssumption DEF FinishLeaf, DieInFinishLeaf, CallsKeepCode, TypeOK
<1>2. CallsKeepCode'
  <2>1. Calling' = {} /\ overtaken' = {}
    BY <1>0, <1>1 DEF FinishLeaf, DieInFinishLeaf, CallsKeepCode, Quiet, Calling
  <2> QED
    BY <2>1 DEF CallsKeepCode, Quiet, Current
<1>3. /\ status' \in [Leaf -> {"todo", "done"}] /\ half' \subseteq Leaf
      /\ at' \in Leaf \cup {NoLeaf}
      /\ open' \in Session \cup {NoSession} /\ writes' \in 0 .. MaxWrites
      /\ call' = call /\ files' = files /\ overtaken' = overtaken
  BY <1>0, <1>1 DEF FinishLeaf, DieInFinishLeaf, TypeOK
<1>4. CASE /\ CommitFiles(SessionOf[at], at)
           /\ edited' = [edited EXCEPT ![SessionOf[at]] = {}]
           /\ \/ UNCHANGED checkpoint
              \/ checkpoint' = [checkpoint EXCEPT ![at] = Len(chain'[SessionOf[at]])]
  <2>1. GitTypeOK'
    BY <1>0, <1>1, <1>3, <1>4, CommitTyped
  <2>2. /\ Committed' /\ Checkpointed' /\ edited' \in [Session -> SUBSET File]
        /\ checkpoint' \in [Leaf -> Nat]
        /\ \A k \in Leaf : checkpoint'[k] <= Len(chain'[SessionOf[k]])
    BY <1>0, <1>1, <1>3, <1>4, CommitStays
  <2> QED
    BY <1>0, <1>2, <1>3, <2>1, <2>2 DEF WorkspaceInv, TypeOK
<1>5. CASE UNCHANGED <<index, chain, checkpoint, edited>>
  BY <1>0, <1>2, <1>3, <1>5, NothingWritten DEF WorkspaceInv, TypeOK, gitVars
<1> QED
  BY <1>4, <1>5 DEF FinishLeaf, DieInFinishLeaf, CommitFails

LEMMA ReviewKeeps ==
  ASSUME WorkspaceInv, NEW l \in Leaf, ReopenLeaf(l) \/ RevertLeaf(l) \/ RevertFails(l)
  PROVE  WorkspaceInv'
<1>0. TypeOK /\ Committed /\ Checkpointed /\ CallsKeepCode
  BY DEF WorkspaceInv
<1>1. /\ Quiet /\ UNCHANGED <<at, call, open, writes, checkpoint, overtaken>>
      /\ status' \in [Leaf -> {"todo", "done"}] /\ half' \subseteq Leaf
  BY <1>0 DEF ReopenLeaf, RevertLeaf, RevertFails, Reviewing, TypeOK, leafVars, historyVars
<1>2. CallsKeepCode'
  <2>1. Calling' = {} /\ overtaken' = {}
    BY <1>0, <1>1 DEF ReopenLeaf, RevertLeaf, RevertFails, CallsKeepCode, Quiet, Calling,
                       historyVars
  <2> QED
    BY <2>1 DEF CallsKeepCode, Quiet, Current
<1>3. CASE ReopenLeaf(l)
  BY <1>0, <1>1, <1>2, <1>3, NothingWritten
  DEF ReopenLeaf, WorkspaceInv, TypeOK, gitVars, historyVars
<1>4. CASE RevertLeaf(l) \/ RevertFails(l)
  <2>1. PICK done \in SUBSET Changed(SessionOf[l], checkpoint[l]) :
          Restore(SessionOf[l], checkpoint[l], done) /\ edited' = PutBack(l, done)
    BY <1>4 DEF RevertLeaf, RevertFails
  <2>2. checkpoint[l] # 0 /\ CanRevert(SessionOf[l], checkpoint[l])
    BY <1>4 DEF RevertLeaf, RevertFails
  <2>3. Committed' /\ GitTypeOK' /\ edited' \in [Session -> SUBSET File]
    BY <1>0, <2>1, <2>2, RevertStays
  <2>4. chain' = chain
    BY <2>1 DEF Restore
  <2> QED
    BY <1>0, <1>1, <1>2, <2>3, <2>4 DEF WorkspaceInv, TypeOK, Checkpointed
<1> QED
  BY <1>3, <1>4

THEOREM WorkspaceSteps ==
  ASSUME WorkspaceInv, [Next]_vars
  PROVE  WorkspaceInv'
<1>0. TypeOK /\ Committed /\ Checkpointed /\ CallsKeepCode
  BY DEF WorkspaceInv
<1>1. CASE CloseSession \/ LeaveLeaf \/ UNCHANGED vars
  <2>1. UNCHANGED <<gitVars, status, checkpoint, call, historyVars>>
    BY <1>1 DEF CloseSession, LeaveLeaf, vars, leafVars
  <2>2. /\ at' \in {at, NoLeaf} /\ open' \in {open, NoSession}
    BY <1>1 DEF CloseSession, LeaveLeaf, vars, leafVars
  <2>3. CallsKeepCode'
    BY <1>0, <2>1, <2>2 DEF CallsKeepCode, Quiet, Calling, Current, gitVars, historyVars
  <2> QED
    BY <1>0, <2>1, <2>2, <2>3, NothingWritten DEF WorkspaceInv, TypeOK, historyVars
<1>2. ASSUME NEW l \in Leaf, StartLeaf(l)
      PROVE  WorkspaceInv'
  <2>1. CallsKeepCode'
    BY <1>0, <1>2 DEF CallsKeepCode, Quiet, Calling, Current, StartLeaf, gitVars, historyVars
  <2> QED
    BY <1>0, <1>2, <2>1, NothingWritten DEF StartLeaf, WorkspaceInv, TypeOK, historyVars
<1> QED
  BY <1>1, <1>2, OpenKeeps, PlannerReadKeeps, PlannerWriteKeeps, OthersKeep, FinishKeeps,
     ReviewKeeps DEF Next

---------------------------------------------------------------------------
(* Theorems.                                                               *)

THEOREM WorkspaceAlways == Spec => []WorkspaceInv
<1>1. Init => WorkspaceInv
  BY InitWorkspace
<1>2. WorkspaceInv /\ [Next]_vars => WorkspaceInv'
  BY WorkspaceSteps
<1> QED
  BY <1>1, <1>2, PTL DEF Spec

\* What a finished leaf built stays on disk, whatever else is reverted.
THEOREM WorkStaysOnDisk == Spec => []DoneWorkOnDisk
<1>1. WorkspaceInv => DoneWorkOnDisk
  <2> SUFFICES ASSUME WorkspaceInv, NEW s \in Session, NEW f \in File,
                      LastChange(s, f) # 0, f \notin edited[s]
               PROVE  files[f] = LastTree(s)[f]
    BY DEF DoneWorkOnDisk
  <2>1. chain[s] # <<>>
    BY DEF LastChange
  <2> QED
    BY <2>1 DEF WorkspaceInv, Committed
<1> QED
  BY <1>1, WorkspaceAlways, PTL

\* A planner's tool leaves the real code of every file: with any number of tools at
\* it, as long as no person wrote the file since this one read it, or its new text
\* does not parse.
THEOREM CodeIsKept == Spec => RealCodeKept
<1> DEFINE A == \A t \in Thread : PlannerWrites(t) /\ t \notin overtaken =>
       \A f \in File : Parsed(files[f]) =>
         \A n \in Name : RealCode(files[f][n]) =>
           \/ Parsed(files'[f]) /\ RealCode(files'[f][n])
           \/ f = call[t].file /\ files'[f] = Broken
<1>1. WorkspaceInv /\ [Next]_vars => A
  <2> SUFFICES ASSUME WorkspaceInv, WorkspaceInv', NEW t \in Thread, PlannerWrites(t),
                      t \notin overtaken, NEW f \in File, Parsed(files[f]),
                      NEW n \in Name, RealCode(files[f][n])
               PROVE  \/ Parsed(files'[f]) /\ RealCode(files'[f][n])
                      \/ f = call[t].file /\ files'[f] = Broken
    BY WorkspaceSteps
  <2>1. TypeOK /\ CallsKeepCode
    BY DEF WorkspaceInv
  <2>2. /\ t \in Current /\ files'[call[t].file] = call[t].text
        /\ f # call[t].file => files'[f] = files[f]
    BY <2>1, PlannerWritten DEF Current
  <2>3. CASE f # call[t].file
    BY <2>2, <2>3
  <2>4. CASE f = call[t].file
    <3>1. Agree(files'[f], files[f]) /\ files[f] # Broken
      BY <2>1, <2>2, <2>4 DEF CallsKeepCode, Parsed
    <3>2. CASE files'[f] = Broken
      BY <2>4, <3>2
    <3>3. CASE Real(files'[f]) = Real(files[f])
      <4>1. n \in Real(files'[f])
        BY <3>3 DEF Real
      <4>2. files'[f] \in Content
        BY DEF WorkspaceInv, TypeOK, GitTypeOK, Tree
      <4> QED
        BY <4>1, <4>2, WhatIsParsed DEF Real
    <3> QED
      BY <3>1, <3>2, <3>3 DEF Agree
  <2> QED
    BY <2>3, <2>4
<1> HIDE DEF A
<1>2. Spec => [][A]_vars
  BY <1>1, WorkspaceAlways, PTL DEF Spec
<1> QED
  BY <1>2 DEF RealCodeKept, A

---------------------------------------------------------------------------
(* The evidence folder.                                                    *)

\* A call t of the jobs j has the name of such a file of c in hand.
HoldsOf(j, t, c, s) == j[t].at \in Holding /\ j[t].path.case = c /\ j[t].path.suffix = s

\* What holds of the files d, the jobs j and the kinds of files m that were
\* crossed.  A case has one file of a kind at most, and who has its name in
\* hand has the right one.
Single(d, c, s) == \A f, g \in Of(d, c, s) : f = g
Settled(d, j, c, s) ==
  /\ Single(d, c, s)
  /\ \A t \in Caller : HoldsOf(j, t, c, s) => j[t].path = EvidencePath(d, c, s)
AllSettled(d, j, m) == \A c \in Case, s \in Suffix : <<c, s>> \notin m => Settled(d, j, c, s)

\* The picture of c is its screen, or is about to be: it was looked at.
Checking(j, c) == \E t \in Caller : j[t].at = "check" /\ j[t].path.case = c
Saves(j, t, c) == j[t].at = "save" /\ j[t].path.case = c /\ j[t].path.suffix = "json"
Picture(d, c) == d[Find(d, c, "png")]
SpecIs(d, c) == Found(d, c, "json") /\ d[Find(d, c, "json")].source = "screenshot"
Claimed(d, j, c) ==
  /\ Found(d, c, "png") /\ ~ Checking(j, c)
  /\ \A t \in Caller : Saves(j, t, c) => j[t].data.source = "screenshot"
  /\ (\E t \in Caller : Saves(j, t, c)) \/ SpecIs(d, c)

\* The screens of two cases differ once both were looked at.
Clean(m, c) == <<c, "png">> \notin m /\ <<c, "json">> \notin m
Apart(d, j, m) ==
  \A c, e \in Case :
    (c # e /\ Clean(m, c) /\ Clean(m, e) /\ Claimed(d, j, c) /\ Claimed(d, j, e))
    => Picture(d, c) # Picture(d, e)

\* What a file holds is of its kind.
Kinds(d) == DOMAIN d \subseteq FileName /\ \A f \in DOMAIN d : d[f] \in Data(f.suffix)

FolderOK(d, j, m) == Kinds(d) /\ AllSettled(d, j, m) /\ Apart(d, j, m)

EvidenceInv == EvidenceTypeOK /\ FolderOK(disk, job, crossed)

---------------------------------------------------------------------------
(* Names.                                                                  *)

LEMMA LeastNumber ==
  ASSUME NEW S \in SUBSET Nat, S # {}
  PROVE  \E n \in S : \A m \in S : n <= m
<1> DEFINE less == OpToRel(<, Nat)
<1>1. IsWellFoundedOn(less, Nat)
  BY NatLessThanWellFounded, Zenon
<1>2. \A x, y \in Nat : <<y, x>> \in less <=> y < x
  BY SMT DEF OpToRel
<1> HIDE DEF less
<1>3. PICK n \in S : \A m \in S : ~ (<<m, n>> \in less)
  BY <1>1, WFMin, Zenon
<1>4. ASSUME NEW m \in S PROVE n <= m
  <2>1. n \in Nat /\ m \in Nat /\ ~ (m < n)
    BY <1>2, <1>3
  <2> QED
    BY <2>1
<1> QED
  BY <1>4

LEMMA OfIs ==
  ASSUME NEW d, DOMAIN d \subseteq FileName, NEW c, NEW s
  PROVE  /\ \A f \in Of(d, c, s) : f \in DOMAIN d /\ f \in FileName /\ f.case = c /\ f.suffix = s
         /\ \A f, g \in Of(d, c, s) : f.number = g.number => f = g
BY DEF Of, FileName

\* What is found is one of the files.
LEMMA FindFinds ==
  ASSUME NEW d, DOMAIN d \subseteq FileName, NEW c, NEW s, Found(d, c, s)
  PROVE  Find(d, c, s) \in Of(d, c, s)
<1> DEFINE names == Of(d, c, s)
           Less(f, g) == IF f.number = 0 THEN FALSE ELSE g.number = 0 \/ f.number < g.number
<1>1. \E f \in names : \A g \in names \ {f} : Less(f, g)
  <2> DEFINE numbers == {f.number : f \in names} \ {0}
  <2>1. \A f \in names : f.number \in Nat
    BY OfIs, EvidenceAssumption DEF FileName, Number
  <2>2. CASE numbers = {}
    <3>1. \A f \in names : f.number = 0
      BY <2>2
    <3>2. \A f, g \in names : f = g
      BY <3>1, OfIs
    <3> QED
      BY <3>2 DEF Found
  <2>3. CASE numbers # {}
    <3>1. numbers \in SUBSET Nat
      BY <2>1
    <3>2. PICK n \in numbers : \A m \in numbers : n <= m
      <4> HIDE DEF numbers
      <4> QED
        BY <2>3, <3>1, LeastNumber
    <3>3. PICK f \in names : f.number = n
      BY <3>2
    <3>4. ASSUME NEW g \in names \ {f} PROVE Less(f, g)
      <4>1. g.number # n
        BY <3>3, OfIs
      <4>2. g.number \in Nat /\ n \in Nat /\ n # 0
        BY <2>1, <3>2
      <4>3. g.number = 0 \/ n <= g.number
        BY <3>2
      <4> QED
        BY <3>3, <4>1, <4>2, <4>3
    <3> QED
      BY <3>4
  <2> QED
    BY <2>2, <2>3
<1>2. Find(d, c, s) = CHOOSE f \in names : \A g \in names \ {f} : Less(f, g)
  BY DEF Find, First
<1> HIDE DEF names, Less
<1>3. Find(d, c, s) \in names
  BY <1>1, <1>2, Zenon
<1> QED
  BY <1>3 DEF names

\* The only file is the one found.
LEMMA FindOnly ==
  \A d, c, s, f :
    Of(d, c, s) = {f} => Found(d, c, s) /\ Find(d, c, s) = f /\ EvidencePath(d, c, s) = f
<1> SUFFICES ASSUME NEW d, NEW c, NEW s, NEW f, Of(d, c, s) = {f}
             PROVE  Found(d, c, s) /\ Find(d, c, s) = f /\ EvidencePath(d, c, s) = f
  OBVIOUS
<1>1. Find(d, c, s) = f
  <2>1. \A g \in {f} \ {f} : IF f.number = 0 THEN FALSE ELSE g.number = 0 \/ f.number < g.number
    OBVIOUS
  <2> DEFINE P(h) == \A g \in {f} \ {h} :
                       IF h.number = 0 THEN FALSE ELSE g.number = 0 \/ h.number < g.number
  <2>2. Find(d, c, s) = CHOOSE h \in {f} : P(h)
    BY DEF Find, First
  <2>3. P(f)
    BY <2>1
  <2> HIDE DEF P
  <2>4. (CHOOSE h \in {f} : P(h)) \in {f}
    BY <2>3, Zenon
  <2> QED
    BY <2>2, <2>4
<1> QED
  BY <1>1 DEF Found, EvidencePath

LEMMA PathIs ==
  ASSUME NEW d, DOMAIN d \subseteq FileName, NEW c \in Case, NEW s \in Suffix
  PROVE  /\ EvidencePath(d, c, s) \in FileName
         /\ EvidencePath(d, c, s).case = c /\ EvidencePath(d, c, s).suffix = s
         /\ Found(d, c, s) => EvidencePath(d, c, s) \in Of(d, c, s)
<1>1. CASE Found(d, c, s)
  BY <1>1, FindFinds, OfIs DEF EvidencePath
<1>2. CASE ~ Found(d, c, s)
  BY <1>2, EvidenceAssumption DEF EvidencePath, Named, FileName, Number
<1> QED
  BY <1>1, <1>2

---------------------------------------------------------------------------
(* Writing a file.                                                         *)

LEMMA PutIs ==
  \A d, p, x :
         /\ DOMAIN Put(d, p, x) = DOMAIN d \cup {p}
         /\ Put(d, p, x)[p] = x
         /\ \A f \in DOMAIN d : f # p => Put(d, p, x)[f] = d[f]
BY DEF Put

\* A file of another case or kind changes nothing for this one.
LEMMA PutElsewhere ==
  \A d, p, x, c, s :
    p.case # c \/ p.suffix # s =>
      /\ Of(Put(d, p, x), c, s) = Of(d, c, s)
      /\ EvidencePath(Put(d, p, x), c, s) = EvidencePath(d, c, s)
<1> SUFFICES ASSUME NEW d, NEW p, NEW x, NEW c, NEW s, p.case # c \/ p.suffix # s
             PROVE  /\ Of(Put(d, p, x), c, s) = Of(d, c, s)
                    /\ EvidencePath(Put(d, p, x), c, s) = EvidencePath(d, c, s)
  OBVIOUS
<1>0. /\ DOMAIN Put(d, p, x) = DOMAIN d \cup {p}
      /\ \A f \in DOMAIN d : f # p => Put(d, p, x)[f] = d[f]
  BY DEF Put
<1>1. Of(Put(d, p, x), c, s) = Of(d, c, s)
  BY <1>0 DEF Of
<1> QED
  BY <1>1 DEF EvidencePath, Found, Find

\* A file written where its case has it, or is to have it.
LEMMA PutInPlace ==
  ASSUME NEW d, DOMAIN d \subseteq FileName, NEW c \in Case, NEW s \in Suffix, NEW x
  PROVE  LET p == EvidencePath(d, c, s)  e == Put(d, p, x)
         IN /\ EvidencePath(e, c, s) = p
            /\ p \in Of(e, c, s) /\ Of(e, c, s) = Of(d, c, s) \cup {p}
            /\ Single(d, c, s) => Of(e, c, s) = {p}
<1> DEFINE p == EvidencePath(d, c, s)  e == Put(d, p, x)
<1>1. p \in FileName /\ p.case = c /\ p.suffix = s /\ (Found(d, c, s) => p \in Of(d, c, s))
  BY PathIs
<1>2. Of(e, c, s) = Of(d, c, s) \cup {p}
  <2>1. DOMAIN e = DOMAIN d \cup {p}
    BY PutIs
  <2> HIDE DEF e, p
  <2> QED
    BY <1>1, <2>1 DEF Of
<1>3. CASE Found(d, c, s)
  <2>1. Of(e, c, s) = Of(d, c, s)
    BY <1>1, <1>2, <1>3
  <2>2. EvidencePath(e, c, s) = p
    BY <1>3, <2>1 DEF EvidencePath, Found, Find
  <2>3. Single(d, c, s) => Of(e, c, s) = {p}
    BY <1>1, <1>3, <2>1 DEF Single
  <2> QED
    BY <1>1, <1>2, <2>2, <2>3
<1>4. CASE ~ Found(d, c, s)
  <2>1. Of(e, c, s) = {p}
    BY <1>2, <1>4 DEF Found
  <2> QED
    BY <1>2, <2>1, FindOnly
<1> QED
  BY <1>3, <1>4

---------------------------------------------------------------------------
(* Types.                                                                  *)

LEMMA DataIs ==
  /\ Data("txt") = Text /\ Data("png") = Shot /\ Data("json") = PageSpec
  /\ Data("result") = Result
BY DEF Data

LEMMA PutKinds ==
  ASSUME NEW d, Kinds(d), NEW p \in FileName, NEW x \in Data(p.suffix)
  PROVE  Kinds(Put(d, p, x))
BY DEF Kinds, Put

LEMMA JobIs ==
  ASSUME NEW k \in Job
  PROVE  /\ k.at \in {"idle", "rerun", "shoot", "check", "save", "sync", "rename"}
         /\ k.at \in Holding => k.path \in FileName
         /\ k.at = "rerun" => k.path.suffix = "txt" /\ k.read \in Text
         /\ k.at = "shoot" => k.path.suffix = "png"
         /\ k.at = "check" => k.path.suffix = "png" /\ k.text \in Screen \cup {NoText}
         /\ k.at = "save" => /\ k.data \in Data(k.path.suffix) /\ k.sync \in BOOLEAN
                            /\ k.path.suffix # "png"
         /\ k.at = "sync" => k.left \in SUBSET Rename
         /\ k.at = "rename" => k.left \in SUBSET Rename /\ k.next \in Rename
<1>1. CASE k \in {Idle} \cup [at : {"sync"}, left : SUBSET Rename]
                 \cup [at : {"rename"}, left : SUBSET Rename, next : Rename]
  BY <1>1 DEF Idle, Holding
<1>2. CASE k \in [at : {"rerun"}, path : FilesOf("txt"), read : Text]
  BY <1>2 DEF Holding, FilesOf, FileName, Suffix
<1>3. CASE k \in [at : {"shoot"}, path : FilesOf("png")]
  BY <1>3 DEF Holding, FilesOf, FileName, Suffix
<1>4. CASE k \in [at : {"check"}, path : FilesOf("png"), text : Screen \cup {NoText}]
  BY <1>4 DEF Holding, FilesOf, FileName, Suffix
<1>5. CASE \E s \in Suffix \ {"png"} : k \in SaveJob(s)
  BY <1>5 DEF Holding, SaveJob, FilesOf, FileName
<1> QED
  BY <1>1, <1>2, <1>3, <1>4, <1>5 DEF Job, Held

LEMMA SaveIs ==
  ASSUME NEW p \in FileName, p.suffix # "png", NEW x \in Data(p.suffix), NEW b \in BOOLEAN
  PROVE  /\ Save(p, x, b) \in Job
         /\ Save(p, x, b).at = "save" /\ Save(p, x, b).path = p /\ Save(p, x, b).data = x
<1>1. p.suffix \in Suffix /\ p \in FilesOf(p.suffix)
  BY DEF FileName, FilesOf
<1>2. Save(p, x, b) \in SaveJob(p.suffix)
  BY <1>1 DEF Save, SaveJob
<1>3. Save(p, x, b) \in Job
  BY <1>1, <1>2 DEF Job, Held
<1> QED
  BY <1>3 DEF Save

LEMMA RestIs ==
  ASSUME NEW left \in SUBSET Rename
  PROVE  Rest(left) \in Job /\ Rest(left).at \in {"idle", "sync"}
BY DEF Rest, Job, Idle

LEMMA OutdatedIs ==
  ASSUME NEW d, DOMAIN d \subseteq FileName, owner \in [Case -> Number]
  PROVE  Outdated(d) \in SUBSET Rename
<1>1. ASSUME NEW f \in DOMAIN d PROVE [file |-> f, to |-> owner[f.case]] \in Rename
  <2>1. f \in FileName
    OBVIOUS
  <2>2. f.case \in Case
    BY <2>1 DEF FileName
  <2> QED
    BY <2>1, <2>2 DEF Rename
<1> QED
  BY <1>1 DEF Outdated

LEMMA SpecTyped ==
  \A text \in Screen \cup {NoText}, source \in {"screenshot", "image", "none"} :
    /\ PageSpecOf(text, source) \in Data("json")
    /\ PageSpecOf(text, source).source = source
BY DataIs DEF PageSpecOf, PageSpec

LEMMA SaveSpecIs ==
  ASSUME NEW d, DOMAIN d \subseteq FileName, NEW c \in Case, NEW text \in Screen \cup {NoText},
         NEW source \in {"screenshot", "image", "none"}
  PROVE  LET k == SaveSpec(d, c, text, source)
         IN /\ k \in Job /\ k.at = "save" /\ k.path = EvidencePath(d, c, "json")
            /\ k.path.case = c /\ k.path.suffix = "json" /\ k.data.source = source
<1> DEFINE p == EvidencePath(d, c, "json")
<1>1. p \in FileName /\ p.case = c /\ p.suffix = "json"
  BY PathIs DEF Suffix
<1> HIDE DEF p
<1>2. PageSpecOf(text, source) \in Data(p.suffix) /\ PageSpecOf(text, source).source = source
  BY <1>1, SpecTyped
<1> DEFINE x == PageSpecOf(text, source)
<1>3. SaveSpec(d, c, text, source) = Save(p, x, TRUE)
  BY DEF SaveSpec, p
<1> HIDE DEF x
<1>4. x \in Data(p.suffix) /\ x.source = source
  BY <1>2 DEF x
<1>5. /\ Save(p, x, TRUE) \in Job /\ Save(p, x, TRUE).at = "save"
      /\ Save(p, x, TRUE).path = p /\ Save(p, x, TRUE).data = x
  BY <1>1, <1>4, SaveIs
<1>6. p = EvidencePath(d, c, "json")
  BY DEF p
<1> QED
  BY <1>1, <1>3, <1>4, <1>5, <1>6

---------------------------------------------------------------------------
(* What keeps the parts of the invariant.                                  *)

\* A file written at the name its case has, or is to have, for it.
LEMMA PutKeepsNames ==
  ASSUME NEW d, DOMAIN d \subseteq FileName, NEW p \in FileName, NEW x, NEW c \in Case,
         NEW s \in Suffix, Single(d, c, s),
         p.case = c /\ p.suffix = s => p = EvidencePath(d, c, s)
  PROVE  /\ Single(Put(d, p, x), c, s)
         /\ EvidencePath(Put(d, p, x), c, s) = EvidencePath(d, c, s)
<1>1. CASE p.case = c /\ p.suffix = s
  <2>1. Of(Put(d, p, x), c, s) = {p} /\ EvidencePath(Put(d, p, x), c, s) = p
    BY <1>1, PutInPlace
  <2> QED
    BY <1>1, <2>1 DEF Single
<1>2. CASE ~ (p.case = c /\ p.suffix = s)
  <2>1. /\ Of(Put(d, p, x), c, s) = Of(d, c, s)
        /\ EvidencePath(Put(d, p, x), c, s) = EvidencePath(d, c, s)
    BY <1>2, PutElsewhere
  <2> QED
    BY <2>1 DEF Single
<1> QED
  BY <1>1, <1>2

\* A file of another case or kind leaves what is found here.
LEMMA PutLeaves ==
  ASSUME NEW d, DOMAIN d \subseteq FileName, NEW p, NEW x, NEW c \in Case, NEW s \in Suffix,
         p.case # c \/ p.suffix # s
  PROVE  /\ Found(Put(d, p, x), c, s) <=> Found(d, c, s)
         /\ Found(d, c, s) => Put(d, p, x)[Find(Put(d, p, x), c, s)] = d[Find(d, c, s)]
<1>1. Of(Put(d, p, x), c, s) = Of(d, c, s)
  BY PutElsewhere
<1>2. Found(Put(d, p, x), c, s) <=> Found(d, c, s)
  BY <1>1 DEF Found
<1>3. Find(Put(d, p, x), c, s) = Find(d, c, s)
  BY <1>1 DEF Find
<1>4. ASSUME Found(d, c, s) PROVE Put(d, p, x)[Find(d, c, s)] = d[Find(d, c, s)]
  <2>1. Find(d, c, s) \in Of(d, c, s)
    BY <1>4, FindFinds
  <2>2. Find(d, c, s) \in DOMAIN d /\ Find(d, c, s) # p
    BY <2>1, OfIs
  <2> QED
    BY <2>2, PutIs
<1> QED
  BY <1>2, <1>3, <1>4

\* From the jobs j to i only the call of t goes on.
Others(j, i, t) == \A u \in Caller : u # t => i[u] = j[u]

\* From the files d to e the names stay that another call has in hand, and
\* the one of t is right.
NamesStay(d, e, m, n, j, i, t) ==
  \A c \in Case, s \in Suffix : <<c, s>> \notin n =>
    /\ <<c, s>> \notin m /\ Single(e, c, s)
    /\ (\E u \in Caller \ {t} : HoldsOf(j, u, c, s))
         => EvidencePath(e, c, s) = EvidencePath(d, c, s)
    /\ HoldsOf(i, t, c, s) => i[t].path = EvidencePath(e, c, s)

LEMMA SettledFrom ==
  \A d, e, m, n, j, i, t :
    AllSettled(d, j, m) /\ Others(j, i, t) /\ NamesStay(d, e, m, n, j, i, t) => AllSettled(e, i, n)
<1> SUFFICES ASSUME NEW d, NEW e, NEW m, NEW n, NEW j, NEW i, NEW t, AllSettled(d, j, m),
                    Others(j, i, t), NamesStay(d, e, m, n, j, i, t),
                    NEW c \in Case, NEW s \in Suffix, <<c, s>> \notin n
             PROVE  Settled(e, i, c, s)
  BY DEF AllSettled
<1>0. Single(e, c, s)
  BY DEF NamesStay
<1> SUFFICES ASSUME NEW u \in Caller, HoldsOf(i, u, c, s)
             PROVE  i[u].path = EvidencePath(e, c, s)
  BY <1>0 DEF Settled
<1>1. CASE u = t
  BY <1>1 DEF NamesStay
<1>2. CASE u # t
  <2>1. HoldsOf(j, u, c, s) /\ i[u] = j[u]
    BY <1>2 DEF HoldsOf, Others
  <2>2. <<c, s>> \notin m /\ EvidencePath(e, c, s) = EvidencePath(d, c, s)
    BY <1>2, <2>1 DEF NamesStay
  <2>3. j[u].path = EvidencePath(d, c, s)
    BY <2>1, <2>2 DEF AllSettled, Settled
  <2> QED
    BY <2>1, <2>2, <2>3
<1> QED
  BY <1>1, <1>2

\* No case is claimed anew, and no claimed picture changes.
LEMMA ApartFrom ==
  ASSUME NEW d, NEW e, NEW m, NEW n, NEW j, NEW i, Apart(d, j, m),
         \A c \in Case : Clean(n, c) /\ Claimed(e, i, c) =>
           Clean(m, c) /\ Claimed(d, j, c) /\ Picture(e, c) = Picture(d, c)
  PROVE  Apart(e, i, n)
BY DEF Apart

\* What remains to be shown of a step.
LEMMA InvFrom ==
  ASSUME FolderOK(disk', job', crossed'), crossed' \subseteq Case \X Suffix,
         job' \in [Caller -> Job], owner' \in [Case -> Number], evidenceOne' \in BOOLEAN,
         truth' \in Value, changes' \in 0 .. MaxChanges
  PROVE  EvidenceInv'
<1>1. FolderOK(disk, job, crossed)'
  BY DEF FolderOK, Kinds, AllSettled, Settled, Single, HoldsOf, EvidencePath, Apart, Clean, Claimed,
         SpecIs, Saves, Picture, Checking, Found, Find, Of
<1>2. EvidenceTypeOK'
  BY DEF EvidenceTypeOK, FolderOK, Kinds
<1> QED
  BY <1>1, <1>2 DEF EvidenceInv

LEMMA ChangeTyped ==
  ASSUME EvidenceTypeOK, Change
  PROVE  changes' \in 0 .. MaxChanges
<1>1. changes \in 0 .. MaxChanges
  BY DEF EvidenceTypeOK
<1> QED
  BY <1>1, EvidenceAssumption DEF Change

---------------------------------------------------------------------------
(* The invariant, one step at a time.                                      *)

LEMMA EvidenceBegins ==
  ASSUME EvidenceInit
  PROVE  EvidenceInv
<1>1. DOMAIN disk = {}
  BY DEF EvidenceInit
<1>2. EvidenceTypeOK
  <2>1. job \in [Caller -> Job] /\ owner \in [Case -> Number] /\ crossed \subseteq Case \X Suffix
    BY EvidenceAssumption DEF EvidenceInit, Job, Idle, Number
  <2>2. changes \in 0 .. MaxChanges
    BY EvidenceAssumption DEF EvidenceInit
  <2> QED
    BY <1>1, <2>1, <2>2 DEF EvidenceInit, EvidenceTypeOK
<1>3. \A t \in Caller : job[t].at = "idle"
  BY DEF EvidenceInit, Idle
<1>4. \A c, s : Of(disk, c, s) = {}
  BY <1>1 DEF Of
<1>5. Kinds(disk)
  BY <1>1 DEF Kinds
<1>6. AllSettled(disk, job, crossed)
  BY <1>3, <1>4 DEF AllSettled, Settled, Single, HoldsOf, Holding
<1>7. Apart(disk, job, crossed)
  BY <1>4 DEF Apart, Claimed, Found
<1> QED
  BY <1>2, <1>5, <1>6, <1>7 DEF EvidenceInv, FolderOK

\* What the invariant says of a call.
LEMMA CallIs ==
  ASSUME EvidenceInv, NEW t \in Caller
  PROVE  /\ job[t] \in Job /\ job \in [Caller -> Job]
         /\ Kinds(disk) /\ DOMAIN disk \subseteq FileName
         /\ AllSettled(disk, job, crossed) /\ Apart(disk, job, crossed)
         /\ owner \in [Case -> Number] /\ crossed \subseteq Case \X Suffix
         /\ job[t].at \in Holding /\ <<job[t].path.case, job[t].path.suffix>> \notin crossed =>
              job[t].path = EvidencePath(disk, job[t].path.case, job[t].path.suffix)
<1>1. /\ job[t] \in Job /\ job \in [Caller -> Job] /\ Kinds(disk) /\ DOMAIN disk \subseteq FileName
      /\ AllSettled(disk, job, crossed) /\ Apart(disk, job, crossed)
      /\ owner \in [Case -> Number] /\ crossed \subseteq Case \X Suffix
  BY DEF EvidenceInv, EvidenceTypeOK, FolderOK, Kinds
<1>2. ASSUME job[t].at \in Holding, <<job[t].path.case, job[t].path.suffix>> \notin crossed
      PROVE  job[t].path = EvidencePath(disk, job[t].path.case, job[t].path.suffix)
  <2>1. job[t].path.case \in Case /\ job[t].path.suffix \in Suffix
    BY <1>1, <1>2, JobIs DEF FileName
  <2> QED
    BY <1>1, <1>2, <2>1 DEF AllSettled, Settled, HoldsOf
<1> QED
  BY <1>1, <1>2

\* A call that was neither looking at a picture nor about to save goes on,
\* with nothing of a picture to save, and the folder stays.
LEMMA CallGoesOn ==
  ASSUME EvidenceInv, NEW t \in Caller, NEW k \in Job, job' = [job EXCEPT ![t] = k],
         job[t].at \notin {"check", "save"},
         ~ (k.at = "save" /\ k.path.suffix = "json"),
         k.at \in Holding /\ <<k.path.case, k.path.suffix>> \notin crossed
           => k.path = EvidencePath(disk, k.path.case, k.path.suffix),
         disk' = disk, crossed' = crossed, owner' = owner, evidenceOne' = evidenceOne,
         truth' = truth, changes' \in 0 .. MaxChanges
  PROVE  EvidenceInv'
<1>1. /\ job[t] \in Job /\ job \in [Caller -> Job] /\ Kinds(disk)
      /\ AllSettled(disk, job, crossed) /\ Apart(disk, job, crossed)
      /\ owner \in [Case -> Number] /\ crossed \subseteq Case \X Suffix
  BY CallIs
<1>2. job' \in [Caller -> Job] /\ job'[t] = k /\ \A u \in Caller : u # t => job'[u] = job[u]
  BY <1>1
<1>3. AllSettled(disk, job', crossed)
  <2>1. ASSUME NEW c \in Case, NEW s \in Suffix, <<c, s>> \notin crossed
        PROVE  /\ Single(disk, c, s)
               /\ HoldsOf(job', t, c, s) => job'[t].path = EvidencePath(disk, c, s)
    <3>1. Single(disk, c, s)
      BY <1>1, <2>1 DEF AllSettled, Settled
    <3>2. HoldsOf(job', t, c, s) => job'[t].path = EvidencePath(disk, c, s)
      BY <1>2, <2>1 DEF HoldsOf
    <3> QED
      BY <3>1, <3>2
  <2>2. NamesStay(disk, disk, crossed, crossed, job, job', t)
    BY <2>1 DEF NamesStay
  <2>3. Others(job, job', t)
    BY <1>2 DEF Others
  <2> QED
    BY <1>1, <2>2, <2>3, SettledFrom
<1>4. Apart(disk, job', crossed)
  <2>1. ASSUME NEW c \in Case, Claimed(disk, job', c) PROVE Claimed(disk, job, c)
    <3>1. Checking(job, c) => Checking(job', c)
      BY <1>2 DEF Checking
    <3>2. \A u \in Caller : Saves(job', u, c) <=> Saves(job, u, c)
      BY <1>2 DEF Saves
    <3>3. \A u \in Caller : Saves(job, u, c) => job'[u].data = job[u].data
      BY <1>2 DEF Saves
    <3> QED
      BY <2>1, <3>1, <3>2, <3>3 DEF Claimed
  <2> QED
    BY <1>1, <2>1, ApartFrom
<1>5. FolderOK(disk', job', crossed')
  BY <1>1, <1>3, <1>4 DEF FolderOK
<1>6. evidenceOne' \in BOOLEAN /\ truth' \in Value
  BY DEF EvidenceInv, EvidenceTypeOK
<1> QED
  BY <1>1, <1>2, <1>5, <1>6, InvFrom

\* A call begins to save a file of another kind.
LEMMA SaveBegins ==
  ASSUME EvidenceInv, NEW t \in Caller, NEW p \in FileName, p.suffix \notin {"json", "png"},
         p = EvidencePath(disk, p.case, p.suffix), NEW x \in Data(p.suffix), NEW b \in BOOLEAN,
         Begin(t, Save(p, x, b)), disk' = disk, crossed' = crossed, owner' = owner,
         evidenceOne' = evidenceOne, truth' = truth, changes' \in 0 .. MaxChanges
  PROVE  EvidenceInv'
<1> DEFINE k == Save(p, x, b)
<1>1. k \in Job /\ k.at = "save" /\ k.path = p
  BY SaveIs
<1>2. job' = [job EXCEPT ![t] = k] /\ job[t].at = "idle"
  BY DEF Begin, Idle
<1> HIDE DEF k
<1> QED
  BY <1>1, <1>2, CallGoesOn

LEMMA CaptureTextKeeps ==
  ASSUME EvidenceInv, NEW t \in Caller, NEW c \in Case, CaptureText(t, c)
  PROVE  EvidenceInv'
<1> DEFINE p == EvidencePath(disk, c, "txt")
<1>1. EvidenceTypeOK /\ DOMAIN disk \subseteq FileName
  BY DEF EvidenceInv, EvidenceTypeOK
<1>2. p \in FileName /\ p.case = c /\ p.suffix = "txt"
  BY <1>1, PathIs DEF Suffix
<1>3. p = EvidencePath(disk, p.case, p.suffix)
  BY <1>2
<1>4. PICK v \in Value, fromFile \in BOOLEAN :
        \E data \in Captured(v, fromFile) : Begin(t, Save(p, data, TRUE))
  BY DEF CaptureText
<1>5. PICK data \in Captured(v, fromFile) : Begin(t, Save(p, data, TRUE))
  BY <1>4
<1>6. data \in Text
  <2>1. truth \in Value /\ evidenceOne \in BOOLEAN
    BY <1>1 DEF EvidenceTypeOK
  <2>2. PICK w \in Value, source \in {"file", "command", "llm"}, how \in BOOLEAN :
          data = NewText(w, source, how, source)
    BY <2>1 DEF Captured
  <2> QED
    BY <2>2 DEF NewText, Text, Source
<1>7. /\ disk' = disk /\ crossed' = crossed /\ owner' = owner /\ evidenceOne' = evidenceOne
      /\ truth' = truth /\ changes' \in 0 .. MaxChanges
  BY <1>1, ChangeTyped DEF CaptureText
<1> HIDE DEF p
<1>8. data \in Data(p.suffix)
  BY <1>2, <1>6, DataIs
<1> QED
  BY <1>2, <1>3, <1>5, <1>7, <1>8, SaveBegins

LEMMA CompareCaseKeeps ==
  ASSUME EvidenceInv, NEW t \in Caller, NEW c \in Case, CompareCase(t, c)
  PROVE  EvidenceInv'
<1> DEFINE p == EvidencePath(disk, c, "result")
           x == [compared |-> TRUE]
<1>1. EvidenceTypeOK /\ DOMAIN disk \subseteq FileName
  BY DEF EvidenceInv, EvidenceTypeOK
<1>2. p \in FileName /\ p.case = c /\ p.suffix = "result"
  BY <1>1, PathIs DEF Suffix
<1>3. Begin(t, Save(p, x, TRUE))
  BY DEF CompareCase
<1>4. x \in Result
  BY DEF Result
<1>7. /\ disk' = disk /\ crossed' = crossed /\ owner' = owner /\ evidenceOne' = evidenceOne
      /\ truth' = truth /\ changes' \in 0 .. MaxChanges
  BY <1>1, ChangeTyped DEF CompareCase
<1>9. p = EvidencePath(disk, p.case, p.suffix)
  BY <1>2
<1> HIDE DEF p, x
<1>8. x \in Data(p.suffix)
  BY <1>2, <1>4, DataIs
<1> QED
  BY <1>2, <1>3, <1>7, <1>8, <1>9, SaveBegins

LEMMA SaveEditedTextKeeps ==
  ASSUME EvidenceInv, NEW t \in Caller, NEW c \in Case, SaveEditedText(t, c)
  PROVE  EvidenceInv'
<1> DEFINE p == Find(disk, c, "txt")
           Edited(v, how, reviewed) ==
             [value |-> v, source |-> "user", how |-> how, reviewed |-> reviewed, from |-> "user"]
<1>1. EvidenceTypeOK /\ DOMAIN disk \subseteq FileName /\ Found(disk, c, "txt")
  BY DEF EvidenceInv, EvidenceTypeOK, SaveEditedText
<1>2. p = EvidencePath(disk, c, "txt")
  BY <1>1 DEF EvidencePath
<1>3. p \in FileName /\ p.case = c /\ p.suffix = "txt"
  <2> HIDE DEF p
  <2> QED
    BY <1>1, <1>2, PathIs DEF Suffix
<1>4. PICK v \in Value, how \in BOOLEAN, reviewed \in BOOLEAN :
        Begin(t, Save(p, Edited(v, how, reviewed), FALSE))
  BY DEF SaveEditedText
<1>5. Edited(v, how, reviewed) \in Text
  BY DEF Text, Source
<1>7. /\ disk' = disk /\ crossed' = crossed /\ owner' = owner /\ evidenceOne' = evidenceOne
      /\ truth' = truth /\ changes' \in 0 .. MaxChanges
  BY <1>1, ChangeTyped DEF SaveEditedText
<1> HIDE DEF p, Edited
<1>8. Edited(v, how, reviewed) \in Data(p.suffix) /\ p = EvidencePath(disk, p.case, p.suffix)
  BY <1>2, <1>3, <1>5, DataIs
<1> QED
  BY <1>3, <1>4, <1>7, <1>8, SaveBegins

LEMMA StartShotKeeps ==
  ASSUME EvidenceInv, NEW t \in Caller, NEW c \in Case, StartShot(t, c)
  PROVE  EvidenceInv'
<1> DEFINE p == EvidencePath(disk, c, "png")
           k == [at |-> "shoot", path |-> p]
<1>1. EvidenceTypeOK /\ DOMAIN disk \subseteq FileName
  BY DEF EvidenceInv, EvidenceTypeOK
<1>2. p \in FileName /\ p.case = c /\ p.suffix = "png"
  BY <1>1, PathIs DEF Suffix
<1>3. k.at = "shoot" /\ k.path = p
  OBVIOUS
<1>4. k \in Job
  <2> HIDE DEF p
  <2>1. p \in FilesOf("png")
    BY <1>2 DEF FilesOf, FileName
  <2> QED
    BY <2>1 DEF Job, Held
<1>5. job' = [job EXCEPT ![t] = k] /\ job[t].at = "idle"
  BY DEF StartShot, Begin, Idle
<1>6. p = EvidencePath(disk, p.case, p.suffix)
  BY <1>2
<1>7. /\ disk' = disk /\ crossed' = crossed /\ owner' = owner /\ evidenceOne' = evidenceOne
      /\ truth' = truth /\ changes' \in 0 .. MaxChanges
  BY <1>1, ChangeTyped DEF StartShot
<1> HIDE DEF p, k
<1> QED
  BY <1>3, <1>4, <1>5, <1>6, <1>7, CallGoesOn

LEMMA StartRerunKeeps ==
  ASSUME EvidenceInv, NEW t \in Caller, NEW c \in Case, StartRerun(t, c)
  PROVE  EvidenceInv'
<1> DEFINE p == Find(disk, c, "txt")
           k == [at |-> "rerun", path |-> p, read |-> disk[p]]
<1>1. /\ EvidenceTypeOK /\ DOMAIN disk \subseteq FileName /\ Found(disk, c, "txt")
      /\ \A f \in DOMAIN disk : disk[f] \in Data(f.suffix)
  BY DEF EvidenceInv, EvidenceTypeOK, StartRerun
<1>2. p = EvidencePath(disk, c, "txt")
  BY <1>1 DEF EvidencePath
<1>3. p \in FileName /\ p.case = c /\ p.suffix = "txt" /\ p \in DOMAIN disk
  BY <1>1, FindFinds, OfIs DEF Suffix
<1>4. job' = [job EXCEPT ![t] = k] /\ job[t].at = "idle"
  BY DEF StartRerun, Begin, Idle
<1>5. k.at = "rerun" /\ k.path = p
  OBVIOUS
<1>6. k \in Job
  <2> HIDE DEF p
  <2>1. p \in FilesOf("txt")
    BY <1>3 DEF FilesOf, FileName
  <2>2. disk[p] \in Text
    BY <1>1, <1>3, DataIs
  <2> QED
    BY <2>1, <2>2 DEF Job, Held
<1>7. /\ disk' = disk /\ crossed' = crossed /\ owner' = owner /\ evidenceOne' = evidenceOne
      /\ truth' = truth /\ changes' \in 0 .. MaxChanges
  BY <1>1, ChangeTyped DEF StartRerun
<1> HIDE DEF p, k
<1>8. p = EvidencePath(disk, p.case, p.suffix)
  BY <1>2, <1>3
<1> QED
  BY <1>4, <1>5, <1>6, <1>7, <1>8, CallGoesOn

\* sync_evidence_names reads the plan and the folder, or looks at a file.
LEMMA SyncKeeps ==
  ASSUME EvidenceInv, NEW t \in Caller, Sync(t)
  PROVE  EvidenceInv'
<1>1. DOMAIN disk \subseteq FileName /\ owner \in [Case -> Number]
  BY CallIs
<1>2. Outdated(disk) \in SUBSET Rename
  BY <1>1, OutdatedIs
<1> DEFINE k == Rest(Outdated(disk))
<1>3. k \in Job /\ k.at \in {"idle", "sync"}
  BY <1>2, RestIs
<1>4. job' = [job EXCEPT ![t] = k] /\ job[t].at = "idle"
  BY DEF Sync, Begin, Idle
<1>5. /\ disk' = disk /\ crossed' = crossed /\ owner' = owner /\ evidenceOne' = evidenceOne
      /\ truth' = truth /\ changes' \in 0 .. MaxChanges
  BY DEF Sync, EvidenceInv, EvidenceTypeOK
<1> HIDE DEF k
<1>6. k.at \notin Holding
  BY <1>3 DEF Holding
<1> QED
  BY <1>3, <1>4, <1>5, <1>6, CallGoesOn

LEMMA SyncLooksKeeps ==
  ASSUME EvidenceInv, NEW t \in Caller, SyncLooks(t)
  PROVE  EvidenceInv'
<1>1. job[t].at = "sync" /\ job[t].left \in SUBSET Rename
  BY CallIs, JobIs DEF SyncLooks
<1>2. PICK r \in job[t].left :
        Goes(t, IF NewName(r) \in DOMAIN disk THEN Rest(job[t].left \ {r})
                ELSE [at |-> "rename", left |-> job[t].left \ {r}, next |-> r])
  BY DEF SyncLooks
<1> DEFINE rest == job[t].left \ {r}
           k == IF NewName(r) \in DOMAIN disk THEN Rest(rest)
                ELSE [at |-> "rename", left |-> rest, next |-> r]
<1>3. rest \in SUBSET Rename /\ r \in Rename
  BY <1>1
<1>4. k \in Job /\ k.at \in {"idle", "sync", "rename"}
  <2> HIDE DEF rest
  <2>1. Rest(rest) \in Job /\ Rest(rest).at \in {"idle", "sync"}
    BY <1>3, RestIs
  <2>2. [at |-> "rename", left |-> rest, next |-> r] \in Job
    BY <1>3 DEF Job
  <2> QED
    BY <2>1, <2>2
<1>5. job' = [job EXCEPT ![t] = k]
  BY <1>2 DEF Goes
<1>6. /\ disk' = disk /\ crossed' = crossed /\ owner' = owner /\ evidenceOne' = evidenceOne
      /\ truth' = truth /\ changes' \in 0 .. MaxChanges
  BY DEF SyncLooks, EvidenceInv, EvidenceTypeOK
<1> HIDE DEF k
<1>7. k.at \notin Holding /\ k.at # "save"
  BY <1>4 DEF Holding
<1> QED
  BY <1>1, <1>4, <1>5, <1>6, <1>7, CallGoesOn

\* A call ends without a trace.
LEMMA CallEnds ==
  ASSUME EvidenceInv, NEW t \in Caller, End(t), job[t].at \notin {"check", "save"},
         disk' = disk, crossed' = crossed, owner' = owner, evidenceOne' = evidenceOne,
         truth' = truth, changes' = changes
  PROVE  EvidenceInv'
<1>1. Idle \in Job /\ Idle.at = "idle" /\ Idle.at \notin Holding
  BY DEF Job, Idle, Holding
<1>2. job' = [job EXCEPT ![t] = Idle]
  BY DEF End, Goes
<1>3. changes' \in 0 .. MaxChanges
  BY DEF EvidenceInv, EvidenceTypeOK
<1> QED
  BY <1>1, <1>2, <1>3, CallGoesOn

---------------------------------------------------------------------------
(* A rename.                                                               *)

Renamed(d, f, g) == Put(Without(d, f), g, d[f])

LEMMA RenamedIs ==
  ASSUME NEW d, Kinds(d), NEW f \in DOMAIN d, NEW g \in FileName,
         g.case = f.case, g.suffix = f.suffix
  PROVE  /\ Kinds(Renamed(d, f, g))
         /\ DOMAIN Renamed(d, f, g) = (DOMAIN d \ {f}) \cup {g}
         /\ Renamed(d, f, g)[g] = d[f]
         /\ \A h \in DOMAIN d \ {f, g} : Renamed(d, f, g)[h] = d[h]
<1>1. /\ DOMAIN Renamed(d, f, g) = (DOMAIN d \ {f}) \cup {g}
      /\ Renamed(d, f, g)[g] = d[f]
      /\ \A h \in DOMAIN d \ {f, g} : Renamed(d, f, g)[h] = d[h]
  BY DEF Renamed, Put, Without
<1>2. Kinds(Renamed(d, f, g))
  BY <1>1 DEF Kinds
<1> QED
  BY <1>1, <1>2

\* The other cases and kinds are as they were.
LEMMA RenamedElsewhere ==
  ASSUME NEW d, Kinds(d), NEW f \in DOMAIN d, NEW g \in FileName,
         g.case = f.case, g.suffix = f.suffix, NEW c \in Case, NEW s \in Suffix,
         f.case # c \/ f.suffix # s
  PROVE  LET e == Renamed(d, f, g)
         IN /\ Of(e, c, s) = Of(d, c, s) /\ EvidencePath(e, c, s) = EvidencePath(d, c, s)
            /\ Found(e, c, s) <=> Found(d, c, s)
            /\ Found(d, c, s) => e[Find(e, c, s)] = d[Find(d, c, s)]
            /\ \A h \in Of(d, c, s) : e[h] = d[h]
<1> DEFINE e == Renamed(d, f, g)
<1>9. DOMAIN d \subseteq FileName
  BY DEF Kinds
<1>0. /\ DOMAIN e = (DOMAIN d \ {f}) \cup {g} /\ DOMAIN d \subseteq FileName
      /\ \A h \in DOMAIN d \ {f, g} : e[h] = d[h]
  BY <1>9, RenamedIs
<1> HIDE DEF e
<1>1. Of(e, c, s) = Of(d, c, s)
  BY <1>0 DEF Of
<1>2. \A h \in Of(d, c, s) : e[h] = d[h]
  BY <1>0 DEF Of
<1>3. /\ EvidencePath(e, c, s) = EvidencePath(d, c, s) /\ Find(e, c, s) = Find(d, c, s)
      /\ Found(e, c, s) <=> Found(d, c, s)
  BY <1>1 DEF EvidencePath, Found, Find
<1>4. Found(d, c, s) => Find(d, c, s) \in Of(d, c, s)
  BY <1>0, FindFinds
<1> QED
  BY <1>1, <1>2, <1>3, <1>4 DEF e

\* The one file of its case and kind gets another name.
LEMMA RenamedHere ==
  ASSUME NEW d, Kinds(d), NEW f \in DOMAIN d, NEW g \in FileName,
         g.case = f.case, g.suffix = f.suffix, Single(d, f.case, f.suffix)
  PROVE  LET e == Renamed(d, f, g)  c == f.case  s == f.suffix
         IN /\ Of(d, c, s) = {f} /\ Of(e, c, s) = {g} /\ e[g] = d[f]
            /\ Find(d, c, s) = f /\ Find(e, c, s) = g /\ Found(d, c, s)
<1> DEFINE e == Renamed(d, f, g)
           c == f.case
           s == f.suffix
<1>0. DOMAIN e = (DOMAIN d \ {f}) \cup {g} /\ e[g] = d[f]
  BY RenamedIs
<1> HIDE DEF e
<1>1. f \in Of(d, c, s)
  BY DEF Of
<1>2. Of(d, c, s) = {f}
  BY <1>1 DEF Single
<1>3. Of(e, c, s) = {g}
  BY <1>0, <1>2 DEF Of
<1>4. Find(d, c, s) = f /\ Found(d, c, s)
  BY <1>2, FindOnly
<1>5. Find(e, c, s) = g
  BY <1>3, FindOnly
<1> QED
  BY <1>0, <1>2, <1>3, <1>4, <1>5 DEF e

\* What the step renames.
LEMMA RenameIs ==
  ASSUME EvidenceInv, NEW t \in Caller, SyncRenames(t)
  PROVE  LET f == job[t].next.file  g == NewName(job[t].next)
         IN /\ f \in FileName /\ g \in FileName /\ g.case = f.case /\ g.suffix = f.suffix
            /\ job[t].at = "rename" /\ job[t].left \in SUBSET Rename
<1>1. job[t].at = "rename" /\ job[t].left \in SUBSET Rename /\ job[t].next \in Rename
  BY CallIs, JobIs DEF SyncRenames
<1>2. job[t].next.file \in FileName /\ job[t].next.to \in Number
  BY <1>1 DEF Rename
<1>3. /\ NewName(job[t].next) \in FileName
      /\ NewName(job[t].next).case = job[t].next.file.case
      /\ NewName(job[t].next).suffix = job[t].next.file.suffix
  BY <1>2 DEF NewName, FileName
<1> QED
  BY <1>1, <1>2, <1>3

\* Without a call that is crossed nobody else has such a file in hand.
LEMMA NobodyHolds ==
  ASSUME NEW t \in Caller, NEW f, Crosses(t, f) \subseteq crossed',
         <<f.case, f.suffix>> \notin crossed', NEW u \in Caller \ {t}
  PROVE  ~ HoldsOf(job, u, f.case, f.suffix)
BY DEF Crosses, HoldsOf

LEMMA SyncRenamesKeeps ==
  ASSUME EvidenceInv, NEW t \in Caller, SyncRenames(t)
  PROVE  EvidenceInv'
<1> DEFINE f == job[t].next.file
           g == NewName(job[t].next)
           k == Rest(job[t].left)
           e == Renamed(disk, f, g)
<1>1. /\ f \in FileName /\ g \in FileName /\ g.case = f.case /\ g.suffix = f.suffix
      /\ job[t].at = "rename" /\ job[t].left \in SUBSET Rename
  BY RenameIs
<1>2. /\ job \in [Caller -> Job] /\ Kinds(disk) /\ DOMAIN disk \subseteq FileName
      /\ AllSettled(disk, job, crossed) /\ Apart(disk, job, crossed)
      /\ owner \in [Case -> Number] /\ crossed \subseteq Case \X Suffix
  BY CallIs
<1>3. CASE f \notin DOMAIN disk
  <2>1. /\ End(t) /\ disk' = disk /\ crossed' = crossed /\ owner' = owner
        /\ evidenceOne' = evidenceOne /\ truth' = truth /\ changes' = changes
    BY <1>3 DEF SyncRenames
  <2> QED
    BY <1>1, <2>1, CallEnds
<1>4. CASE f \in DOMAIN disk
  <2>1. /\ disk' = e /\ Goes(t, k) /\ crossed' = crossed \cup Crosses(t, f)
        /\ owner' = owner /\ evidenceOne' = evidenceOne /\ truth' = truth /\ changes' = changes
    BY <1>4 DEF SyncRenames, Renamed
  <2>2. k \in Job /\ k.at \in {"idle", "sync"}
    BY <1>1, RestIs
  <2> HIDE DEF f, g, k, e
  <2>3. job' = [job EXCEPT ![t] = k] /\ job'[t] = k /\ Others(job, job', t)
    BY <1>2, <2>1 DEF Goes, Others
  <2>4. crossed \subseteq crossed' /\ Crosses(t, f) \subseteq crossed'
        /\ crossed' \subseteq Case \X Suffix
    <3>1. Crosses(t, f) \subseteq Case \X Suffix
      BY <1>1 DEF Crosses, FileName
    <3> QED
      BY <1>2, <2>1, <3>1
  <2>5. ASSUME NEW c \in Case, NEW s \in Suffix, <<c, s>> \notin crossed'
        PROVE  /\ Single(e, c, s) /\ (Found(e, c, s) => Found(disk, c, s))
               /\ Found(e, c, s) => e[Find(e, c, s)] = disk[Find(disk, c, s)]
               /\ (\E u \in Caller \ {t} : HoldsOf(job, u, c, s))
                    => EvidencePath(e, c, s) = EvidencePath(disk, c, s)
    <3>1. Single(disk, c, s)
      BY <1>2, <2>4, <2>5 DEF AllSettled, Settled
    <3>2. CASE f.case = c /\ f.suffix = s
      <4>1. /\ Of(e, c, s) = {g} /\ e[g] = disk[f]
            /\ Find(disk, c, s) = f /\ Find(e, c, s) = g /\ Found(disk, c, s)
        BY <1>1, <1>2, <1>4, <3>1, <3>2, RenamedHere DEF e
      <4>2. \A u \in Caller \ {t} : ~ HoldsOf(job, u, c, s)
        BY <2>4, <2>5, <3>2, NobodyHolds
      <4> QED
        BY <4>1, <4>2 DEF Single
    <3>3. CASE ~ (f.case = c /\ f.suffix = s)
      <4>1. /\ Of(e, c, s) = Of(disk, c, s) /\ EvidencePath(e, c, s) = EvidencePath(disk, c, s)
            /\ Found(e, c, s) <=> Found(disk, c, s)
            /\ Found(disk, c, s) => e[Find(e, c, s)] = disk[Find(disk, c, s)]
        BY <1>1, <1>2, <1>4, <3>3, RenamedElsewhere DEF e
      <4> QED
        BY <3>1, <4>1 DEF Single
    <3> QED
      BY <3>2, <3>3
  <2>6. AllSettled(e, job', crossed')
    <3>1. k.at \notin Holding
      BY <2>2 DEF Holding
    <3>2. \A c \in Case, s \in Suffix : ~ HoldsOf(job', t, c, s)
      BY <2>3, <3>1 DEF HoldsOf
    <3>3. NamesStay(disk, e, crossed, crossed', job, job', t)
      BY <2>4, <2>5, <3>2 DEF NamesStay
    <3> QED
      BY <1>2, <2>3, <3>3, SettledFrom
  <2>7. Apart(e, job', crossed')
    <3>1. ASSUME NEW c \in Case, Clean(crossed', c), Claimed(e, job', c)
          PROVE  /\ Clean(crossed, c) /\ Claimed(disk, job, c)
                 /\ Picture(e, c) = Picture(disk, c)
      <4>1. <<c, "png">> \notin crossed' /\ <<c, "json">> \notin crossed'
            /\ "png" \in Suffix /\ "json" \in Suffix
        BY <3>1 DEF Clean, Suffix
      <4>2. /\ Found(e, c, "png") => Found(disk, c, "png")
            /\ Found(e, c, "png") => Picture(e, c) = Picture(disk, c)
            /\ SpecIs(e, c) => SpecIs(disk, c)
        BY <2>5, <4>1 DEF Picture, SpecIs
      <4>3. job[t].at \notin {"check", "save"} /\ job'[t].at \notin {"check", "save"}
        BY <1>1, <2>2, <2>3
      <4>4. /\ Checking(job, c) => Checking(job', c)
            /\ \A u \in Caller : Saves(job', u, c) <=> Saves(job, u, c)
            /\ \A u \in Caller : Saves(job, u, c) => job'[u].data = job[u].data
        BY <2>3, <4>3 DEF Checking, Saves, Others
      <4>5. Claimed(disk, job, c)
        BY <3>1, <4>2, <4>4 DEF Claimed
      <4> QED
        BY <2>4, <3>1, <4>1, <4>2, <4>5 DEF Clean, Claimed
    <3> QED
      BY <1>2, <3>1, ApartFrom
  <2>8. Kinds(e)
    BY <1>1, <1>2, <1>4, RenamedIs DEF e
  <2>9. FolderOK(disk', job', crossed')
    BY <2>1, <2>6, <2>7, <2>8 DEF FolderOK
  <2>10. /\ job' \in [Caller -> Job] /\ owner' \in [Case -> Number] /\ evidenceOne' \in BOOLEAN
         /\ truth' \in Value /\ changes' \in 0 .. MaxChanges
    BY <1>2, <2>1, <2>2, <2>3 DEF EvidenceInv, EvidenceTypeOK
  <2> QED
    BY <2>4, <2>9, <2>10, InvFrom
<1> QED
  BY <1>3, <1>4

---------------------------------------------------------------------------
(* A write.                                                                *)

\* The call of t writes the file it has in hand and goes on with k.
LEMMA WriteKeeps ==
  ASSUME EvidenceInv, NEW t \in Caller, job[t].at \in Holding, NEW x \in Data(job[t].path.suffix),
         disk' = Put(disk, job[t].path, x), NEW k \in Job, job' = [job EXCEPT ![t] = k],
         crossed \subseteq crossed',
         k.at \in Holding /\ <<k.path.case, k.path.suffix>> \notin crossed'
           => \/ k.path = job[t].path
              \/ k.path = EvidencePath(disk', k.path.case, k.path.suffix)
  PROVE  /\ Kinds(disk') /\ AllSettled(disk', job', crossed') /\ job' \in [Caller -> Job]
         /\ job'[t] = k /\ Others(job, job', t)
<1> DEFINE p == job[t].path
           e == Put(disk, p, x)
<1>1. /\ job[t] \in Job /\ job \in [Caller -> Job] /\ Kinds(disk) /\ DOMAIN disk \subseteq FileName
      /\ AllSettled(disk, job, crossed)
      /\ <<p.case, p.suffix>> \notin crossed => p = EvidencePath(disk, p.case, p.suffix)
  BY CallIs
<1>2. p \in FileName
  BY <1>1, JobIs
<1>3. job' \in [Caller -> Job] /\ job'[t] = k /\ Others(job, job', t)
  BY <1>1 DEF Others
<1>7. <<k.path.case, k.path.suffix>> \notin crossed' /\ k.at \in Holding =>
        k.path = p \/ k.path = EvidencePath(e, k.path.case, k.path.suffix)
  OBVIOUS
<1> HIDE DEF p
<1>4. Kinds(e)
  BY <1>1, <1>2, PutKinds DEF p
<1> HIDE DEF e
<1>5. ASSUME NEW c \in Case, NEW s \in Suffix, <<c, s>> \notin crossed'
      PROVE  /\ <<c, s>> \notin crossed /\ Single(e, c, s)
             /\ EvidencePath(e, c, s) = EvidencePath(disk, c, s)
             /\ HoldsOf(job', t, c, s) => job'[t].path = EvidencePath(e, c, s)
  <2>1. <<c, s>> \notin crossed
    BY <1>5
  <2>2. Single(disk, c, s)
    BY <1>1, <2>1 DEF AllSettled, Settled
  <2>3. p.case = c /\ p.suffix = s => p = EvidencePath(disk, c, s)
    BY <1>1, <2>1
  <2>4. Single(e, c, s) /\ EvidencePath(e, c, s) = EvidencePath(disk, c, s)
    BY <1>1, <1>2, <2>2, <2>3, PutKeepsNames DEF e
  <2>5. HoldsOf(job', t, c, s) => job'[t].path = EvidencePath(e, c, s)
    BY <1>3, <1>5, <1>7, <2>3, <2>4 DEF HoldsOf
  <2> QED
    BY <2>1, <2>4, <2>5
<1>6. NamesStay(disk, e, crossed, crossed', job, job', t)
  BY <1>5 DEF NamesStay
<1>8. AllSettled(e, job', crossed')
  BY <1>1, <1>3, <1>6, SettledFrom
<1> QED
  BY <1>3, <1>4, <1>8 DEF e, p

LEMMA SaveFileKeeps ==
  ASSUME EvidenceInv, NEW t \in Caller, SaveFile(t)
  PROVE  EvidenceInv'
<1> DEFINE p == job[t].path
           x == job[t].data
           k == IF job[t].sync THEN Rest(Outdated(disk')) ELSE Idle
<1>1. /\ job[t] \in Job /\ job \in [Caller -> Job] /\ Kinds(disk) /\ DOMAIN disk \subseteq FileName
      /\ AllSettled(disk, job, crossed) /\ Apart(disk, job, crossed)
      /\ owner \in [Case -> Number] /\ crossed \subseteq Case \X Suffix
      /\ <<p.case, p.suffix>> \notin crossed => p = EvidencePath(disk, p.case, p.suffix)
  BY CallIs DEF SaveFile, Holding
<1>2. job[t].at = "save" /\ p \in FileName /\ x \in Data(p.suffix) /\ job[t].at \in Holding
      /\ p.suffix # "png"
  BY <1>1, JobIs DEF SaveFile, Holding
<1>3. /\ disk' = Put(disk, p, x) /\ job' = [job EXCEPT ![t] = k] /\ owner' = owner
      /\ crossed' = IF p.suffix = "json" THEN crossed \cup Crosses(t, p) ELSE crossed
  BY DEF SaveFile, Goes
<1>4. crossed \subseteq crossed' /\ crossed' \subseteq Case \X Suffix
      /\ (p.suffix = "json" => Crosses(t, p) \subseteq crossed')
  <2>1. Crosses(t, p) \subseteq Case \X Suffix
    BY <1>2 DEF Crosses, FileName
  <2> HIDE DEF p
  <2> QED
    BY <1>1, <1>3, <2>1
<1>5. k \in Job /\ k.at \in {"idle", "sync"} /\ k.at \notin Holding
  <2>1. Kinds(disk')
    BY <1>1, <1>2, <1>3, PutKinds
  <2>2. Outdated(disk') \in SUBSET Rename
    BY <1>1, <2>1, OutdatedIs DEF Kinds
  <2>3. Rest(Outdated(disk')) \in Job /\ Rest(Outdated(disk')).at \in {"idle", "sync"}
    BY <2>2, RestIs
  <2>4. Idle \in Job /\ Idle.at = "idle"
    BY DEF Idle, Job
  <2> QED
    BY <2>3, <2>4 DEF Holding
<1> HIDE DEF k
<1>6. /\ Kinds(disk') /\ AllSettled(disk', job', crossed') /\ job' \in [Caller -> Job]
      /\ job'[t] = k /\ Others(job, job', t)
  BY <1>2, <1>3, <1>4, <1>5, WriteKeeps
<1> HIDE DEF p, x
<1>7. ASSUME NEW c \in Case, Clean(crossed', c), Claimed(disk', job', c)
      PROVE  /\ Clean(crossed, c) /\ Claimed(disk, job, c)
             /\ Picture(disk', c) = Picture(disk, c)
  <2>1. Clean(crossed, c)
    BY <1>4, <1>7 DEF Clean
  <2>2. Found(disk', c, "png")
    BY <1>7 DEF Claimed
  <2>3. Checking(job, c) => Checking(job', c)
    BY <1>2, <1>6 DEF Checking, Others
  <2>4. CASE p.case = c /\ p.suffix = "json"
    <3>1. \A u \in Caller \ {t} : ~ HoldsOf(job, u, c, "json")
      BY <1>4, <1>7, <2>4, NobodyHolds DEF Clean
    <3>2. /\ \A u \in Caller : Saves(job, u, c) => u = t
          /\ Saves(job, t, c) /\ \A u \in Caller : ~ Saves(job', u, c)
      BY <1>2, <1>5, <1>6, <2>4, <3>1 DEF Saves, HoldsOf, Holding, Others, p
    <3>3. SpecIs(disk', c)
      BY <1>7, <3>2 DEF Claimed
    <3>4. Single(disk, c, "json") /\ p = EvidencePath(disk, c, "json")
      <4>1. <<c, "json">> \notin crossed /\ "json" \in Suffix
        BY <2>1 DEF Clean, Suffix
      <4> QED
        BY <1>1, <2>4, <4>1 DEF AllSettled, Settled, p
    <3>5. Of(disk', c, "json") = {p}
      BY <1>1, <1>3, <3>4, PutInPlace DEF Suffix
    <3>6. disk'[Find(disk', c, "json")] = x
      <4>1. Find(disk', c, "json") = p
        BY <3>5, FindOnly
      <4> QED
        BY <1>3, <4>1, PutIs
    <3>7. x.source = "screenshot"
      BY <3>3, <3>6 DEF SpecIs
    <3>8. /\ Found(disk, c, "png")
          /\ Picture(disk', c) = Picture(disk, c)
      <4>1. p.case # c \/ p.suffix # "png"
        BY <2>4
      <4>2. /\ Found(disk', c, "png") <=> Found(disk, c, "png")
            /\ Found(disk, c, "png") => disk'[Find(disk', c, "png")] = disk[Find(disk, c, "png")]
        BY <1>1, <1>3, <4>1, PutLeaves DEF Suffix
      <4> QED
        BY <2>2, <4>2 DEF Picture
    <3>9. \A u \in Caller : Saves(job, u, c) => job[u].data.source = "screenshot"
      BY <3>2, <3>7 DEF x
    <3>10. Claimed(disk, job, c)
      BY <1>7, <2>3, <3>2, <3>8, <3>9 DEF Claimed
    <3> QED
      BY <2>1, <3>8, <3>10
  <2>5. CASE p.case # c \/ p.suffix # "json"
    <3>1. /\ Found(disk', c, "png") => Found(disk, c, "png")
          /\ Found(disk', c, "png") => Picture(disk', c) = Picture(disk, c)
          /\ SpecIs(disk', c) => SpecIs(disk, c)
      <4>0. \A s \in {"png", "json"} : (p.case # c \/ p.suffix # s) /\ s \in Suffix
        BY <1>2, <2>5 DEF Suffix
      <4>1. \A s \in {"png", "json"} :
              /\ Found(disk', c, s) <=> Found(disk, c, s)
              /\ Found(disk, c, s) => disk'[Find(disk', c, s)] = disk[Find(disk, c, s)]
        BY <1>1, <1>3, <4>0, PutLeaves
      <4> QED
        BY <4>1 DEF Picture, SpecIs
    <3>2. /\ \A u \in Caller : Saves(job', u, c) <=> Saves(job, u, c)
          /\ \A u \in Caller : Saves(job, u, c) => job'[u].data = job[u].data
      BY <1>2, <1>5, <1>6, <2>5 DEF Saves, Others, p
    <3>3. Claimed(disk, job, c)
      BY <1>7, <2>3, <3>1, <3>2 DEF Claimed
    <3> QED
      BY <2>1, <2>2, <3>1, <3>3
  <2> QED
    BY <2>4, <2>5
<1>8. Apart(disk', job', crossed')
  BY <1>1, <1>7, ApartFrom
<1>9. FolderOK(disk', job', crossed')
  BY <1>6, <1>8 DEF FolderOK
<1>10. /\ owner' \in [Case -> Number] /\ evidenceOne' \in BOOLEAN
       /\ truth' \in Value /\ changes' \in 0 .. MaxChanges
  BY DEF SaveFile, EvidenceInv, EvidenceTypeOK
<1> QED
  BY <1>4, <1>6, <1>9, <1>10, InvFrom

\* A case that the call of t is not about, whose picture and spec stay.
LEMMA OtherCase ==
  ASSUME NEW t \in Caller, Others(job, job', t), NEW c \in Case,
         job[t].at \in {"check", "save"} => job[t].path.case # c,
         job'[t].at \in {"check", "save"} => job'[t].path.case # c,
         \A s \in {"png", "json"} : Found(disk', c, s) =>
           Found(disk, c, s) /\ disk'[Find(disk', c, s)] = disk[Find(disk, c, s)],
         Claimed(disk', job', c)
  PROVE  Claimed(disk, job, c) /\ Picture(disk', c) = Picture(disk, c)
<1>1. /\ Found(disk', c, "png") => Found(disk, c, "png") /\ Picture(disk', c) = Picture(disk, c)
      /\ SpecIs(disk', c) => SpecIs(disk, c)
  BY DEF Picture, SpecIs
<1>2. Checking(job, c) => Checking(job', c)
  BY DEF Checking, Others
<1>3. /\ \A u \in Caller : Saves(job', u, c) <=> Saves(job, u, c)
      /\ \A u \in Caller : Saves(job, u, c) => job'[u].data = job[u].data
  BY DEF Saves, Others
<1>4. Claimed(disk, job, c)
  BY <1>1, <1>2, <1>3 DEF Claimed
<1> QED
  BY <1>1, <1>4 DEF Claimed

\* The files stay; the call of t goes on with k.
LEMMA SettledSame ==
  ASSUME EvidenceInv, NEW t \in Caller, NEW k \in Job, job' = [job EXCEPT ![t] = k],
         disk' = disk, crossed \subseteq crossed',
         k.at \in Holding /\ <<k.path.case, k.path.suffix>> \notin crossed'
           => k.path = EvidencePath(disk, k.path.case, k.path.suffix)
  PROVE  /\ Kinds(disk') /\ AllSettled(disk', job', crossed') /\ job' \in [Caller -> Job]
         /\ job'[t] = k /\ Others(job, job', t)
<1>1. /\ job \in [Caller -> Job] /\ Kinds(disk) /\ AllSettled(disk, job, crossed)
  BY CallIs
<1>2. job' \in [Caller -> Job] /\ job'[t] = k /\ Others(job, job', t)
  BY <1>1 DEF Others
<1>3. ASSUME NEW c \in Case, NEW s \in Suffix, <<c, s>> \notin crossed'
      PROVE  /\ <<c, s>> \notin crossed /\ Single(disk, c, s)
             /\ HoldsOf(job', t, c, s) => job'[t].path = EvidencePath(disk, c, s)
  <2>1. <<c, s>> \notin crossed
    BY <1>3
  <2>2. Single(disk, c, s)
    BY <1>1, <2>1 DEF AllSettled, Settled
  <2>3. HoldsOf(job', t, c, s) => job'[t].path = EvidencePath(disk, c, s)
    BY <1>2, <1>3 DEF HoldsOf
  <2> QED
    BY <2>1, <2>2, <2>3
<1>4. NamesStay(disk, disk, crossed, crossed', job, job', t)
  BY <1>3 DEF NamesStay
<1>5. AllSettled(disk, job', crossed')
  BY <1>1, <1>2, <1>4, SettledFrom
<1> QED
  BY <1>1, <1>2, <1>5

\* The case of a call is one of the cases.
LEMMA CaseOf ==
  ASSUME EvidenceInv, NEW t \in Caller, job[t].at \in Holding
  PROVE  /\ job[t].path \in FileName /\ job[t].path.case \in Case
         /\ job[t].at \in {"shoot", "check"} => job[t].path.suffix = "png"
         /\ job[t].at = "rerun" => job[t].path.suffix = "txt"
<1>1. job[t] \in Job
  BY CallIs
<1>2. job[t].path \in FileName
  BY <1>1, JobIs
<1> QED
  BY <1>1, <1>2, JobIs DEF FileName

LEMMA EndRerunKeeps ==
  ASSUME EvidenceInv, NEW t \in Caller, EndRerun(t)
  PROVE  EvidenceInv'
<1> DEFINE p == job[t].path
           x == Rerun(job[t].read)
<1>1. /\ Kinds(disk) /\ DOMAIN disk \subseteq FileName /\ Apart(disk, job, crossed)
      /\ job[t] \in Job /\ crossed \subseteq Case \X Suffix
  BY CallIs
<1>2. job[t].at = "rerun" /\ job[t].at \in Holding /\ p.suffix = "txt" /\ job[t].read \in Text
  BY <1>1, JobIs DEF EndRerun, Holding
<1>3. x \in Data(p.suffix)
  <2>1. truth \in Value
    BY DEF EvidenceInv, EvidenceTypeOK
  <2>2. x \in Text
    BY <1>2, <2>1 DEF Rerun, Text, Source
  <2> QED
    BY <1>2, <2>2, DataIs
<1>4. disk' = Put(disk, p, x) /\ job' = [job EXCEPT ![t] = Idle] /\ crossed' = crossed
  BY DEF EndRerun, End, Goes
<1>5. Idle \in Job /\ Idle.at = "idle" /\ Idle.at \notin Holding
  BY DEF Idle, Job, Holding
<1> HIDE DEF x
<1>6. /\ Kinds(disk') /\ AllSettled(disk', job', crossed') /\ job' \in [Caller -> Job]
      /\ job'[t] = Idle /\ Others(job, job', t)
  BY <1>2, <1>3, <1>4, <1>5, WriteKeeps
<1> HIDE DEF p
<1>7. ASSUME NEW c \in Case, Clean(crossed', c), Claimed(disk', job', c)
      PROVE  /\ Clean(crossed, c) /\ Claimed(disk, job, c)
             /\ Picture(disk', c) = Picture(disk, c)
  <2>1. \A s \in {"png", "json"} : (p.case # c \/ p.suffix # s) /\ s \in Suffix
    BY <1>2 DEF Suffix
  <2>2. \A s \in {"png", "json"} : Found(disk', c, s) =>
           Found(disk, c, s) /\ disk'[Find(disk', c, s)] = disk[Find(disk, c, s)]
    BY <1>1, <1>4, <2>1, PutLeaves
  <2>3. job[t].at \notin {"check", "save"} /\ job'[t].at \notin {"check", "save"}
    BY <1>2, <1>5, <1>6
  <2> QED
    BY <1>4, <1>6, <1>7, <2>2, <2>3, OtherCase
<1>8. Apart(disk', job', crossed')
  BY <1>1, <1>7, ApartFrom
<1>9. FolderOK(disk', job', crossed')
  BY <1>6, <1>8 DEF FolderOK
<1>10. /\ owner' \in [Case -> Number] /\ evidenceOne' \in BOOLEAN
       /\ truth' \in Value /\ changes' \in 0 .. MaxChanges
  BY DEF EndRerun, EvidenceInv, EvidenceTypeOK
<1> QED
  BY <1>1, <1>4, <1>6, <1>9, <1>10, InvFrom

\* A picture is written where its case has it; what the call goes on with
\* keeps the case from being claimed.
LEMMA PictureKeeps ==
  ASSUME EvidenceInv, NEW t \in Caller, job[t].at = "shoot", NEW shot \in Shot,
         disk' = Put(disk, job[t].path, shot), NEW k \in Job, job' = [job EXCEPT ![t] = k],
         crossed' = crossed, k.path.case = job[t].path.case,
         \/ k.at = "check" /\ k.path = job[t].path
         \/ /\ k.at = "save" /\ k.path = EvidencePath(disk', k.path.case, "json")
            /\ k.path.suffix = "json" /\ k.data.source = "image"
  PROVE  FolderOK(disk', job', crossed') /\ job' \in [Caller -> Job]
<1> DEFINE p == job[t].path
<1>1. Kinds(disk) /\ DOMAIN disk \subseteq FileName /\ Apart(disk, job, crossed)
  BY CallIs
<1>2. p.case \in Case /\ p.suffix = "png" /\ job[t].at \in Holding
  BY CaseOf DEF Holding
<1>3. shot \in Data(p.suffix)
  BY <1>2, DataIs
<1>4. k.at \in Holding /\ <<k.path.case, k.path.suffix>> \notin crossed'
        => k.path = p \/ k.path = EvidencePath(disk', k.path.case, k.path.suffix)
  OBVIOUS
<1>5. /\ Kinds(disk') /\ AllSettled(disk', job', crossed') /\ job' \in [Caller -> Job]
      /\ job'[t] = k /\ Others(job, job', t)
  BY <1>2, <1>3, <1>4, WriteKeeps
<1>9. disk' = Put(disk, p, shot) /\ k.path.case = p.case
  OBVIOUS
<1> HIDE DEF p
<1>6. ASSUME NEW c \in Case, Clean(crossed', c), Claimed(disk', job', c)
      PROVE  /\ Clean(crossed, c) /\ Claimed(disk, job, c)
             /\ Picture(disk', c) = Picture(disk, c)
  <2>1. c # p.case
    <3>1. CASE k.at = "check"
      BY <1>5, <1>6, <1>9, <3>1 DEF Claimed, Checking
    <3>2. CASE k.at = "save" /\ k.path.suffix = "json" /\ k.data.source = "image"
      BY <1>5, <1>6, <1>9, <3>2 DEF Claimed, Saves
    <3> QED
      BY <3>1, <3>2
  <2>2. \A s \in {"png", "json"} : s \in Suffix
    BY DEF Suffix
  <2>3. \A s \in {"png", "json"} : Found(disk', c, s) =>
           Found(disk, c, s) /\ disk'[Find(disk', c, s)] = disk[Find(disk, c, s)]
    BY <1>1, <1>9, <2>1, <2>2, PutLeaves
  <2>4. job[t].at \notin {"check", "save"} /\ job'[t].path.case # c
    BY <1>5, <1>9, <2>1
  <2> QED
    BY <1>5, <1>6, <2>3, <2>4, OtherCase
<1>7. Apart(disk', job', crossed')
  BY <1>1, <1>6, ApartFrom
<1> QED
  BY <1>5, <1>7 DEF FolderOK

LEMMA TakeShotKeeps ==
  ASSUME EvidenceInv, NEW t \in Caller, TakeShot(t)
  PROVE  EvidenceInv'
<1> DEFINE p == job[t].path
<1>1. /\ job[t].at = "shoot" /\ p \in FileName /\ p.case \in Case /\ p.suffix = "png"
      /\ Kinds(disk)
  BY CaseOf, CallIs DEF TakeShot, Holding
<1>2. /\ crossed' = crossed /\ crossed' \subseteq Case \X Suffix /\ owner' \in [Case -> Number]
      /\ evidenceOne' \in BOOLEAN /\ truth' \in Value /\ changes' \in 0 .. MaxChanges
      /\ owner' = owner /\ evidenceOne' = evidenceOne /\ truth' = truth /\ changes' = changes
  BY DEF TakeShot, EvidenceInv, EvidenceTypeOK
<1>3. ASSUME NEW shot \in Shot, disk' = Put(disk, p, shot), NEW text \in {shot.screen, NoText},
             Goes(t, [at |-> "check", path |-> p, text |-> text])
      PROVE  EvidenceInv'
  <2> DEFINE k == [at |-> "check", path |-> p, text |-> text]
  <2>1. job' = [job EXCEPT ![t] = k]
    BY <1>3 DEF Goes
  <2>2. k \in Job
    <3>1. p \in FilesOf("png")
      BY <1>1 DEF FilesOf, FileName
    <3>2. text \in Screen \cup {NoText}
      BY DEF Shot
    <3> QED
      BY <3>1, <3>2 DEF Job, Held
  <2>3. k.at = "check" /\ k.path = p
    OBVIOUS
  <2> HIDE DEF k
  <2>4. FolderOK(disk', job', crossed') /\ job' \in [Caller -> Job]
    BY <1>1, <1>2, <1>3, <2>1, <2>2, <2>3, PictureKeeps
  <2> QED
    BY <1>2, <2>4, InvFrom
<1>4. ASSUME NEW shot \in Shot, disk' = Put(disk, p, shot),
             Goes(t, SaveSpec(disk', p.case, NoText, "image"))
      PROVE  EvidenceInv'
  <2> DEFINE k == SaveSpec(disk', p.case, NoText, "image")
  <2>1. job' = [job EXCEPT ![t] = k]
    BY <1>4 DEF Goes
  <2>2. DOMAIN disk' \subseteq FileName
    BY <1>1, <1>4 DEF Put, Kinds
  <2>3. /\ k \in Job /\ k.at = "save" /\ k.path = EvidencePath(disk', p.case, "json")
        /\ k.path.case = p.case /\ k.path.suffix = "json" /\ k.data.source = "image"
    BY <1>1, <2>2, SaveSpecIs
  <2> HIDE DEF k
  <2>4. FolderOK(disk', job', crossed') /\ job' \in [Caller -> Job]
    BY <1>1, <1>2, <1>4, <2>1, <2>3, PictureKeeps
  <2> QED
    BY <1>2, <2>4, InvFrom
<1>5. CASE End(t) /\ UNCHANGED disk
  BY <1>1, <1>2, <1>5, CallEnds
<1>6. \/ \E shot \in Shot : disk' = Put(disk, p, shot) /\ \E text \in {shot.screen, NoText} :
           Goes(t, [at |-> "check", path |-> p, text |-> text])
      \/ \E shot \in Shot : /\ disk' = Put(disk, p, shot)
                            /\ Goes(t, SaveSpec(disk', p.case, NoText, "image"))
      \/ End(t) /\ UNCHANGED disk
  BY DEF TakeShot
<1> QED
  BY <1>3, <1>4, <1>5, <1>6

---------------------------------------------------------------------------
(* The look at the other pictures.                                         *)

\* The call of t no longer looks at the picture of its case, which is not
\* claimed now.
LEMMA CheckEnds ==
  ASSUME EvidenceInv, NEW t \in Caller, job[t].at = "check", End(t), crossed \subseteq crossed',
         crossed' \subseteq Case \X Suffix, disk' = disk, owner' = owner,
         evidenceOne' = evidenceOne, truth' = truth, changes' = changes,
         Clean(crossed', job[t].path.case) => ~ Found(disk, job[t].path.case, "png")
  PROVE  EvidenceInv'
<1>1. Kinds(disk) /\ Apart(disk, job, crossed)
  BY CallIs
<1>2. Idle \in Job /\ Idle.at = "idle" /\ Idle.at \notin Holding
  BY DEF Idle, Job, Holding
<1>3. job' = [job EXCEPT ![t] = Idle]
  BY DEF End, Goes
<1>4. /\ Kinds(disk') /\ AllSettled(disk', job', crossed') /\ job' \in [Caller -> Job]
      /\ job'[t] = Idle /\ Others(job, job', t)
  BY <1>2, <1>3, SettledSame
<1>5. ASSUME NEW c \in Case, Clean(crossed', c), Claimed(disk', job', c)
      PROVE  /\ Clean(crossed, c) /\ Claimed(disk, job, c)
             /\ Picture(disk', c) = Picture(disk, c)
  <2>1. Clean(crossed, c)
    BY <1>5 DEF Clean
  <2>2. job[t].path.case # c
    BY <1>5 DEF Claimed
  <2>3. job'[t].at \notin {"check", "save"}
    BY <1>2, <1>4
  <2>4. \A s \in {"png", "json"} : Found(disk', c, s) =>
           Found(disk, c, s) /\ disk'[Find(disk', c, s)] = disk[Find(disk, c, s)]
    OBVIOUS
  <2> QED
    BY <1>4, <1>5, <2>1, <2>2, <2>3, <2>4, OtherCase
<1>6. Apart(disk', job', crossed')
  BY <1>1, <1>5, ApartFrom
<1>7. FolderOK(disk', job', crossed')
  BY <1>4, <1>6 DEF FolderOK
<1>8. /\ owner' \in [Case -> Number] /\ evidenceOne' \in BOOLEAN
      /\ truth' \in Value /\ changes' \in 0 .. MaxChanges
  BY DEF EvidenceInv, EvidenceTypeOK
<1> QED
  BY <1>4, <1>7, <1>8, InvFrom

\* The picture is that of another case and goes.
LEMMA TwinGoes ==
  ASSUME EvidenceInv, NEW t \in Caller, job[t].at = "check", End(t),
         job[t].path \in DOMAIN disk, disk' = Without(disk, job[t].path),
         crossed' = crossed \cup Crosses(t, job[t].path), owner' = owner,
         evidenceOne' = evidenceOne, truth' = truth, changes' = changes
  PROVE  EvidenceInv'
<1> DEFINE p == job[t].path
<1>1. /\ Kinds(disk) /\ DOMAIN disk \subseteq FileName /\ Apart(disk, job, crossed)
      /\ AllSettled(disk, job, crossed) /\ job \in [Caller -> Job]
      /\ crossed \subseteq Case \X Suffix
  BY CallIs
<1>2. p \in FileName /\ p.case \in Case /\ p.suffix = "png"
  BY CaseOf DEF Holding
<1>3. DOMAIN disk' = DOMAIN disk \ {p} /\ \A f \in DOMAIN disk \ {p} : disk'[f] = disk[f]
  BY DEF Without
<1>4. /\ crossed \subseteq crossed' /\ Crosses(t, p) \subseteq crossed'
      /\ crossed' \subseteq Case \X Suffix
  <2>1. Crosses(t, p) \subseteq Case \X Suffix
    BY <1>2 DEF Crosses, FileName
  <2> QED
    BY <1>1, <2>1
<1>5. Kinds(disk')
  BY <1>1, <1>3 DEF Kinds
<1>6. Idle \in Job /\ Idle.at = "idle" /\ Idle.at \notin Holding
  BY DEF Idle, Job, Holding
<1>7. /\ job' \in [Caller -> Job] /\ job'[t] = Idle /\ Others(job, job', t)
  BY <1>1, <1>6 DEF End, Goes, Others
<1> HIDE DEF p
<1>8. ASSUME NEW c \in Case, NEW s \in Suffix, ~ (p.case = c /\ p.suffix = s)
      PROVE  /\ Of(disk', c, s) = Of(disk, c, s)
             /\ EvidencePath(disk', c, s) = EvidencePath(disk, c, s)
             /\ Found(disk', c, s) =>
                  Found(disk, c, s) /\ disk'[Find(disk', c, s)] = disk[Find(disk, c, s)]
  <2>1. Of(disk', c, s) = Of(disk, c, s)
    BY <1>3, <1>8 DEF Of
  <2>2. /\ EvidencePath(disk', c, s) = EvidencePath(disk, c, s)
        /\ Find(disk', c, s) = Find(disk, c, s) /\ (Found(disk', c, s) <=> Found(disk, c, s))
    BY <2>1 DEF EvidencePath, Found, Find
  <2>3. Found(disk, c, s) => Find(disk, c, s) \in DOMAIN disk \ {p}
    BY <1>1, <1>8, FindFinds, OfIs
  <2> QED
    BY <1>3, <2>1, <2>2, <2>3
<1>9. ASSUME NEW c \in Case, NEW s \in Suffix, <<c, s>> \notin crossed'
      PROVE  /\ <<c, s>> \notin crossed /\ Single(disk', c, s)
             /\ (\E u \in Caller \ {t} : HoldsOf(job, u, c, s))
                  => EvidencePath(disk', c, s) = EvidencePath(disk, c, s)
             /\ HoldsOf(job', t, c, s) => job'[t].path = EvidencePath(disk', c, s)
  <2>1. <<c, s>> \notin crossed
    BY <1>4, <1>9
  <2>2. Single(disk, c, s)
    BY <1>1, <2>1 DEF AllSettled, Settled
  <2>3. Single(disk', c, s)
    BY <1>3, <2>2 DEF Single, Of
  <2>4. ~ HoldsOf(job', t, c, s)
    BY <1>6, <1>7 DEF HoldsOf
  <2>5. CASE p.case = c /\ p.suffix = s
    <3>1. \A u \in Caller \ {t} : ~ HoldsOf(job, u, c, s)
      BY <1>4, <1>9, <2>5, NobodyHolds
    <3> QED
      BY <2>1, <2>3, <2>4, <3>1
  <2>6. CASE ~ (p.case = c /\ p.suffix = s)
    BY <1>8, <2>1, <2>3, <2>4, <2>6
  <2> QED
    BY <2>5, <2>6
<1>10. AllSettled(disk', job', crossed')
  <2>1. NamesStay(disk, disk', crossed, crossed', job, job', t)
    BY <1>9 DEF NamesStay
  <2> QED
    BY <1>1, <1>7, <2>1, SettledFrom
<1>11. ASSUME NEW c \in Case, Clean(crossed', c), Claimed(disk', job', c)
       PROVE  /\ Clean(crossed, c) /\ Claimed(disk, job, c)
              /\ Picture(disk', c) = Picture(disk, c)
  <2>1. p.case # c
    <3>1. SUFFICES ASSUME p.case = c PROVE ~ Found(disk', c, "png")
      BY <1>11 DEF Claimed
    <3>2. Single(disk, c, "png")
      BY <1>1, <1>4, <1>11 DEF AllSettled, Settled, Clean, Suffix
    <3>3. p \in Of(disk, c, "png")
      BY <1>2, <3>1 DEF Of, p
    <3>4. Of(disk', c, "png") = {}
      BY <1>3, <3>2, <3>3 DEF Single, Of
    <3> QED
      BY <3>4 DEF Found
  <2>2. \A s \in {"png", "json"} : Found(disk', c, s) =>
           Found(disk, c, s) /\ disk'[Find(disk', c, s)] = disk[Find(disk, c, s)]
    BY <1>8, <2>1 DEF Suffix
  <2>3. job[t].path.case # c /\ job'[t].at \notin {"check", "save"}
    BY <1>6, <1>7, <2>1 DEF p
  <2>4. Clean(crossed, c)
    BY <1>4, <1>11 DEF Clean
  <2> QED
    BY <1>7, <1>11, <2>2, <2>3, <2>4, OtherCase
<1>12. Apart(disk', job', crossed')
  BY <1>1, <1>11, ApartFrom
<1>13. FolderOK(disk', job', crossed')
  BY <1>5, <1>10, <1>12 DEF FolderOK
<1>14. /\ owner' \in [Case -> Number] /\ evidenceOne' \in BOOLEAN
       /\ truth' \in Value /\ changes' \in 0 .. MaxChanges
  BY DEF EvidenceInv, EvidenceTypeOK
<1> QED
  BY <1>4, <1>7, <1>13, <1>14, InvFrom

\* No other case has the picture: the case is claimed, apart from all others.
LEMMA LookPasses ==
  ASSUME EvidenceInv, NEW t \in Caller, job[t].at = "check", job[t].path \in DOMAIN disk,
         NEW text \in Screen \cup {NoText},
         \A f \in DOMAIN disk : f.case # job[t].path.case /\ f.suffix = "png"
                                => disk[f] # disk[job[t].path],
         Goes(t, SaveSpec(disk, job[t].path.case, text, "screenshot")),
         disk' = disk, crossed' = crossed, owner' = owner,
         evidenceOne' = evidenceOne, truth' = truth, changes' = changes
  PROVE  EvidenceInv'
<1> DEFINE p == job[t].path
           k == SaveSpec(disk, p.case, text, "screenshot")
<1>1. /\ Kinds(disk) /\ DOMAIN disk \subseteq FileName /\ Apart(disk, job, crossed)
      /\ AllSettled(disk, job, crossed) /\ crossed \subseteq Case \X Suffix
      /\ <<p.case, p.suffix>> \notin crossed => p = EvidencePath(disk, p.case, p.suffix)
  BY CallIs DEF Holding
<1>2. p \in FileName /\ p.case \in Case /\ p.suffix = "png"
  BY CaseOf DEF Holding
<1>3. /\ k \in Job /\ k.at = "save" /\ k.path = EvidencePath(disk, p.case, "json")
      /\ k.path.case = p.case /\ k.path.suffix = "json" /\ k.data.source = "screenshot"
  BY <1>1, <1>2, SaveSpecIs
<1>4. job' = [job EXCEPT ![t] = k]
  BY DEF Goes
<1> HIDE DEF k
<1>5. /\ Kinds(disk') /\ AllSettled(disk', job', crossed') /\ job' \in [Caller -> Job]
      /\ job'[t] = k /\ Others(job, job', t)
  BY <1>3, <1>4, SettledSame
<1>13. \A f \in DOMAIN disk : f.case # p.case /\ f.suffix = "png" => disk[f] # disk[p]
  OBVIOUS
<1>14. p \in DOMAIN disk /\ job[t].path = p
  OBVIOUS
<1> HIDE DEF p
<1>6. ASSUME NEW c \in Case, c # p.case, Claimed(disk', job', c)
      PROVE  Claimed(disk, job, c)
  <2>1. job[t].path.case # c /\ job'[t].path.case # c
    BY <1>3, <1>5, <1>6, <1>14
  <2>2. \A s \in {"png", "json"} : Found(disk', c, s) =>
           Found(disk, c, s) /\ disk'[Find(disk', c, s)] = disk[Find(disk, c, s)]
    OBVIOUS
  <2> QED
    BY <1>5, <1>6, <2>1, <2>2, OtherCase
<1>7. ASSUME NEW e \in Case, e # p.case, Clean(crossed, p.case), Found(disk, e, "png")
      PROVE  Picture(disk, p.case) # Picture(disk, e)
  <2>1. Single(disk, p.case, "png")
    BY <1>1, <1>2, <1>7 DEF AllSettled, Settled, Clean, Suffix
  <2>2. p \in Of(disk, p.case, "png")
    BY <1>2, <1>14 DEF Of
  <2>3. Of(disk, p.case, "png") = {p}
    BY <2>1, <2>2 DEF Single
  <2>4. Find(disk, p.case, "png") = p
    BY <2>3, FindOnly
  <2>5. Find(disk, e, "png") \in Of(disk, e, "png")
    BY <1>1, <1>7, FindFinds
  <2>6. /\ Find(disk, e, "png") \in DOMAIN disk /\ Find(disk, e, "png").case = e
        /\ Find(disk, e, "png").suffix = "png"
    BY <1>1, <2>5, OfIs
  <2> QED
    BY <1>7, <1>13, <2>4, <2>6 DEF Picture
<1>8. Apart(disk', job', crossed')
  <2> SUFFICES ASSUME NEW c \in Case, NEW e \in Case, c # e, Clean(crossed, c), Clean(crossed, e),
                      Claimed(disk', job', c), Claimed(disk', job', e)
               PROVE  Picture(disk, c) # Picture(disk, e)
    BY DEF Apart
  <2>1. Found(disk, c, "png") /\ Found(disk, e, "png")
    BY DEF Claimed
  <2>2. CASE c = p.case
    BY <1>7, <2>1, <2>2
  <2>3. CASE e = p.case
    BY <1>7, <2>1, <2>3
  <2>4. CASE c # p.case /\ e # p.case
    BY <1>1, <1>6, <2>4 DEF Apart
  <2> QED
    BY <2>2, <2>3, <2>4
<1>9. FolderOK(disk', job', crossed')
  BY <1>5, <1>8 DEF FolderOK
<1>10. /\ owner' \in [Case -> Number] /\ evidenceOne' \in BOOLEAN
       /\ truth' \in Value /\ changes' \in 0 .. MaxChanges /\ crossed' \subseteq Case \X Suffix
  BY DEF EvidenceInv, EvidenceTypeOK
<1> QED
  BY <1>5, <1>9, <1>10, InvFrom

LEMMA CheckShotKeeps ==
  ASSUME EvidenceInv, NEW t \in Caller, CheckShot(t)
  PROVE  EvidenceInv'
<1> DEFINE p == job[t].path
           c == p.case
<1>1. /\ job[t].at = "check" /\ p.case \in Case /\ p.suffix = "png" /\ p \in FileName
      /\ DOMAIN disk \subseteq FileName /\ crossed \subseteq Case \X Suffix
      /\ <<p.case, p.suffix>> \notin crossed => p = EvidencePath(disk, p.case, p.suffix)
      /\ job[t].text \in Screen \cup {NoText}
  BY CaseOf, CallIs, JobIs DEF CheckShot, Holding
<1>2. owner' = owner /\ evidenceOne' = evidenceOne /\ truth' = truth /\ changes' = changes
  BY DEF CheckShot
<1>3. CASE p \notin DOMAIN disk /\ End(t) /\ UNCHANGED <<disk, crossed>>
  <2>1. ASSUME Clean(crossed', c) PROVE ~ Found(disk, c, "png")
    <3>1. p = EvidencePath(disk, c, "png")
      BY <1>1, <1>3, <2>1 DEF Clean
    <3> HIDE DEF p
    <3>2. Found(disk, c, "png") => p \in Of(disk, c, "png")
      BY <1>1, <3>1, PathIs DEF Suffix
    <3>3. p \notin Of(disk, c, "png")
      BY <1>3 DEF Of
    <3> QED
      BY <3>2, <3>3
  <2> QED
    BY <1>1, <1>2, <1>3, <2>1, CheckEnds
<1>4. CASE End(t) /\ crossed' = crossed \cup {<<c, "png">>} /\ UNCHANGED disk
  <2>1. crossed \subseteq crossed' /\ crossed' \subseteq Case \X Suffix /\ ~ Clean(crossed', c)
    BY <1>1, <1>4 DEF Clean, Suffix
  <2> QED
    BY <1>1, <1>2, <1>4, <2>1, CheckEnds
<1>5. CASE /\ p \in DOMAIN disk /\ End(t) /\ disk' = Without(disk, p)
           /\ crossed' = crossed \cup Crosses(t, p)
  BY <1>1, <1>2, <1>5, TwinGoes
<1>6. CASE /\ p \in DOMAIN disk /\ ~ Twin(c, disk[p], job[t].text)
           /\ Goes(t, SaveSpec(disk, c, job[t].text, "screenshot")) /\ UNCHANGED <<disk, crossed>>
  <2>1. \A f \in DOMAIN disk : f.case # c /\ f.suffix = "png" => disk[f] # disk[p]
    BY <1>6 DEF Twin
  <2> QED
    BY <1>1, <1>2, <1>6, <2>1, LookPasses
<1> QED
  BY <1>3, <1>4, <1>5, <1>6 DEF CheckShot

---------------------------------------------------------------------------
(* The dashboard's mark, the plan and the ground truth.                    *)

\* What a mark is to save.
LEMMA MarkedIs ==
  ASSUME EvidenceInv, NEW c \in Case
  PROVE  /\ MarkOf(c) \in Job /\ MarkOf(c).at = "save" /\ MarkOf(c).path.case = c
         /\ MarkOf(c).path.suffix \in {"txt", "json"}
         /\ MarkOf(c).path = EvidencePath(disk, c, MarkOf(c).path.suffix)
         /\ MarkOf(c).path.suffix = "json" /\ MarkOf(c).data.source = "screenshot"
              => SpecIs(disk, c)
<1>1. DOMAIN disk \subseteq FileName /\ \A f \in DOMAIN disk : disk[f] \in Data(f.suffix)
  BY DEF EvidenceInv, FolderOK, Kinds
<1>2. CASE Found(disk, c, "txt")
  <2> DEFINE p == Find(disk, c, "txt")
             x == [disk[p] EXCEPT !.reviewed = TRUE]
  <2>1. MarkOf(c) = Save(p, x, FALSE)
    BY <1>2 DEF MarkOf
  <2>2. p \in FileName /\ p.case = c /\ p.suffix = "txt" /\ p \in DOMAIN disk
    BY <1>1, <1>2, FindFinds, OfIs
  <2>3. p = EvidencePath(disk, c, "txt")
    BY <1>2 DEF EvidencePath
  <2> HIDE DEF p
  <2>4. x \in Data(p.suffix)
    <3>1. disk[p] \in Text
      BY <1>1, <2>2, DataIs
    <3>2. x \in Text
      BY <3>1 DEF Text
    <3> QED
      BY <2>2, <3>2, DataIs
  <2> HIDE DEF x
  <2>5. Save(p, x, FALSE) \in Job /\ Save(p, x, FALSE).at = "save" /\ Save(p, x, FALSE).path = p
    BY <2>2, <2>4, SaveIs
  <2> QED
    BY <2>1, <2>2, <2>3, <2>5
<1>3. CASE ~ Found(disk, c, "txt")
  <2> DEFINE p == EvidencePath(disk, c, "json")
             old == IF Found(disk, c, "json") THEN disk[Find(disk, c, "json")]
                    ELSE PageSpecOf(NoText, "none")
             x == [old EXCEPT !.reviewed = TRUE]
  <2>1. MarkOf(c) = Save(p, x, FALSE)
    BY <1>3 DEF MarkOf
  <2>2. p \in FileName /\ p.case = c /\ p.suffix = "json"
    BY <1>1, PathIs DEF Suffix
  <2>3. old \in PageSpec
    <3>1. CASE Found(disk, c, "json")
      <4>1. Find(disk, c, "json") \in DOMAIN disk /\ Find(disk, c, "json").suffix = "json"
        BY <1>1, <3>1, FindFinds, OfIs
      <4> QED
        BY <1>1, <3>1, <4>1, DataIs
    <3>2. CASE ~ Found(disk, c, "json")
      BY <3>2, SpecTyped, DataIs
    <3> QED
      BY <3>1, <3>2
  <2>4. old.source = "screenshot" => SpecIs(disk, c)
    BY SpecTyped DEF SpecIs
  <2> HIDE DEF p, old
  <2>5. x \in PageSpec /\ x.source = old.source
    BY <2>3 DEF PageSpec
  <2> HIDE DEF x
  <2>6. x \in Data(p.suffix)
    BY <2>2, <2>5, DataIs
  <2>7. /\ Save(p, x, FALSE) \in Job /\ Save(p, x, FALSE).at = "save"
        /\ Save(p, x, FALSE).path = p /\ Save(p, x, FALSE).data = x
    BY <2>2, <2>6, SaveIs
  <2>8. p = EvidencePath(disk, c, p.suffix)
    BY <2>2 DEF p
  <2> QED
    BY <2>1, <2>2, <2>4, <2>5, <2>7, <2>8
<1> QED
  BY <1>2, <1>3

LEMMA MarkReviewedKeeps ==
  ASSUME EvidenceInv, NEW t \in Caller, NEW c \in Case, MarkReviewed(t, c)
  PROVE  EvidenceInv'
<1> DEFINE k == MarkOf(c)
<1>1. /\ k \in Job /\ k.at = "save" /\ k.path.case = c /\ k.path.suffix \in {"txt", "json"}
      /\ k.path = EvidencePath(disk, c, k.path.suffix)
      /\ k.path.suffix = "json" /\ k.data.source = "screenshot" => SpecIs(disk, c)
  BY MarkedIs
<1>2. /\ job' = [job EXCEPT ![t] = k] /\ job[t].at = "idle" /\ disk' = disk /\ crossed' = crossed
      /\ owner' = owner /\ evidenceOne' = evidenceOne /\ truth' = truth /\ changes' = changes
  BY DEF MarkReviewed, Begin, Idle
<1> HIDE DEF k
<1>3. k.path = EvidencePath(disk, k.path.case, k.path.suffix)
  BY <1>1
<1>4. Apart(disk, job, crossed)
  BY CallIs
<1>5. /\ Kinds(disk') /\ AllSettled(disk', job', crossed') /\ job' \in [Caller -> Job]
      /\ job'[t] = k /\ Others(job, job', t)
  BY <1>1, <1>2, <1>3, SettledSame
<1>6. ASSUME NEW e \in Case, Claimed(disk', job', e) PROVE Claimed(disk, job, e)
  <2>1. CASE e = c /\ k.path.suffix = "json"
    <3>1. Saves(job', t, c)
      BY <1>1, <1>5, <2>1 DEF Saves
    <3>2. SpecIs(disk, c)
      BY <1>1, <1>5, <1>6, <2>1, <3>1 DEF Claimed
    <3>3. /\ Checking(job, c) => Checking(job', c)
          /\ \A u \in Caller : Saves(job, u, c) => Saves(job', u, c) /\ job'[u] = job[u]
      BY <1>2, <1>5 DEF Checking, Saves, Others
    <3>4. /\ Found(disk, c, "png") /\ ~ Checking(job, c)
          /\ \A u \in Caller : Saves(job, u, c) => job[u].data.source = "screenshot"
      BY <1>2, <1>6, <2>1, <3>3 DEF Claimed
    <3> QED
      BY <2>1, <3>2, <3>4 DEF Claimed
  <2>2. CASE ~ (e = c /\ k.path.suffix = "json")
    <3>1. Checking(job, e) => Checking(job', e)
      BY <1>2, <1>5 DEF Checking, Others
    <3>2. /\ \A u \in Caller : Saves(job', u, e) <=> Saves(job, u, e)
          /\ \A u \in Caller : Saves(job, u, e) => job'[u].data = job[u].data
      BY <1>1, <1>2, <1>5, <2>2 DEF Saves, Others
    <3> QED
      BY <1>2, <1>6, <3>1, <3>2 DEF Claimed
  <2> QED
    BY <2>1, <2>2
<1>7. Apart(disk', job', crossed')
  <2>1. \A e \in Case : Clean(crossed', e) /\ Claimed(disk', job', e) =>
          Clean(crossed, e) /\ Claimed(disk, job, e) /\ Picture(disk', e) = Picture(disk, e)
    BY <1>2, <1>6
  <2> QED
    BY <1>4, <2>1, ApartFrom
<1>8. FolderOK(disk', job', crossed')
  BY <1>5, <1>7 DEF FolderOK
<1>9. /\ owner' \in [Case -> Number] /\ evidenceOne' \in BOOLEAN
      /\ truth' \in Value /\ changes' \in 0 .. MaxChanges /\ crossed' \subseteq Case \X Suffix
  BY <1>2 DEF EvidenceInv, EvidenceTypeOK
<1> QED
  BY <1>5, <1>8, <1>9, InvFrom

\* The folder and the calls stay.
LEMMA FolderStays ==
  ASSUME EvidenceInv, disk' = disk, job' = job, crossed' = crossed, owner' \in [Case -> Number],
         evidenceOne' = evidenceOne, truth' \in Value, changes' \in 0 .. MaxChanges
  PROVE  EvidenceInv'
<1>1. /\ FolderOK(disk', job', crossed') /\ crossed' \subseteq Case \X Suffix
      /\ job' \in [Caller -> Job] /\ evidenceOne' \in BOOLEAN
  BY DEF EvidenceInv, EvidenceTypeOK
<1> QED
  BY <1>1, InvFrom

LEMMA RenumberKeeps ==
  ASSUME EvidenceInv, NEW c \in Case, Renumber(c)
  PROVE  EvidenceInv'
<1>1. EvidenceTypeOK /\ owner \in [Case -> Number]
  BY DEF EvidenceInv, EvidenceTypeOK
<1>2. owner' \in [Case -> Number]
  BY <1>1 DEF Renumber
<1>3. /\ disk' = disk /\ job' = job /\ crossed' = crossed /\ evidenceOne' = evidenceOne
      /\ truth' \in Value /\ changes' \in 0 .. MaxChanges
  BY <1>1, ChangeTyped DEF Renumber, EvidenceTypeOK
<1> QED
  BY <1>2, <1>3, FolderStays

LEMMA MendKeeps ==
  ASSUME EvidenceInv, Mend
  PROVE  EvidenceInv'
<1>1. EvidenceTypeOK
  BY DEF EvidenceInv
<1>2. /\ disk' = disk /\ job' = job /\ crossed' = crossed /\ evidenceOne' = evidenceOne
      /\ owner' \in [Case -> Number] /\ truth' \in Value /\ changes' \in 0 .. MaxChanges
  BY <1>1, ChangeTyped DEF Mend, EvidenceTypeOK
<1> QED
  BY <1>2, FolderStays

\* The invariant holds, whatever the callers of the folder do to each other
\* (evidence_tools.py).
THEOREM EvidenceAlways == EvidenceSpec => []EvidenceInv
<1>1. EvidenceInit => EvidenceInv
  BY EvidenceBegins
<1>2. EvidenceInv /\ [EvidenceNext]_evidenceVars => EvidenceInv'
  <2> SUFFICES ASSUME EvidenceInv, [EvidenceNext]_evidenceVars PROVE EvidenceInv'
    OBVIOUS
  <2>1. ASSUME NEW t \in Caller, NEW c \in Case, CaptureText(t, c) PROVE EvidenceInv'
    BY <2>1, CaptureTextKeeps
  <2>2. ASSUME NEW t \in Caller, NEW c \in Case, StartShot(t, c) PROVE EvidenceInv'
    BY <2>2, StartShotKeeps
  <2>3. ASSUME NEW t \in Caller, NEW c \in Case, CompareCase(t, c) PROVE EvidenceInv'
    BY <2>3, CompareCaseKeeps
  <2>4. ASSUME NEW t \in Caller, NEW c \in Case, Dashboard(t, c) PROVE EvidenceInv'
    BY <2>4, MarkReviewedKeeps, SaveEditedTextKeeps, StartRerunKeeps DEF Dashboard
  <2>5. ASSUME NEW t \in Caller, TakeShot(t) PROVE EvidenceInv'
    BY <2>5, TakeShotKeeps
  <2>6. ASSUME NEW t \in Caller, CheckShot(t) PROVE EvidenceInv'
    BY <2>6, CheckShotKeeps
  <2>7. ASSUME NEW t \in Caller, EndRerun(t) PROVE EvidenceInv'
    BY <2>7, EndRerunKeeps
  <2>8. ASSUME NEW t \in Caller, SaveFile(t) PROVE EvidenceInv'
    BY <2>8, SaveFileKeeps
  <2>9. ASSUME NEW t \in Caller, Sync(t) PROVE EvidenceInv'
    BY <2>9, SyncKeeps
  <2>10. ASSUME NEW t \in Caller, SyncLooks(t) PROVE EvidenceInv'
    BY <2>10, SyncLooksKeeps
  <2>11. ASSUME NEW t \in Caller, SyncRenames(t) PROVE EvidenceInv'
    BY <2>11, SyncRenamesKeeps
  <2>12. ASSUME NEW c \in Case, Renumber(c) PROVE EvidenceInv'
    BY <2>12, RenumberKeeps
  <2>13. CASE Mend
    BY <2>13, MendKeeps
  <2>14. CASE UNCHANGED evidenceVars
    <3>1. /\ disk' = disk /\ job' = job /\ crossed' = crossed /\ owner' \in [Case -> Number]
          /\ evidenceOne' = evidenceOne /\ truth' \in Value /\ changes' \in 0 .. MaxChanges
      BY <2>14 DEF EvidenceInv, EvidenceTypeOK, evidenceVars
    <3> QED
      BY <3>1, FolderStays
  <2> QED
    BY <2>1, <2>2, <2>3, <2>4, <2>5, <2>6, <2>7, <2>8, <2>9, <2>10, <2>11, <2>12, <2>13, <2>14
    DEF EvidenceNext
<1> QED
  BY <1>1, <1>2, PTL DEF EvidenceSpec

\* Two cases never keep the same picture as their screens once both were
\* looked at, however many episodes and people work on the folder, but for
\* the cases that were crossed (_capture_visual, _same_capture).
THEOREM NoTwinsKept == EvidenceSpec => []NoTwins
<1>1. EvidenceInv => NoTwins
  <2> SUFFICES ASSUME EvidenceInv, NEW c \in Case, NEW e \in Case, c # e,
                      Screenshot(c), Screenshot(e), ~ Busy(c), ~ Busy(e),
                      ({c, e} \X {"png", "json"}) \cap crossed = {}
               PROVE  disk[Find(disk, c, "png")] # disk[Find(disk, e, "png")]
    BY DEF NoTwins
  <2>1. Clean(crossed, c) /\ Clean(crossed, e)
    BY DEF Clean
  <2>2. ASSUME NEW h \in {c, e} PROVE Claimed(disk, job, h)
    <3>1. ~ Busy(h) /\ Screenshot(h)
      BY <2>2
    <3>2. ~ Checking(job, h)
      <4> SUFFICES ASSUME NEW t \in Caller, job[t].at = "check", job[t].path.case = h
                   PROVE  FALSE
        BY DEF Checking
      <4>1. job[t].at \in Holding /\ job[t].path.suffix = "png"
        BY CaseOf DEF Holding
      <4> QED
        BY <3>1, <4>1 DEF Busy
    <3>3. \A t \in Caller : ~ Saves(job, t, h)
      BY <3>1 DEF Saves, Busy, Holding
    <3> QED
      BY <3>1, <3>2, <3>3 DEF Claimed, Screenshot, SpecIs
  <2> QED
    BY <2>1, <2>2 DEF EvidenceInv, FolderOK, Apart, Picture
<1> QED
  BY <1>1, EvidenceAlways, PTL

\* A rename of sync_evidence_names loses no file and no content but where a
\* name was changed in the hands of another call, however many calls look
\* and rename at once, whatever files are there and whatever numbers the
\* plan has (sync_evidence_names, which takes no lock).
THEOREM RenamesKeepFiles == EvidenceSpec => RenamesKeep
<1> DEFINE Kept == \A t \in Caller : SyncRenames(t) =>
                     \A c \in Case, s \in Suffix : <<c, s>> \notin crossed =>
                       /\ Cardinality(Of(disk', c, s)) = Cardinality(Of(disk, c, s))
                       /\ {disk'[f] : f \in Of(disk', c, s)} = {disk[f] : f \in Of(disk, c, s)}
<1>1. EvidenceInv /\ [EvidenceNext]_evidenceVars => Kept
  <2> SUFFICES ASSUME EvidenceInv, NEW t \in Caller, SyncRenames(t), NEW c \in Case,
                      NEW s \in Suffix, <<c, s>> \notin crossed
               PROVE  /\ Cardinality(Of(disk', c, s)) = Cardinality(Of(disk, c, s))
                      /\ {disk'[f] : f \in Of(disk', c, s)} = {disk[f] : f \in Of(disk, c, s)}
    OBVIOUS
  <2> DEFINE f == job[t].next.file
             g == NewName(job[t].next)
             e == Renamed(disk, f, g)
  <2>1. Kinds(disk) /\ Single(disk, c, s)
    BY CallIs DEF AllSettled, Settled
  <2>2. f \in FileName /\ g \in FileName /\ g.case = f.case /\ g.suffix = f.suffix
    BY RenameIs
  <2>3. disk' = disk \/ (f \in DOMAIN disk /\ disk' = e)
    BY DEF SyncRenames, Renamed
  <2> HIDE DEF f, g, e
  <2>4. CASE disk' = disk
    BY <2>4
  <2>5. CASE f \in DOMAIN disk /\ disk' = e /\ f.case = c /\ f.suffix = s
    <3>1. Of(disk, c, s) = {f} /\ Of(e, c, s) = {g} /\ e[g] = disk[f]
      BY <2>1, <2>2, <2>5, RenamedHere DEF e
    <3>2. Cardinality({f}) = 1 /\ Cardinality({g}) = 1
      BY FS_Singleton
    <3> QED
      BY <2>5, <3>1, <3>2
  <2>6. CASE f \in DOMAIN disk /\ disk' = e /\ ~ (f.case = c /\ f.suffix = s)
    <3>1. Of(e, c, s) = Of(disk, c, s) /\ \A h \in Of(disk, c, s) : e[h] = disk[h]
      BY <2>1, <2>2, <2>6, RenamedElsewhere DEF e
    <3> QED
      BY <2>6, <3>1
  <2> QED
    BY <2>3, <2>4, <2>5, <2>6
<1> HIDE DEF Kept
<1>2. EvidenceSpec => [][Kept]_evidenceVars
  BY <1>1, EvidenceAlways, PTL DEF EvidenceSpec
<1> QED
  BY <1>2 DEF RenamesKeep, Kept

\* A text a person accepted keeps its answers until somebody edits it,
\* whichever captures, re-runs and renames come between (capture_evidence,
\* recapture, mark_reviewed, save_edited_text).
THEOREM AcceptedStays == EvidenceSpec => AcceptedStands
<1> DEFINE Stood == \A f \in DOMAIN disk \cap DOMAIN disk' :
             (f.suffix = "txt" /\ disk[f].reviewed /\ disk'[f].reviewed)
               => \/ disk'[f].value = disk[f].value
                  \/ disk'[f].from = "user"
                  \/ \E t \in Caller : job[t].at = "save" /\ job[t].data = disk'[f]
                  \/ \E g \in DOMAIN disk \ DOMAIN disk' : disk'[f] = disk[g]
<1>1. EvidenceInv /\ [EvidenceNext]_evidenceVars => Stood
  <2> SUFFICES ASSUME EvidenceInv, [EvidenceNext]_evidenceVars,
                      NEW f \in DOMAIN disk \cap DOMAIN disk', f.suffix = "txt",
                      disk[f].reviewed, disk'[f].reviewed
               PROVE  \/ disk'[f].value = disk[f].value
                      \/ \E t \in Caller : job[t].at = "save" /\ job[t].data = disk'[f]
                      \/ \E g \in DOMAIN disk \ DOMAIN disk' : disk'[f] = disk[g]
    OBVIOUS
  <2>1. ASSUME NEW t \in Caller, TakeShot(t) PROVE disk'[f] = disk[f]
    <3>1. job[t].path.suffix = "png"
      BY <2>1, CaseOf DEF TakeShot, Holding
    <3>2. disk' = disk \/ \E shot \in Shot : disk' = Put(disk, job[t].path, shot)
      BY <2>1 DEF TakeShot
    <3>3. CASE disk' = disk
      BY <3>3
    <3>4. CASE \E shot \in Shot : disk' = Put(disk, job[t].path, shot)
      BY <3>1, <3>4 DEF Put
    <3> QED
      BY <3>2, <3>3, <3>4
  <2>2. ASSUME NEW t \in Caller, CheckShot(t) PROVE disk'[f] = disk[f]
    <3>1. disk' = disk \/ disk' = Without(disk, job[t].path)
      BY <2>2 DEF CheckShot
    <3> QED
      BY <3>1 DEF Without
  <2>3. ASSUME NEW t \in Caller, EndRerun(t) PROVE disk'[f] = disk[f]
    <3>1. disk' = Put(disk, job[t].path, Rerun(job[t].read))
      BY <2>3 DEF EndRerun
    <3>2. job[t].read \in Text
      BY <2>3, CallIs, JobIs DEF EndRerun
    <3>3. ~ Rerun(job[t].read).reviewed
      BY <3>2 DEF Rerun, Text
    <3>4. disk'[job[t].path] = Rerun(job[t].read)
      BY <3>1 DEF Put
    <3>5. f # job[t].path
      BY <3>3, <3>4
    <3> QED
      BY <3>1, <3>5 DEF Put
  <2>4. ASSUME NEW t \in Caller, SaveFile(t)
        PROVE  \/ disk'[f] = disk[f]
               \/ \E u \in Caller : job[u].at = "save" /\ job[u].data = disk'[f]
    <3>1. job[t].at = "save" /\ disk' = Put(disk, job[t].path, job[t].data)
      BY <2>4 DEF SaveFile
    <3>2. CASE f = job[t].path
      <4>1. disk'[f] = job[t].data
        BY <3>1, <3>2 DEF Put
      <4> QED
        BY <3>1, <4>1
    <3>3. CASE f # job[t].path
      BY <3>1, <3>3 DEF Put
    <3> QED
      BY <3>2, <3>3
  <2>5. ASSUME NEW t \in Caller, SyncRenames(t)
        PROVE  \/ disk'[f] = disk[f]
               \/ \E g \in DOMAIN disk \ DOMAIN disk' : disk'[f] = disk[g]
    <3> DEFINE old == job[t].next.file
               new == NewName(job[t].next)
               e == Renamed(disk, old, new)
    <3>1. old \in FileName /\ new \in FileName /\ new.case = old.case /\ new.suffix = old.suffix
      BY <2>5, RenameIs
    <3>2. disk' = disk \/ (old \in DOMAIN disk /\ disk' = e)
      BY <2>5 DEF SyncRenames, Renamed
    <3> HIDE DEF old, new, e
    <3>3. CASE disk' = disk
      BY <3>3
    <3>4. CASE old \in DOMAIN disk /\ disk' = e
      <4>1. /\ DOMAIN e = (DOMAIN disk \ {old}) \cup {new} /\ e[new] = disk[old]
            /\ \A h \in DOMAIN disk \ {old, new} : e[h] = disk[h]
        BY <3>4 DEF e, Renamed, Put, Without
      <4> QED
        BY <3>4, <4>1
    <3> QED
      BY <3>2, <3>3, <3>4
  <2>6. CASE disk' = disk
    BY <2>6
  <2>7. /\ \A t \in Caller, c \in Case :
             CaptureText(t, c) \/ StartShot(t, c) \/ CompareCase(t, c) \/ Dashboard(t, c)
             => disk' = disk
        /\ \A t \in Caller : Sync(t) \/ SyncLooks(t) => disk' = disk
        /\ \A c \in Case : Renumber(c) => disk' = disk
        /\ Mend => disk' = disk
        /\ UNCHANGED evidenceVars => disk' = disk
    BY DEF CaptureText, StartShot, CompareCase, Dashboard, MarkReviewed, SaveEditedText,
           StartRerun, Sync, SyncLooks, Renumber, Mend, evidenceVars
  <2> QED
    BY <2>1, <2>2, <2>3, <2>4, <2>5, <2>6, <2>7 DEF EvidenceNext
<1> HIDE DEF Stood
<1>2. EvidenceSpec => [][Stood]_evidenceVars
  BY <1>1, EvidenceAlways, PTL DEF EvidenceSpec
<1> QED
  BY <1>2 DEF AcceptedStands, Stood

=============================================================================
