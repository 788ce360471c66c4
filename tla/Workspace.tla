------------------------------ MODULE Workspace ------------------------------
(***************************************************************************)
(* A project folder and those who write in it: the parallel episodes of    *)
(* the planner, Dev at one leaf at a time, a person, and the reviewer's    *)
(* reverts, over sessions that take turns (planner/loop.py, imp/dev.py,    *)
(* review/__init__.py).                                                    *)
(***************************************************************************)
EXTENDS Checkpoints

CONSTANTS
  Thread,     \* the workers of a planner batch
  NoSession,
  Start,      \* the contents a file may start with
  Written,    \* the contents Dev and the person may leave: a small part of RewriteResults
  MaxWrites   \* bound: writes of tools and of the person

ASSUME WorkspaceAssumption ==
  /\ NoSession \notin Session
  /\ Start \subseteq Content
  /\ Written \subseteq RewriteResults
  /\ MaxWrites \in Nat

VARIABLES
  open,       \* the session whose pipeline runs
  at,         \* the leaf Dev works at
  status,     \* Leaf.status
  checkpoint, \* Leaf.checkpoint: the place of its commit in the chain, 0 for none
  call,       \* what a planner thread has read and is about to write
  writes,     \* history variable: writes so far
  edited,     \* history variable: files written since a session's last commit,
              \* a leaf's own revert of them included
  half,       \* history variable: leaves the reviewer was told are half reverted
  overtaken   \* history variable: planner threads whose file a person wrote, or
              \* another such thread, since they read it

leafVars == <<at, status, checkpoint>>
historyVars == <<writes, edited, half, overtaken>>
vars == <<gitVars, open, leafVars, call, historyVars>>

NoCall == [file |-> "none"]

TypeOK ==
  /\ GitTypeOK
  /\ open \in Session \cup {NoSession}
  /\ at \in Leaf \cup {NoLeaf}
  /\ status \in [Leaf -> {"todo", "done"}]
  /\ checkpoint \in [Leaf -> Nat]
  /\ \A l \in Leaf : checkpoint[l] <= Len(chain[SessionOf[l]])
  /\ call \in [Thread -> {NoCall} \cup [file : File, text : Content]]
  /\ edited \in [Session -> SUBSET File]
  /\ half \subseteq Leaf /\ overtaken \subseteq Thread
  /\ writes \in 0 .. MaxWrites

Init ==
  /\ files \in [File -> Start]
  /\ GitInit
  /\ open = NoSession /\ at = NoLeaf
  /\ status = [l \in Leaf |-> "todo"]
  /\ checkpoint = [l \in Leaf |-> 0]
  /\ call = [t \in Thread |-> NoCall]
  /\ writes = 0
  /\ edited = [s \in Session |-> {}]
  /\ half = {} /\ overtaken = {}

Calling == {t \in Thread : call[t] # NoCall}
At(f) == {t \in Calling : call[t].file = f}
Quiet == Calling = {}
Room == writes + Cardinality(Calling) < MaxWrites

Write(f, c) ==
  /\ writes < MaxWrites
  /\ c # files[f]
  /\ files' = [files EXCEPT ![f] = c]
  /\ writes' = writes + 1
  /\ edited' = [s \in Session |-> edited[s] \cup {f}]

(***************************************************************************)
(* The pipeline of a session.                                              *)
(***************************************************************************)

\* Imp.run starts: the baseline, if the session has no commit.
OpenSession(s) ==
  /\ open = NoSession
  /\ open' = s
  /\ EnsureBaseline(s)
  /\ edited' = [edited EXCEPT ![s] = IF chain'[s] # chain[s] THEN {} ELSE @]
  /\ UNCHANGED <<files, leafVars, call, writes, half, overtaken>>

\* The phase ends, is stopped, or its process dies.
CloseSession ==
  /\ open # NoSession /\ Quiet
  /\ open' = NoSession /\ at' = NoLeaf
  /\ UNCHANGED <<gitVars, status, checkpoint, call, historyVars>>

\* A tool of a Lead or Task episode reads its file and has worked out the
\* text it will write.  Nothing keeps two threads apart: code tools are not
\* among the tools _locked guards.
PlannerReads(t, f) ==
  /\ open # NoSession /\ at = NoLeaf
  /\ call[t] = NoCall
  /\ Room
  /\ \E c \in PlannerResults(files[f]) \ {files[f]} :
       call' = [call EXCEPT ![t] = [file |-> f, text |-> c]]
  /\ UNCHANGED <<gitVars, open, leafVars, historyVars>>

PlannerWrites(t) ==
  /\ call[t] # NoCall
  /\ call' = [call EXCEPT ![t] = NoCall]
  /\ LET f == call[t].file
     IN \/ Write(f, call[t].text)
        \/ /\ call[t].text = files[f]
           /\ UNCHANGED <<files, writes, edited>>
  /\ overtaken' = (overtaken \cup IF t \in overtaken THEN At(call[t].file) ELSE {}) \ {t}
  /\ UNCHANGED <<index, chain, open, leafVars, half>>

\* _work picks a leaf.
StartLeaf(l) ==
  /\ open = SessionOf[l] /\ at = NoLeaf /\ Quiet
  /\ status[l] = "todo"
  /\ at' = l
  /\ UNCHANGED <<gitVars, open, status, checkpoint, call, historyVars>>

\* Dev writes with any of its tools.
DevWrites(f) ==
  /\ at # NoLeaf
  /\ \E c \in Written \cup (IF Parsed(files[f]) THEN ReplaceResults(files[f]) \cap Written ELSE {}) :
       Write(f, c)
  /\ UNCHANGED <<index, chain, open, leafVars, call, half, overtaken>>

\* The episode ends without mark_leaf_done: deferred, stopped, split.
LeaveLeaf ==
  /\ at # NoLeaf
  /\ at' = NoLeaf
  /\ UNCHANGED <<gitVars, open, status, checkpoint, call, historyVars>>

\* _finish_leaf: the commit, then the row.  Without a commit the leaf keeps
\* the checkpoint it had.
FinishLeaf ==
  /\ at # NoLeaf
  /\ LET s == SessionOf[at]
     IN \/ /\ CommitFiles(s, at)
           /\ checkpoint' = [checkpoint EXCEPT ![at] = Len(chain'[s])]
           /\ edited' = [edited EXCEPT ![s] = {}]
        \/ /\ CommitFails
           /\ UNCHANGED <<checkpoint, edited>>
  /\ status' = [status EXCEPT ![at] = "done"]
  /\ half' = half \ {at}
  /\ at' = NoLeaf
  /\ UNCHANGED <<files, open, call, writes, overtaken>>

\* The process dies between the two.
DieInFinishLeaf ==
  /\ at # NoLeaf
  /\ CommitFiles(SessionOf[at], at)
  /\ edited' = [edited EXCEPT ![SessionOf[at]] = {}]
  /\ at' = NoLeaf /\ open' = NoSession
  /\ UNCHANGED <<files, status, checkpoint, call, writes, half, overtaken>>

(***************************************************************************)
(* The reviewer.                                                           *)
(***************************************************************************)

\* The commit that last changed a file in a session, 0 for none.
LastChange(s, f) ==
  LET at_f == {c \in 1 .. Len(chain[s]) : f \in Changed(s, c)}
  IN IF at_f = {} THEN 0 ELSE CHOOSE c \in at_f : \A d \in at_f : d <= c

Reviewing(l) == open = SessionOf[l] /\ at = NoLeaf /\ Quiet

\* reopen_leaf without revert, or of a leaf whose commit changed nothing.
ReopenLeaf(l) ==
  /\ Reviewing(l)
  /\ status' = [status EXCEPT ![l] = "todo"]
  /\ UNCHANGED <<gitVars, open, at, checkpoint, call, historyVars>>

PutBack(l, done) ==
  [s \in Session |->
     edited[s] \cup {f \in done : s = SessionOf[l] => chain[s][LastChange(s, f)].leaf = l}]

\* reopen_leaf with revert.
RevertLeaf(l) ==
  LET s == SessionOf[l]
      c == checkpoint[l]
  IN /\ Reviewing(l)
     /\ c # 0 /\ Changed(s, c) # {} /\ CanRevert(s, c)
     /\ Restore(s, c, Changed(s, c))
     /\ status' = [status EXCEPT ![l] = "todo"]
     /\ half' = half \ {l}
     /\ edited' = PutBack(l, Changed(s, c))
     /\ UNCHANGED <<open, at, checkpoint, call, writes, overtaken>>

\* A checkout fails: what came before it has gone back, and the leaf is not
\* reopened.
RevertFails(l) ==
  LET s == SessionOf[l]
      c == checkpoint[l]
  IN /\ Reviewing(l)
     /\ c # 0 /\ CanRevert(s, c)
     /\ \E bad \in {f \in Changed(s, c) : Before(s, c)[f] # Absent} :
          \E done \in SUBSET (Changed(s, c) \ {bad}) :
            /\ Restore(s, c, done)
            /\ edited' = PutBack(l, done)
     /\ half' = half \cup {l}
     /\ UNCHANGED <<open, leafVars, call, writes, overtaken>>

\* A person edits the project at any time, between a tool's reading and its
\* writing too.
PersonWrites(f) ==
  /\ Room
  /\ \E c \in Written : Write(f, c)
  /\ overtaken' = overtaken \cup At(f)
  /\ UNCHANGED <<index, chain, open, leafVars, call, half>>

Next ==
  \/ \E s \in Session : OpenSession(s)
  \/ CloseSession
  \/ \E t \in Thread, f \in File : PlannerReads(t, f)
  \/ \E t \in Thread : PlannerWrites(t)
  \/ \E l \in Leaf : StartLeaf(l) \/ ReopenLeaf(l) \/ RevertLeaf(l) \/ RevertFails(l)
  \/ \E f \in File : DevWrites(f) \/ PersonWrites(f)
  \/ LeaveLeaf
  \/ FinishLeaf
  \/ DieInFinishLeaf

Spec == Init /\ [][Next]_vars

(***************************************************************************)
(* Properties.                                                             *)
(***************************************************************************)

\* What a finished leaf built is on disk as it was committed, unless
\* somebody wrote the file since (the reverts of another session among them)
\* or the reviewer was told its revert failed half-way: no revert of another
\* leaf of its session takes it away (revert_leaf's refusal,
\* checkpoint_tools.py:106-113).
DoneWorkOnDisk ==
  \A s \in Session, f \in File :
    LET c == LastChange(s, f)
    IN c # 0 /\ f \notin edited[s]
       => LET l == chain[s][c].leaf
          IN l \in Leaf /\ l \notin half /\ status[l] = "done"
             => files[f] = LastTree(s)[f]

\* The planner's tools never take real code away, whatever two episodes at
\* the same file read and write in between (code_tools.py:7-22: they write
\* stubs and markers only).  What a tool can lose is what a person wrote since it
\* read the file (code_tools.py:207-217, 273-292, 500-509), and a file whose new
\* stub or marker doesn't parse hides its code, which is still in it.  Code that
\* holds its stub's lines is not protected: _is_stub takes it for a stub.
RealCodeKept ==
  [][\A t \in Thread : PlannerWrites(t) /\ t \notin overtaken =>
       \A f \in File : Parsed(files[f]) =>
         \A n \in Name : RealCode(files[f][n]) =>
           \/ Parsed(files'[f]) /\ RealCode(files'[f][n])
           \/ f = call[t].file /\ files'[f] = Broken]_vars
=============================================================================
