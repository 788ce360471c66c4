----------------------------- MODULE Checkpoints -----------------------------
(***************************************************************************)
(* The private git repository of a project: a chain of commits for each    *)
(* session, one for every finished leaf, and the revert of a leaf          *)
(* (src/src/JFI/tool/checkpoint_tools.py).                                 *)
(***************************************************************************)
EXTENDS CodeTools, Sequences, FiniteSets, Integers

CONSTANTS
  File,
  Session,
  Leaf,
  NoLeaf,
  SessionOf,  \* the session a leaf belongs to
  MaxCommits  \* bound: commits of one session

ASSUME CheckpointAssumption ==
  /\ NoLeaf \notin Leaf
  /\ SessionOf \in [Leaf -> Session]
  /\ MaxCommits \in Nat

VARIABLES
  files,      \* the work tree
  index,      \* the files git's index has, the same one for every session
  chain       \* refs/jfi/<session>: its commits, the oldest first

gitVars == <<files, index, chain>>

Tree == [File -> Content]
Commit == [leaf : Leaf \cup {NoLeaf}, tree : Tree]

GitTypeOK ==
  /\ files \in Tree
  /\ index \subseteq File
  /\ chain \in [Session -> Seq(Commit)]
  /\ \A s \in Session : Len(chain[s]) <= MaxCommits

GitInit ==
  /\ index = {}
  /\ chain = [s \in Session |-> <<>>]

OnDisk == {f \in File : files[f] # Absent}
NoFiles == [f \in File |-> Absent]
Before(s, c) == IF c = 1 THEN NoFiles ELSE chain[s][c - 1].tree

\* diff-tree --root: the files commit c changed.
Changed(s, c) == {f \in File : chain[s][c].tree[f] # Before(s, c)[f]}
LastTree(s) == chain[s][Len(chain[s])].tree

\* checkpoint: add -A, write-tree, commit-tree, update-ref.  Where one of
\* them fails there is no commit.
CommitFiles(s, l) ==
  /\ Len(chain[s]) < MaxCommits
  /\ index' = OnDisk
  /\ chain' = [chain EXCEPT ![s] = Append(@, [leaf |-> l, tree |-> files])]

CommitFails == UNCHANGED <<index, chain>>

EnsureBaseline(s) ==
  IF chain[s] = <<>>
  THEN CommitFiles(s, NoLeaf) \/ CommitFails
  ELSE UNCHANGED <<index, chain>>

\* log sha..last -- files
LaterLeaves(s, c) == {k \in c + 1 .. Len(chain[s]) : Changed(s, k) \cap Changed(s, c) # {}}

\* diff last -- files.  git looks at the files of the index and of the
\* commit: one that is on disk only is not seen.
Seen(f) == IF f \in index THEN files[f] ELSE Absent
EditedSince(s, c) == {f \in Changed(s, c) : Seen(f) # LastTree(s)[f]}

\* Variant: only the edits since the last checkpoint are looked for.
CanRevertUnlessEdited(s, c) == EditedSince(s, c) = {}
CanRevert(s, c) == LaterLeaves(s, c) = {} /\ EditedSince(s, c) = {}

\* The files in done go back; a checkout also puts its file in the index.
Restore(s, c, done) ==
  LET kept == {f \in done : Before(s, c)[f] # Absent}
  IN /\ files' = [f \in File |-> IF f \in done THEN Before(s, c)[f] ELSE files[f]]
     /\ index' = index \cup kept
     /\ UNCHANGED chain
=============================================================================
