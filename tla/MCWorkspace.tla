----------------------------- MODULE MCWorkspace -----------------------------
(***************************************************************************)
(* A session with two leaves over two small files.                         *)
(***************************************************************************)
EXTENDS Workspace, TLC

CONSTANTS x, s1

OneSession == [l \in Leaf |-> s1]
JustX(s) == [n \in Name |-> IF n = x THEN s ELSE "none"]
Starts == {Absent, JustX("code")}
Texts == {Absent, JustX("code"), JustX("other")}

Alike == Permutations(File) \cup Permutations(Leaf) \cup Permutations(Thread)
=============================================================================
