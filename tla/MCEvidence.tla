----------------------------- MODULE MCEvidence -----------------------------
(***************************************************************************)
(* Two cases, two episodes or an episode and the dashboard.                *)
(***************************************************************************)
EXTENDS Evidence, TLC

Alike == Permutations(Case) \cup Permutations(Caller) \cup Permutations(Frame)
=============================================================================
