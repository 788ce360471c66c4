----------------------------- MODULE ProjectLock -----------------------------
(***************************************************************************)
(* What the lock of a project promises: one process at a time works on it, *)
(* with as many managers as it likes, and the project is free again as     *)
(* soon as the last of them has left or the process is gone.  How the      *)
(* claims are counted is left to the implementation.                       *)
(***************************************************************************)
CONSTANTS
  Manager,   \* objects that work on the project
  Home,      \* the process each of them lives in
  NoProcess

VARIABLES
  owner,  \* the process that has the project
  users   \* the managers at work

vars == <<owner, users>>

Init == owner = NoProcess /\ users = {}

Enter(m) ==
  /\ m \notin users
  /\ owner \in {NoProcess, Home[m]}
  /\ owner' = Home[m]
  /\ users' = users \cup {m}

\* One manager leaves, or all managers of a process that ends.
Leave(gone) ==
  /\ gone # {} /\ gone \subseteq users
  /\ users' = users \ gone
  /\ owner' = IF users' = {} THEN NoProcess ELSE owner

Next ==
  \/ \E m \in Manager : Enter(m)
  \/ \E gone \in SUBSET users : Leave(gone)

Spec == Init /\ [][Next]_vars
=============================================================================
