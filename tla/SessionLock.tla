----------------------------- MODULE SessionLock -----------------------------
(***************************************************************************)
(* The lock on a project's .jfi folder                                     *)
(* (src/src/JFI/session/simple_session_manager.py): a flock on one file,   *)
(* which the operating system gives to one process and takes back when     *)
(* that process is gone, and in each process a count of the managers that  *)
(* claim it, since a second open() of the file by the same process would   *)
(* be refused like a stranger's.                                           *)
(***************************************************************************)
EXTENDS Naturals, FiniteSets

CONSTANTS
  Process,    \* processes that run on the project
  Manager,    \* SimpleSessionManager objects
  Home,       \* the process each manager lives in
  NoProcess

ASSUME ManagerAssumption ==
  /\ IsFiniteSet(Manager)
  /\ Home \in [Manager -> Process]
  /\ NoProcess \notin Process

VARIABLES
  registry,  \* _SESSION_LOCKS of each process: the claims counted; 0 is no entry
  holder,    \* the process whose open file has the flock
  claim      \* managers whose _lock_path is set

lockVars == <<registry, holder, claim>>

Claims(p) == {m \in claim : Home[m] = p}

LockTypeOK ==
  /\ registry \in [Process -> Nat]
  /\ holder \in Process \cup {NoProcess}
  /\ claim \subseteq Manager

LockInit ==
  /\ registry = [p \in Process |-> 0]
  /\ holder = NoProcess
  /\ claim = {}

\* __init__ has it: an entry is counted up, or the flock has to be free.
Acquire(m) ==
  LET p == Home[m] IN
  /\ m \notin claim
  /\ \/ registry[p] > 0 /\ UNCHANGED holder
     \/ registry[p] = 0 /\ holder = NoProcess /\ holder' = p
  /\ registry' = [registry EXCEPT ![p] = @ + 1]
  /\ claim' = claim \cup {m}

\* Another process has the flock: SessionInUseError.
InUse(m) == registry[Home[m]] = 0 /\ holder # NoProcess

\* Variant: the first release unlocks the file, whoever else has a claim.
ReleaseAll(m) ==
  LET p == Home[m] IN
  /\ m \in claim
  /\ claim' = claim \ {m}
  /\ registry' = [registry EXCEPT ![p] = 0]
  /\ holder' = NoProcess

\* release_session_lock: the last claim of a process unlocks the file.
Release(m) ==
  LET p == Home[m] IN
  /\ m \in claim
  /\ claim' = claim \ {m}
  /\ registry' = [registry EXCEPT ![p] = @ - 1]
  /\ holder' = IF registry'[p] > 0 THEN holder ELSE NoProcess

\* The process is gone, and with it its memory and its open files.
Die(p) ==
  /\ claim' = claim \ Claims(p)
  /\ registry' = [registry EXCEPT ![p] = 0]
  /\ holder' = IF holder = p THEN NoProcess ELSE holder

LockNext ==
  \/ \E m \in Manager : Acquire(m) \/ Release(m)
  \/ \E p \in Process : Die(p)

LockSpec == LockInit /\ [][LockNext]_lockVars

---------------------------------------------------------------------------
\* The count of a process is the number of its managers at work, and the
\* process that counts any is the one with the flock.
CountedClaims ==
  \A p \in Process :
    /\ registry[p] = Cardinality(Claims(p))
    /\ registry[p] > 0 <=> holder = p

Project == INSTANCE ProjectLock WITH owner <- holder, users <- claim

\* The counts and the flock of simple_session_manager.py keep the promise of
\* ProjectLock: no two processes at work on one project, nobody's claim ends
\* another's, and the project is free when the last one has left or died.
OneProcessAtATime == Project!Spec
=============================================================================
