---------------------------- MODULE RequestQueue ----------------------------
(***************************************************************************)
(* What the console promises of the requests a person makes during a run:  *)
(* each is handed to the pipeline once, those that wait for the next       *)
(* iteration in the order they were made, ahead of the ones after them,    *)
(* unless the person promotes them to the current turn.  Who makes them,   *)
(* who takes them, and what is saved, is left to the implementation.       *)
(***************************************************************************)
EXTENDS Naturals, Sequences, SequencesExt

CONSTANT Request

VARIABLES
  left,     \* what the last run of the program left in the store
  waiting,  \* for the next iteration
  urgent,   \* for the current turn
  handed,   \* the requests handed to the pipeline
  made      \* the requests there are

vars == <<left, waiting, urgent, handed, made>>

Init ==
  /\ left \in Seq(Request) /\ IsInjective(left)
  /\ waiting = <<>> /\ urgent = <<>> /\ handed = {}
  /\ made = ToSet(left)

Make(r) ==
  /\ r \notin made /\ made' = made \cup {r}
  /\ \/ waiting' = Append(waiting, r) /\ UNCHANGED urgent
     \/ urgent' = Append(urgent, r) /\ UNCHANGED waiting
  /\ UNCHANGED <<left, handed>>

Promote(i) ==
  /\ urgent' = Append(urgent, waiting[i])
  /\ waiting' = RemoveAt(waiting, i)
  /\ UNCHANGED <<left, handed, made>>

Restore ==
  /\ waiting' = waiting \o left /\ left' = <<>>
  /\ UNCHANGED <<urgent, handed, made>>

Hand(q) == ToSet(q) \cap handed = {} /\ handed' = handed \cup ToSet(q)

TakeUrgent ==
  /\ Hand(urgent) /\ urgent' = <<>>
  /\ UNCHANGED <<left, waiting, made>>

TakeWaiting(n) ==
  /\ Hand(SubSeq(waiting, 1, n))
  /\ waiting' = SubSeq(waiting, n + 1, Len(waiting))
  /\ UNCHANGED <<left, urgent, made>>

Next ==
  \/ \E r \in Request : Make(r)
  \/ \E i \in DOMAIN waiting : Promote(i) \/ TakeWaiting(i)
  \/ Restore \/ TakeUrgent

Spec == Init /\ [][Next]_vars
=============================================================================
