------------------------------ MODULE MCSession ------------------------------
(* Two processes on one project; the first has a second manager that only  *)
(* looks, and a batch of one worker beside its main thread.                *)
EXTENDS Session

MCHome == [m \in Manager |-> IF m = "other" THEN "q" ELSE "p"]
=============================================================================
