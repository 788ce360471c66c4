---------------------------- MODULE MCInputQueue ----------------------------
(* The input queue with one dashboard. *)
EXTENDS InputQueue
=============================================================================
