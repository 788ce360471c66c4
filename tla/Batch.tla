-------------------------------- MODULE Batch -------------------------------
(***************************************************************************)
(* A parallel batch (src/src/JFI/planner/loop.py:430-445): episodes on     *)
(* different nodes of one level, each in a thread of its own.              *)
(***************************************************************************)
EXTENDS Naturals, FiniteSets

CONSTANT Thread       \* the episodes of a batch
=============================================================================
