------------------------------ MODULE MCBridge ------------------------------
(***************************************************************************)
(* Two sessions of one process or two, three questions, and two clicks,    *)
(* answers, pauses or files that cannot be removed.                        *)
(***************************************************************************)
EXTENDS Bridge
=============================================================================
