------------------------------ MODULE MCEpisode ------------------------------
(* The episode, with and without a dashboard. *)
EXTENDS Episode
=============================================================================
