----------------------------- MODULE MCPipeline -----------------------------
(***************************************************************************)
(* A small session for model-checking Pipeline.                            *)
(***************************************************************************)
EXTENDS Pipeline

CONSTANTS r1, bye

Typed == {r1, bye}
Leaving == {bye}
=============================================================================
