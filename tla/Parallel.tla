------------------------------ MODULE Parallel ------------------------------
(***************************************************************************)
(* How many episodes of a role run side by side                            *)
(* (src/src/JFI/llm/parallel.py): PARALLEL_LLM, cut to what the role's     *)
(* model server says it serves at once and to how many whole episodes its  *)
(* context holds, since a local server's slots share one context.          *)
(***************************************************************************)
EXTENDS Naturals

MAX_PARALLEL_LLM == 10

\* A model server as the probe finds it: `slots` is what it reports serving
\* at once and `context` the context it is loaded with, 0 where it reports
\* neither (not loaded, not reachable, no such field).
Server == [backend : {"anthropic", "lmstudio", "llamacpp", "ollama", "other"},
           local : BOOLEAN, slots : Nat, context : Nat]

\* The setting, clamped; one that is no number counts as 1.
RequestedParallel(setting) ==
  IF setting < 1 THEN 1
  ELSE IF setting > MAX_PARALLEL_LLM THEN MAX_PARALLEL_LLM ELSE setting

\* `slots`, cut to how many episodes of `window` tokens the context holds.
Fits(slots, context, window) ==
  LET whole == context \div window
  IN  IF context = 0 \/ whole >= slots THEN slots
      ELSE IF whole < 1 THEN 1 ELSE whole

\* A hosted API: no limit to respect.
Hosted(server) ==
  \/ server.backend = "anthropic"
  \/ server.backend = "other" /\ server.slots = 0 /\ ~ server.local

\* Ollama isn't asked; a server that reports no slots has one.
ServerParallel(server, window) ==
  IF server.backend = "ollama" \/ server.slots = 0 THEN 1
  ELSE Fits(server.slots, server.context, window)

EffectiveParallel(setting, server, window) ==
  LET wanted == RequestedParallel(setting)
      slots == ServerParallel(server, window)
  IN  IF wanted = 1 THEN 1
      ELSE IF Hosted(server) \/ wanted <= slots THEN wanted ELSE slots
=============================================================================
