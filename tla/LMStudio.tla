------------------------------ MODULE LMStudio ------------------------------
(***************************************************************************)
(* UNLOAD_LLM_BEFORE_LAYA=1: a judge step takes LM Studio's models out,    *)
(* asks Laya in a child process and puts the models back                   *)
(* (src/src/JFI/llm/lmstudio_control.py, _predict of planner/judge.py).    *)
(*                                                                         *)
(* A model is one with the settings it was loaded with; `lms load` with    *)
(* these settings gives the same one back, up to the milliseconds of a     *)
(* TTL.  Embedding models are no part of a snapshot, but are unloaded.     *)
(***************************************************************************)
CONSTANTS
  Model,      \* LLMs with their settings
  Available   \* whether the lms command was found

VARIABLES
  pc,         \* "idle", "listed", "asking" or "reloading"
  loaded,     \* the LLMs in LM Studio's memory
  snapshot,   \* models_unloaded's list
  todo,       \* those of it not yet tried
  answer,     \* how the last step went: "none", "ok", "failed"
  wanted,     \* history: what was loaded when a step began, or loaded since
  failed,     \* history: those lms could not load again
  dropped,    \* history: those left out by an unload that failed or a kill
  missed      \* history: those that came between the list and the unload

losses == <<failed, dropped, missed>>
lmVars == <<pc, loaded, snapshot, todo, answer, wanted, losses>>

\* A model that is loaded again is lost no longer.
Found(m) == failed' = failed \ {m} /\ dropped' = dropped \ {m} /\ missed' = missed \ {m}

LMInit ==
  /\ pc = "idle" /\ loaded \in SUBSET Model /\ snapshot = {} /\ todo = {}
  /\ answer = "none" /\ wanted = loaded
  /\ failed = {} /\ dropped = {} /\ missed = {}

(***************************************************************************)
(* models_unloaded: before the step.                                       *)
(***************************************************************************)
\* Without lms the step runs beside the models.
Unmanaged ==
  /\ pc = "idle" /\ ~Available /\ pc' = "asking"
  /\ UNCHANGED <<loaded, snapshot, todo, answer, wanted, losses>>

List ==
  /\ pc = "idle" /\ Available
  /\ pc' = "listed" /\ snapshot' = loaded
  /\ UNCHANGED <<loaded, todo, answer, wanted, losses>>

\* `lms ps` fails: nothing was touched, and the rule judges alone.
ListFails ==
  /\ pc = "idle" /\ Available /\ answer' = "failed"
  /\ UNCHANGED <<pc, loaded, snapshot, todo, wanted, losses>>

\* With no LLM on the list nothing is unloaded.
NothingLoaded ==
  /\ pc = "listed" /\ snapshot = {} /\ pc' = "asking"
  /\ UNCHANGED <<loaded, snapshot, todo, answer, wanted, losses>>

\* What was loaded after the list was made goes too, and is not on it.
Unload ==
  /\ pc = "listed" /\ snapshot # {}
  /\ loaded' = {} /\ todo' = snapshot /\ pc' = "asking"
  /\ missed' = missed \union (loaded \ snapshot)
  /\ UNCHANGED <<snapshot, answer, wanted, failed, dropped>>

\* `lms unload --all` fails, some models gone: it is called before the try,
\* so the error leaves without putting them back.
UnloadFails ==
  /\ pc = "listed" /\ snapshot # {}
  /\ \E left \in SUBSET loaded : loaded' = left /\ dropped' = dropped \union (loaded \ left)
  /\ pc' = "idle" /\ answer' = "failed"
  /\ UNCHANGED <<snapshot, todo, wanted, failed, missed>>

(***************************************************************************)
(* The step, in a child process; then the reloads.                         *)
(***************************************************************************)
\* The child answers, reports an error, dies, or is silent for
\* CHILD_TIMEOUT_SECONDS; it is joined, or killed, before any model is loaded.
StepEnds ==
  /\ pc = "asking" /\ pc' = "reloading" /\ answer' \in {"ok", "failed"}
  /\ UNCHANGED <<loaded, snapshot, todo, wanted, losses>>

Reload(m) ==
  /\ pc = "reloading" /\ m \in todo
  /\ todo' = todo \ {m}
  /\ \/ loaded' = loaded \union {m} /\ Found(m)
     \/ failed' = failed \union ({m} \ loaded) /\ UNCHANGED <<loaded, dropped, missed>>
  /\ UNCHANGED <<pc, snapshot, answer, wanted>>

StepOver ==
  /\ pc = "reloading" /\ todo = {} /\ pc' = "idle" /\ snapshot' = {}
  /\ UNCHANGED <<loaded, todo, answer, wanted, losses>>

(***************************************************************************)
(* Around it.                                                              *)
(***************************************************************************)
\* A person, or a request to the server, loads a model; a person unloads one.
SomeoneLoads(m) ==
  /\ loaded' = loaded \union {m} /\ wanted' = wanted \union {m} /\ Found(m)
  /\ UNCHANGED <<pc, snapshot, todo, answer>>

SomeoneUnloads(m) ==
  /\ loaded' = loaded \ {m} /\ wanted' = wanted \ {m}
  /\ UNCHANGED <<pc, snapshot, todo, answer, losses>>

\* The process ends while its worker thread is in the step: `finally` is not
\* reached, and nothing on disk says what was loaded.
Killed ==
  /\ pc # "idle" /\ pc' = "idle"
  /\ dropped' = dropped \union (wanted \ loaded) /\ todo' = {} /\ snapshot' = {}
  /\ UNCHANGED <<loaded, answer, wanted, failed, missed>>

LMNext ==
  \/ Unmanaged \/ List \/ ListFails \/ NothingLoaded \/ Unload \/ UnloadFails
  \/ StepEnds \/ StepOver \/ Killed
  \/ \E m \in Model : Reload(m) \/ SomeoneLoads(m) \/ SomeoneUnloads(m)

LMSpec == LMInit /\ [][LMNext]_lmVars

(***************************************************************************)
(* Properties.                                                             *)
(***************************************************************************)
Lost == failed \union dropped \union missed

\* "a failed Laya step never leaves the user without their LLM": between
\* steps the models that were wanted are there, and those that aren't have not
\* been there since lms failed to load them, an unload failed midway, the
\* process was killed, or they came between the list and an unload that went
\* well, which takes them out and doesn't know of them.
ModelsBack ==
  /\ pc = "idle" => wanted \subseteq loaded \union Lost
  /\ Lost \intersect loaded = {}
=============================================================================
