------------------------------ MODULE Services ------------------------------
(***************************************************************************)
(* What episodes start that outlives a tool call: background processes     *)
(* (src/src/JFI/tool/process_tools.py) and the one headless browser of a   *)
(* JFI process (src/src/JFI/tool/browser_session.py).  Any role may load   *)
(* these tools, so the episodes of a parallel batch call them side by      *)
(* side, and unlike the plan tools they take no lock.                      *)
(*                                                                         *)
(* A step ends where the interpreter may switch threads between two        *)
(* accesses to what is shared: at a call or a wait.                        *)
(***************************************************************************)
EXTENDS Batch

CONSTANT MaxHandle      \* bound: background processes started

ASSUME MaxHandleAssumption == MaxHandle \in Nat

Handle == 1 .. MaxHandle
Browser == 0 .. Cardinality(Thread)    \* 0 is no BrowserSession
NoHandle == 0

VARIABLES
  next_id,      \* _next_id: handles given out
  registry,     \* handles in _registry
  metadata,     \* handles in _metadata
  wrapper,      \* the shell that start_background_process runs the command in
  child,        \* whether what the shell started is alive
  stubborn,     \* the child ignores SIGTERM (a lone command, which the shell becomes, is a child too)
  record,       \* the session's context entry bg_process:<handle>
  at,           \* where each episode is in its call
  handle,       \* the process that call is about
  finished_set, \* clear_finished_processes' list
  stopped,      \* processes an answer has called stopped cleanly
  session,      \* _SESSION
  made,         \* BrowserSession objects made so far
  open_pages,   \* those with a browser running
  raced,        \* two episodes made a BrowserSession at once
  over          \* the session's end has closed the browser

processVars == <<next_id, registry, metadata, wrapper, child, stubborn, record,
                 handle, finished_set, stopped>>
browserVars == <<session, made, open_pages, raced>>
serviceVars == <<processVars, browserVars, at, over>>

At == {"idle", "popened", "recording", "found", "probing", "killing", "stopped",
       "clearing", "making", "calling"}

ServicesInit ==
  /\ next_id = 0 /\ registry = {} /\ metadata = {}
  /\ wrapper = [h \in Handle |-> "none"] /\ child = [h \in Handle |-> FALSE]
  /\ stubborn = [h \in Handle |-> FALSE]
  /\ record = [h \in Handle |-> "none"]
  /\ at = [t \in Thread |-> "idle"] /\ handle = [t \in Thread |-> NoHandle]
  /\ finished_set = [t \in Thread |-> {}] /\ stopped = {}
  /\ session = 0 /\ made = 0 /\ open_pages = {} /\ raced = FALSE
  /\ over = FALSE

---------------------------------------------------------------------------
(* The operating system's side.                                            *)

\* A process group exists while it has a member, a zombie included.
GroupExists(h) == wrapper[h] \in {"running", "zombie"} \/ child[h]
Alive(h) == wrapper[h] = "running" \/ child[h]

\* poll(): an exited wrapper is reaped.
Reaped(hs) == [h \in Handle |-> IF h \in hs /\ wrapper[h] = "zombie" THEN "reaped" ELSE wrapper[h]]
Polled(h) == IF wrapper[h] = "zombie" THEN "reaped" ELSE wrapper[h]

WrapperExits(h) ==
  /\ wrapper[h] = "running"
  /\ wrapper' = [wrapper EXCEPT ![h] = "zombie"]
  /\ UNCHANGED <<next_id, registry, metadata, child, stubborn, record, handle,
                 finished_set, stopped, browserVars, at, over>>

ChildExits(h) ==
  /\ child[h]
  /\ child' = [child EXCEPT ![h] = FALSE]
  /\ UNCHANGED <<next_id, registry, metadata, wrapper, stubborn, record, handle,
                 finished_set, stopped, browserVars, at, over>>

\* snapshot_processes, by list_processes or for a dashboard's tick.
Snapshot ==
  /\ wrapper' = Reaped(registry)
  /\ wrapper' # wrapper
  /\ UNCHANGED <<next_id, registry, metadata, child, stubborn, record, handle,
                 finished_set, stopped, browserVars, at, over>>

---------------------------------------------------------------------------
(* start_background_process.                                               *)

Idle(t) == at[t] = "idle" /\ ~ over
Goes(t, where) == at' = [at EXCEPT ![t] = where]
For(t, h) == handle' = [handle EXCEPT ![t] = h]

\* The handle is used up though Popen fails.
StartFails(t) ==
  /\ Idle(t) /\ next_id < MaxHandle
  /\ next_id' = next_id + 1
  /\ UNCHANGED <<registry, metadata, wrapper, child, stubborn, record, handle,
                 finished_set, stopped, browserVars, at, over>>

Start(t, forks, ignores) ==
  /\ Idle(t) /\ next_id < MaxHandle
  /\ ignores => forks
  /\ LET h == next_id + 1
     IN  /\ next_id' = h /\ For(t, h) /\ Goes(t, "popened")
         /\ registry' = registry \cup {h}
         /\ wrapper' = [wrapper EXCEPT ![h] = "running"]
         /\ child' = [child EXCEPT ![h] = forks]
         /\ stubborn' = [stubborn EXCEPT ![h] = ignores]
  /\ UNCHANGED <<metadata, record, finished_set, stopped, browserVars, over>>

Describe(t) ==
  /\ at[t] = "popened"
  /\ metadata' = metadata \cup {handle[t]}
  /\ Goes(t, "recording")
  /\ UNCHANGED <<next_id, registry, wrapper, child, stubborn, record, handle,
                 finished_set, stopped, browserVars, over>>

\* _mirror_to_context, after a start and after a stop: nothing is written of a
\* process whose entry was cleared, and a snapshot that meets an entry without
\* its metadata raises.
Mirror(t) ==
  /\ at[t] \in {"recording", "stopped"}
  /\ wrapper' = IF registry \subseteq metadata THEN Reaped(registry) ELSE wrapper
  /\ record' = IF registry \subseteq metadata /\ handle[t] \in registry
               THEN [record EXCEPT ![handle[t]] =
                       IF Polled(handle[t]) = "running" THEN "running" ELSE "exited"]
               ELSE record
  /\ Goes(t, "idle") /\ For(t, NoHandle)
  /\ UNCHANGED <<next_id, registry, metadata, child, stubborn, finished_set, stopped,
                 browserVars, over>>

---------------------------------------------------------------------------
(* stop_background_process.                                                *)

\* An exited wrapper ends the call: "already exited".
Find(t, h) ==
  /\ Idle(t) /\ h \in registry
  /\ wrapper' = Reaped({h})
  /\ Goes(t, IF Polled(h) = "running" THEN "found" ELSE "stopped") /\ For(t, h)
  /\ UNCHANGED <<next_id, registry, metadata, child, stubborn, record, finished_set,
                 stopped, browserVars, over>>

\* No metadata raises; a reaped wrapper is "already gone"; else SIGTERM goes to
\* the group.
Terminate(t) ==
  LET h == handle[t]
  IN  /\ at[t] = "found"
      /\ IF h \notin metadata THEN Goes(t, "idle") /\ For(t, NoHandle) /\ UNCHANGED <<wrapper, child>>
         ELSE IF wrapper[h] = "reaped" THEN Goes(t, "stopped") /\ UNCHANGED <<wrapper, child, handle>>
         ELSE /\ wrapper' = [wrapper EXCEPT ![h] = "zombie"]
              /\ child' = [child EXCEPT ![h] = @ /\ stubborn[h]]
              /\ Goes(t, "probing") /\ UNCHANGED handle
      /\ UNCHANGED <<next_id, registry, metadata, stubborn, record, finished_set, stopped,
                     browserVars, over>>

\* Variant: the wrapper alone is waited for.
ProbeWrapper(t) ==
  LET h == handle[t]
  IN  /\ at[t] = "probing"
      /\ wrapper' = Reaped({h})
      /\ stopped' = stopped \cup {h} /\ Goes(t, "stopped")
      /\ UNCHANGED <<next_id, registry, metadata, child, stubborn, record, handle,
                     finished_set, browserVars, over>>

\* The group is gone: "stopped cleanly".  Or time is up.
Probe(t) ==
  LET h == handle[t]
  IN  /\ at[t] = "probing"
      /\ wrapper' = Reaped({h})
      /\ \/ ~ child[h] /\ stopped' = stopped \cup {h} /\ Goes(t, "stopped")
         \/ child[h] /\ stopped' = stopped /\ Goes(t, "killing")
      /\ UNCHANGED <<next_id, registry, metadata, child, stubborn, record, handle,
                     finished_set, browserVars, over>>

\* SIGKILL, and the wrapper is waited for; nobody looks whether the group has
\* gone by the time it is called force-killed (a process inside the kernel hasn't).
Kill(t) ==
  LET h == handle[t]
  IN  /\ at[t] = "killing"
      /\ wrapper' = Reaped({h})
      /\ child' = [child EXCEPT ![h] = FALSE] \/ child' = child
      /\ Goes(t, "stopped")
      /\ UNCHANGED <<next_id, registry, metadata, stubborn, record, handle, finished_set,
                     stopped, browserVars, over>>

---------------------------------------------------------------------------
(* clear_finished_processes.                                               *)

LookForFinished(t) ==
  /\ Idle(t)
  /\ wrapper' = Reaped(registry)
  /\ finished_set' = [finished_set EXCEPT ![t] = {h \in registry : Polled(h) = "reaped"}]
  /\ Goes(t, "clearing")
  /\ UNCHANGED <<next_id, registry, metadata, child, stubborn, record, handle, stopped,
                 browserVars, over>>

\* Another episode's clear may have been first: then `del` raises at once.
Clear(t) ==
  /\ at[t] = "clearing"
  /\ LET gone == {h \in finished_set[t] :
                    \A g \in finished_set[t] : g <= h => g \in registry /\ g \in metadata}
     IN  registry' = registry \ gone /\ metadata' = metadata \ gone
  /\ finished_set' = [finished_set EXCEPT ![t] = {}]
  /\ Goes(t, "idle")
  /\ UNCHANGED <<next_id, wrapper, child, stubborn, record, handle, stopped,
                 browserVars, over>>

---------------------------------------------------------------------------
(* The browser: one BrowserSession, whose worker takes one call at a time. *)

Browse(t) ==
  /\ Idle(t)
  /\ Goes(t, IF session = 0 THEN "making" ELSE "calling")
  /\ UNCHANGED <<processVars, browserVars, over>>

\* `_SESSION = BrowserSession()`, once the constructor returns.
Make(t) ==
  /\ at[t] = "making"
  /\ made' = made + 1 /\ session' = made + 1
  /\ raced' = (raced \/ session # 0)
  /\ Goes(t, "calling")
  /\ UNCHANGED <<processVars, open_pages, over>>

\* `open` launches a browser unless one is open, "close" ends it, and the rest
\* need an open page.
Dispatch(t, what) ==
  /\ at[t] = "calling"
  /\ open_pages' = CASE what = "open" -> open_pages \cup {session}
                     [] what = "close" -> open_pages \ {session}
                     [] OTHER -> open_pages
  /\ Goes(t, "idle")
  /\ UNCHANGED <<processVars, session, made, raced, over>>

\* close_browser, at the session's end: no episode is running any more.
CloseBrowser ==
  /\ ~ over /\ \A t \in Thread : at[t] = "idle"
  /\ over' = TRUE
  /\ open_pages' = open_pages \ {session} /\ session' = 0
  /\ UNCHANGED <<processVars, made, raced, at>>
---------------------------------------------------------------------------

\* The calls of episode t that begin, and those that go on.
Begins(t) ==
  \/ StartFails(t)
  \/ \E forks, ignores \in BOOLEAN : Start(t, forks, ignores)
  \/ \E h \in Handle : Find(t, h)
  \/ LookForFinished(t)
  \/ Browse(t)

GoesOn(t) ==
  \/ Describe(t) \/ Mirror(t) \/ Terminate(t) \/ Probe(t) \/ Kill(t) \/ Clear(t) \/ Make(t)
  \/ \E what \in {"open", "close", "other"} : Dispatch(t, what)

Around == (\E h \in Handle : WrapperExits(h) \/ ChildExits(h)) \/ Snapshot

---------------------------------------------------------------------------

\* What was ended is gone, whatever other episodes poll, clear, open or close
\* meanwhile: a process reported as stopped leaves nothing running though what
\* its shell started ignores SIGTERM, and the session's end leaves no browser
\* behind.  Of one that is force-killed nothing is promised but the signal.  Two
\* episodes that make a BrowserSession at once are the exception: nothing
\* prevents it, and one of the two is lost.
EndedIsGone ==
  /\ \A h \in stopped : ~ Alive(h)
  /\ over => open_pages = {} \/ raced
=============================================================================
