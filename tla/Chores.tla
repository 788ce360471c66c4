------------------------------- MODULE Chores -------------------------------
(***************************************************************************)
(* What Imp runs of the runbook around the leaves: `setup` before them,    *)
(* `build` and the scan for leftover markers after them, and the Dev       *)
(* episodes without a leaf that mend what fails (src/src/JFI/imp/dev.py).  *)
(*                                                                         *)
(* Dev's episodes may change the files, so that any command passes or      *)
(* fails afterwards, and the runbook (runbook_set).  A command that runs   *)
(* changes neither; one that times out failed.                             *)
(***************************************************************************)
CONSTANTS
  Command,   \* what a runbook entry may run
  NoEntry    \* in place of an entry that the runbook lacks

VARIABLES
  at,        \* "setup", "mend setup", "leaves", "finish", "mend finish",
             \*   "over" or "stopped"
  setup,     \* the runbook entries: a command, or NoEntry
  build,
  verified,  \* the commands whose entry is marked verified, by entry
  passing,   \* the commands that would exit 0 now
  markers,   \* whether a JFI marker is left in the tree
  notes,     \* what add_reviewer_note told the reviewer
  ran,       \* history: how the last run of each entry's command went
  cut,       \* history: a stop kept the finish-up from mending what it found
  stopped    \* _stop

choreVars == <<at, setup, build, verified, passing, markers, notes, ran, cut, stopped>>

Entry == Command \union {NoEntry}

NotRun == [command |-> NoEntry, passed |-> FALSE]
Ran(command) == [command |-> command, passed |-> command \in passing]

ChoresInit ==
  /\ at = "setup" /\ setup \in Entry /\ build \in Entry
  /\ verified = [setup |-> FALSE, build |-> FALSE]
  /\ passing \in SUBSET Command /\ markers \in BOOLEAN
  /\ notes = {} /\ ran = [setup |-> NotRun, build |-> NotRun]
  /\ cut = FALSE /\ stopped = FALSE

\* The problems of the tree (the build, scan_markers), as the reviewer is told.
Broken == {p \in {"build", "markers"} :
             IF p = "build" THEN build \in Command \ passing ELSE markers}

(***************************************************************************)
(* _setup.                                                                 *)
(***************************************************************************)
SetupSkipped ==
  /\ at = "setup" /\ (setup = NoEntry \/ verified.setup)
  /\ at' = "leaves"
  /\ UNCHANGED <<setup, build, verified, passing, markers, notes, ran, cut, stopped>>

SetupRuns ==
  /\ at = "setup" /\ setup # NoEntry /\ ~verified.setup
  /\ ran' = [ran EXCEPT !.setup = Ran(setup)]
  /\ \/ setup \in passing /\ at' = "leaves" /\ verified' = [verified EXCEPT !.setup = TRUE]
     \/ /\ setup \notin passing /\ UNCHANGED verified
        /\ at' = IF stopped THEN "stopped" ELSE "mend setup"
  /\ UNCHANGED <<setup, build, passing, markers, notes, cut, stopped>>

\* After the chore the entry is read and run once more, stopped or not.
SetupMended ==
  /\ at = "mend setup" /\ at' = "leaves"
  /\ ran' = [ran EXCEPT !.setup = Ran(setup)]
  /\ \/ /\ setup \in passing /\ verified' = [verified EXCEPT !.setup = TRUE]
        /\ UNCHANGED notes
     \/ setup \notin passing /\ notes' = notes \union {"setup"} /\ UNCHANGED verified
  /\ UNCHANGED <<setup, build, passing, markers, cut, stopped>>

(***************************************************************************)
(* Dev's episodes, of leaves and of chores, to the end of the queue.       *)
(***************************************************************************)
\* runbook_set: no entry is ever deleted, and another command is unverified
\* unless the call verifies it.
DevSets(entry, name) ==
  \E c \in Command, v \in BOOLEAN :
    /\ entry' = c
    /\ verified' = [verified EXCEPT ![name] = v \/ (@ /\ c = entry)]

DevWorks ==
  /\ at \in {"mend setup", "leaves", "mend finish"}
  /\ \/ passing' \in SUBSET Command /\ markers' \in BOOLEAN
        /\ UNCHANGED <<setup, build, verified>>
     \/ DevSets(setup, "setup") /\ UNCHANGED <<build, passing, markers>>
     \/ DevSets(build, "build") /\ UNCHANGED <<setup, passing, markers>>
  /\ UNCHANGED <<at, notes, ran, cut, stopped>>

LeavesDone ==
  /\ at = "leaves" /\ at' \in {"finish", "stopped"}
  /\ UNCHANGED <<setup, build, verified, passing, markers, notes, ran, cut, stopped>>

(***************************************************************************)
(* _finish_up.                                                             *)
(***************************************************************************)
\* A stopped finish-up returns at what it found, and run() goes on to report
\* the phase as at any end.
FinishLooks ==
  /\ at = "finish"
  /\ ran' = IF build = NoEntry THEN ran ELSE [ran EXCEPT !.build = Ran(build)]
  /\ \/ Broken = {} /\ at' = "over" /\ UNCHANGED cut
     \/ Broken # {} /\ stopped /\ at' = "over" /\ cut' = TRUE
     \/ Broken # {} /\ ~stopped /\ at' = "mend finish" /\ UNCHANGED cut
  /\ UNCHANGED <<setup, build, verified, passing, markers, notes, stopped>>

\* The chore may have mended one and broken the other, or written the entry.
FinishMended ==
  /\ at = "mend finish" /\ at' = "over"
  /\ ran' = IF build = NoEntry THEN ran ELSE [ran EXCEPT !.build = Ran(build)]
  /\ verified' = IF build \in passing THEN [verified EXCEPT !.build = TRUE] ELSE verified
  /\ notes' = notes \union Broken
  /\ UNCHANGED <<setup, build, passing, markers, cut, stopped>>

StopPressed ==
  /\ ~stopped /\ stopped' = TRUE
  /\ UNCHANGED <<at, setup, build, verified, passing, markers, notes, ran, cut>>

ChoresNext ==
  \/ SetupSkipped \/ SetupRuns \/ SetupMended
  \/ DevWorks \/ LeavesDone \/ FinishLooks \/ FinishMended \/ StopPressed

ChoresSpec == ChoresInit /\ [][ChoresNext]_choreVars

(***************************************************************************)
(* Properties.                                                             *)
(***************************************************************************)
\* What Imp leaves broken when its phase ends the reviewer is told of: a build
\* that fails, also one that only the mending of the markers broke or wrote into
\* the runbook, and markers, also those only the mending of the build left.  The
\* one exception is a stop that comes before the finish-up mends what it found.
ReviewerTold ==
  at = "over" =>
    \/ cut /\ stopped /\ Broken # {}
    \/ /\ build # NoEntry => ran.build = [command |-> build, passed |-> TRUE] \/ "build" \in notes
       /\ markers => "markers" \in notes

\* The leaves begin on a setup that passed, or that some role verified, or
\* whose failure the reviewer reads.
SetupLookedAt ==
  [][at # "leaves" /\ at' = "leaves" =>
       \/ setup = NoEntry \/ verified'.setup
       \/ "setup" \in notes']_choreVars
=============================================================================
