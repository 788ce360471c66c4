------------------------------- MODULE Evidence -------------------------------
(***************************************************************************)
(* The evidence folder of a session (src/src/JFI/tool/evidence_tools.py):  *)
(* what the episodes of a planner batch, Dev and the dashboard do to it at *)
(* the same time.  A file is found by its case and suffix; its number is   *)
(* the plan's, and follows the plan by renames.                            *)
(***************************************************************************)
EXTENDS Integers, FiniteSets

CONSTANTS
  Case,
  Value,      \* answers to a case's input
  FileValue,  \* the answer that stands in the original's own file
  Screen,     \* what a page can show
  Frame,      \* what may differ between two shots of the same screen
  Caller,     \* threads: planner episodes, Dev and the dashboard
  MaxNumber,  \* bound: plan numbers
  MaxChanges  \* bound: captures, comparisons, edits and renumberings

ASSUME EvidenceAssumption ==
  /\ FileValue \in Value
  /\ MaxNumber \in Nat /\ MaxChanges \in Nat

VARIABLES
  disk,       \* the files: a function on some of the names
  owner,      \* the number of the node whose cases hold a case; 0: none does
  evidenceOne, \* whether the runbook can ask the ground truth
  truth,      \* the answer the ground truth gives now
  job,        \* the call a thread is in the middle of
  changes,    \* history variable: what MaxChanges counts, so far
  crossed     \* history variable: the kinds of files of a case that one call renamed
              \* or deleted, or the specs one wrote, while another had one in hand

evidenceVars == <<disk, owner, evidenceOne, truth, job, changes, crossed>>

Number == 0 .. MaxNumber
Suffix == {"txt", "png", "json", "result"}
FileName == [case : Case, suffix : Suffix, number : Number]

\* from is a history field: where the answer really comes from.
Source == {"command", "file", "llm", "user"}
Text == [value : Value, source : Source, how : BOOLEAN, reviewed : BOOLEAN, from : Source]
Shot == [screen : Screen, frame : Frame]
\* The text of an image, or of a part of a page, is not compared with others.
NoText == "none"
PageSpec ==
  [text : Screen \cup {NoText}, source : {"screenshot", "image", "none"}, reviewed : BOOLEAN]
Result == [compared : {TRUE}]
Data(suffix) ==
  CASE suffix = "txt" -> Text [] suffix = "png" -> Shot
    [] suffix = "json" -> PageSpec [] suffix = "result" -> Result

Named(c, s, n) == [case |-> c, suffix |-> s, number |-> n]
Of(d, c, s) == {f \in DOMAIN d : f.case = c /\ f.suffix = s}

\* _find: the first by name; a number sorts before the letters of a case.
First(names) ==
  CHOOSE f \in names : \A g \in names \ {f} :
    IF f.number = 0 THEN FALSE ELSE g.number = 0 \/ f.number < g.number
Found(d, c, s) == Of(d, c, s) # {}
Find(d, c, s) == First(Of(d, c, s))
\* Variant: a file that is there already is not looked for.
NewPath(d, c, s) == Named(c, s, 0)
EvidencePath(d, c, s) == IF Found(d, c, s) THEN Find(d, c, s) ELSE Named(c, s, 0)

Put(d, f, data) == [g \in DOMAIN d \cup {f} |-> IF g = f THEN data ELSE d[g]]
Without(d, f) == [g \in DOMAIN d \ {f} |-> d[g]]

ListCases(d) == {c \in Case : Found(d, c, "txt") \/ Found(d, c, "png")}

(***************************************************************************)
(* The call of a thread, in the middle of what it does.                    *)
(***************************************************************************)

FilesOf(s) == [case : Case, suffix : {s}, number : Number]

\* A call that has the name of a file in hand, found before it writes there.
SaveJob(s) == [at : {"save"}, path : FilesOf(s), data : Data(s), sync : BOOLEAN]
Held ==
  [at : {"rerun"}, path : FilesOf("txt"), read : Text]
  \cup [at : {"shoot"}, path : FilesOf("png")]
  \cup [at : {"check"}, path : FilesOf("png"), text : Screen \cup {NoText}]
  \cup UNION {SaveJob(s) : s \in Suffix \ {"png"}}
Holding == {"rerun", "shoot", "check", "save"}

\* sync_evidence_names has left files to look at; the name "to" was free.
Rename == [file : FileName, to : Number]
Idle == [at |-> "idle"]
Job ==
  {Idle} \cup Held
  \cup [at : {"sync"}, left : SUBSET Rename]
  \cup [at : {"rename"}, left : SUBSET Rename, next : Rename]

EvidenceTypeOK ==
  /\ DOMAIN disk \subseteq FileName
  /\ \A f \in DOMAIN disk : disk[f] \in Data(f.suffix)
  /\ owner \in [Case -> Number]
  /\ evidenceOne \in BOOLEAN
  /\ truth \in Value
  /\ job \in [Caller -> Job]
  /\ crossed \subseteq Case \X Suffix
  /\ changes \in 0 .. MaxChanges

EvidenceInit ==
  /\ disk = [f \in {} |-> {}]
  /\ owner = [c \in Case |-> 0]
  /\ evidenceOne \in BOOLEAN
  /\ truth \in Value
  /\ job = [t \in Caller |-> Idle]
  /\ changes = 0
  /\ crossed = {}

Change == changes < MaxChanges /\ changes' = changes + 1
Begin(t, j) == job[t] = Idle /\ job' = [job EXCEPT ![t] = j]
Goes(t, j) == job' = [job EXCEPT ![t] = j]
End(t) == Goes(t, Idle)
Save(path, data, sync) == [at |-> "save", path |-> path, data |-> data, sync |-> sync]

\* While t changes f, another call has the name of such a file of its case.
Crosses(t, f) ==
  {<<f.case, f.suffix>> : u \in {v \in Caller \ {t} :
     /\ job[v].at \in Holding
     /\ job[v].path.case = f.case /\ job[v].path.suffix = f.suffix}}

(***************************************************************************)
(* sync_evidence_names: at the end of a capture or of a comparison, before *)
(* each of Dev's leaves, after each planner episode and on each view of    *)
(* the dashboard.                                                          *)
(***************************************************************************)

\* The files d whose number is not the plan's, as the plan and the folder
\* are read at its start.
Outdated(d) ==
  {[file |-> f, to |-> owner[f.case]] : f \in {g \in DOMAIN d : owner[g.case] \notin {0, g.number}}}
Rest(left) == IF left = {} THEN Idle ELSE [at |-> "sync", left |-> left]

Sync(t) ==
  /\ Outdated(disk) # {}
  /\ Begin(t, Rest(Outdated(disk)))
  /\ UNCHANGED <<disk, owner, evidenceOne, truth, changes, crossed>>

NewName(r) == [r.file EXCEPT !.number = r.to]

\* The files of a case and kind in the order of their names; one whose new
\* name is taken keeps its own.
SyncLooks(t) ==
  /\ job[t].at = "sync"
  /\ \E r \in job[t].left :
       LET rest == job[t].left \ {r}
           alike == {q.file : q \in {p \in job[t].left : /\ p.file.case = r.file.case
                                                         /\ p.file.suffix = r.file.suffix}}
       IN /\ r.file = First(alike)
          /\ Goes(t, IF NewName(r) \in DOMAIN disk THEN Rest(rest)
                     ELSE [at |-> "rename", left |-> rest, next |-> r])
  /\ UNCHANGED <<disk, owner, evidenceOne, truth, changes, crossed>>

\* The rename replaces what has come under the new name since the look; a
\* file that has gone ends the call.
SyncRenames(t) ==
  LET f == job[t].next.file
      g == NewName(job[t].next)
  IN /\ job[t].at = "rename"
     /\ IF f \in DOMAIN disk
        THEN /\ disk' = Put(Without(disk, f), g, disk[f])
             /\ Goes(t, Rest(job[t].left))
             /\ crossed' = crossed \cup Crosses(t, f)
        ELSE End(t) /\ UNCHANGED <<disk, crossed>>
     /\ UNCHANGED <<owner, evidenceOne, truth, changes>>

(***************************************************************************)
(* The write that ends a call, at the name it found before.                *)
(***************************************************************************)

SaveFile(t) ==
  /\ job[t].at = "save"
  /\ disk' = Put(disk, job[t].path, job[t].data)
  /\ Goes(t, IF job[t].sync THEN Rest(Outdated(disk')) ELSE Idle)
  /\ crossed' = IF job[t].path.suffix = "json" THEN crossed \cup Crosses(t, job[t].path)
                ELSE crossed
  /\ UNCHANGED <<owner, evidenceOne, truth, changes>>

(***************************************************************************)
(* capture_evidence: text                                                  *)
(***************************************************************************)

NewText(v, source, how, from) ==
  [value |-> v, source |-> source, how |-> how, reviewed |-> FALSE, from |-> from]

\* The answers a call gives and where it says they are from: answers copied
\* from a file are checked against it; evidence_one comes before answers
\* without a file; those are the model's own.
Captured(v, fromFile) ==
  IF fromFile THEN {NewText(w, "file", FALSE, "file") : w \in {v} \cap {FileValue}}
  ELSE IF evidenceOne THEN {NewText(truth, "command", TRUE, "command")}
  ELSE {NewText(v, "llm", FALSE, "llm")}

CaptureText(t, c) ==
  /\ Change
  /\ \E v \in Value, fromFile \in BOOLEAN : \E data \in Captured(v, fromFile) :
       Begin(t, Save(EvidencePath(disk, c, "txt"), data, TRUE))
  /\ UNCHANGED <<disk, owner, evidenceOne, truth, crossed>>

(***************************************************************************)
(* capture_evidence: a screen or an image                                  *)
(***************************************************************************)

\* _capture_visual fixes the name of the picture, then opens the page or the
\* image.
StartShot(t, c) ==
  /\ Change
  /\ Begin(t, [at |-> "shoot", path |-> EvidencePath(disk, c, "png")])
  /\ UNCHANGED <<disk, owner, evidenceOne, truth, crossed>>

\* The spec is saved where the case has its own when the picture is there.
PageSpecOf(text, source) == [text |-> text, source |-> source, reviewed |-> FALSE]
SaveSpec(d, c, text, source) == Save(EvidencePath(d, c, "json"), PageSpecOf(text, source), TRUE)

\* screenshot writes the file, of the page or of a part of it; a page that
\* fails leaves what was there.  An image is copied; nothing compares it with
\* the others.
TakeShot(t) ==
  /\ job[t].at = "shoot"
  /\ \/ \E shot \in Shot :
          /\ disk' = Put(disk, job[t].path, shot)
          /\ \/ \E text \in {shot.screen, NoText} :
                  Goes(t, [at |-> "check", path |-> job[t].path, text |-> text])
             \/ Goes(t, SaveSpec(disk', job[t].path.case, NoText, "image"))
     \/ End(t) /\ UNCHANGED disk
  /\ UNCHANGED <<owner, evidenceOne, truth, changes, crossed>>

\* _same_capture: another case has this image, or a page with this text.
\* Variant: only the texts of other cases are looked at.
TwinByText(c, shot, text) ==
  \E f \in DOMAIN disk :
    /\ f.case # c
    /\ f.suffix = "json" /\ text # NoText /\ disk[f].text = text
Twin(c, shot, text) ==
  \E f \in DOMAIN disk :
    /\ f.case # c
    /\ \/ f.suffix = "png" /\ disk[f] = shot
       \/ f.suffix = "json" /\ text # NoText /\ disk[f].text = text

\* A picture that was listed is renamed or deleted before it is read.
Disturbed(t) == \E u \in Caller \ {t} : job[u].at \in {"rename", "check"}

\* A twin is deleted; else the spec is to be saved.  A picture that is not
\* found again, this one or another that was listed, fails the call.
CheckShot(t) ==
  LET path == job[t].path
      c == path.case
      text == job[t].text
  IN /\ job[t].at = "check"
     /\ \/ /\ path \notin DOMAIN disk
           /\ End(t)
           /\ UNCHANGED <<disk, crossed>>
        \/ /\ Disturbed(t)
           /\ End(t)
           /\ crossed' = crossed \cup {<<c, "png">>}
           /\ UNCHANGED disk
        \/ /\ path \in DOMAIN disk
           /\ Twin(c, disk[path], text)
           /\ End(t)
           /\ disk' = Without(disk, path)
           /\ crossed' = crossed \cup Crosses(t, path)
        \/ /\ path \in DOMAIN disk
           /\ ~Twin(c, disk[path], text)
           /\ Goes(t, SaveSpec(disk, c, text, "screenshot"))
           /\ UNCHANGED <<disk, crossed>>
     /\ UNCHANGED <<owner, evidenceOne, truth, changes>>

(***************************************************************************)
(* The dashboard                                                           *)
(***************************************************************************)

\* recapture of text: reads the file, runs its commands, writes the file it
\* read.
StartRerun(t, c) ==
  /\ Found(disk, c, "txt")
  /\ LET f == Find(disk, c, "txt")
     IN /\ disk[f].how
        /\ Begin(t, [at |-> "rerun", path |-> f, read |-> disk[f]])
  /\ Change
  /\ UNCHANGED <<disk, owner, evidenceOne, truth, crossed>>

\* Variant: the mark of the person stays on the file.
RerunKeepsMark(text) == [text EXCEPT !.value = truth, !.from = "command"]
Rerun(text) == [text EXCEPT !.value = truth, !.reviewed = FALSE, !.from = "command"]

EndRerun(t) ==
  /\ job[t].at = "rerun"
  /\ disk' = Put(disk, job[t].path, Rerun(job[t].read))
  /\ End(t)
  /\ UNCHANGED <<owner, evidenceOne, truth, changes, crossed>>

\* mark_reviewed: read_evidence takes the text of a case before its image; a
\* picture without a spec is given one that has no source.
MarkOf(c) ==
  IF Found(disk, c, "txt")
  THEN Save(Find(disk, c, "txt"), [disk[Find(disk, c, "txt")] EXCEPT !.reviewed = TRUE], FALSE)
  ELSE Save(EvidencePath(disk, c, "json"),
            [(IF Found(disk, c, "json") THEN disk[Find(disk, c, "json")]
              ELSE PageSpecOf(NoText, "none"))
               EXCEPT !.reviewed = TRUE], FALSE)

MarkReviewed(t, c) ==
  /\ c \in ListCases(disk)
  /\ Begin(t, MarkOf(c))
  /\ UNCHANGED <<disk, owner, evidenceOne, truth, changes, crossed>>

\* save_edited_text: the text is the person's, its header too, but for its
\* source.
SaveEditedText(t, c) ==
  /\ Found(disk, c, "txt") /\ Change
  /\ \E v \in Value, how, reviewed \in BOOLEAN :
       Begin(t, Save(Find(disk, c, "txt"),
                     [value |-> v, source |-> "user", how |-> how, reviewed |-> reviewed,
                      from |-> "user"], FALSE))
  /\ UNCHANGED <<disk, owner, evidenceOne, truth, crossed>>

\* The three buttons under the case a person has chosen.
Dashboard(t, c) == MarkReviewed(t, c) \/ SaveEditedText(t, c) \/ StartRerun(t, c)

(***************************************************************************)
(* Comparing, and the rest of the program                                  *)
(***************************************************************************)

\* compare_case: the result is kept beside the evidence; without a way to run
\* the new code there is none.
CompareCase(t, c) ==
  /\ c \in ListCases(disk) /\ Change
  /\ Begin(t, Save(EvidencePath(disk, c, "result"), [compared |-> TRUE], TRUE))
  /\ UNCHANGED <<disk, owner, evidenceOne, truth, crossed>>

\* The planner gives a case to a node, or adds nodes before it.
Renumber(c) ==
  /\ Change
  /\ \E n \in Number \ {0, owner[c]} : owner' = [owner EXCEPT ![c] = n]
  /\ UNCHANGED <<disk, evidenceOne, truth, job, crossed>>

\* The ground truth is mended.
Mend ==
  /\ Change
  /\ \E v \in Value \ {truth} : truth' = v
  /\ UNCHANGED <<disk, owner, evidenceOne, job, crossed>>

EvidenceNext ==
  \/ \E t \in Caller, c \in Case :
       CaptureText(t, c) \/ StartShot(t, c) \/ CompareCase(t, c) \/ Dashboard(t, c)
  \/ \E t \in Caller :
       \/ TakeShot(t) \/ CheckShot(t) \/ EndRerun(t) \/ SaveFile(t)
       \/ Sync(t) \/ SyncLooks(t) \/ SyncRenames(t)
  \/ \E c \in Case : Renumber(c)
  \/ Mend

EvidenceSpec == EvidenceInit /\ [][EvidenceNext]_evidenceVars

(***************************************************************************)
(* Properties.                                                             *)
(***************************************************************************)

\* A rename takes the place of another file only where a name was changed in
\* the hands of another call, a capture, a re-run or an edit that then writes
\* under the old one: however the looks and the renames of several
\* sync_evidence_names interleave with each other and with the writers, what
\* a case has in a kind of file is else the same before and after
\* (sync_evidence_names, evidence_tools.py:171, which takes no lock).
RenamesKeep ==
  [][\A t \in Caller : SyncRenames(t) =>
       \A c \in Case, s \in Suffix : <<c, s>> \notin crossed =>
         /\ Cardinality(Of(disk', c, s)) = Cardinality(Of(disk, c, s))
         /\ {disk'[f] : f \in Of(disk', c, s)} = {disk[f] : f \in Of(disk, c, s)}]_evidenceVars

\* A text a person accepted keeps its answers until somebody edits it: a
\* capture, or a re-run of a ground truth that was mended meanwhile, takes
\* the mark away, whoever marks the file while it runs.  A person's mark puts
\* back the answers its own call has read, and a text that is renamed over
\* another comes with its own mark.
AcceptedStands ==
  [][\A f \in DOMAIN disk \cap DOMAIN disk' :
       (f.suffix = "txt" /\ disk[f].reviewed /\ disk'[f].reviewed)
         => \/ disk'[f].value = disk[f].value
            \/ disk'[f].from = "user"
            \/ \E t \in Caller : job[t].at = "save" /\ job[t].data = disk'[f]
            \/ \E g \in DOMAIN disk \ DOMAIN disk' : disk'[f] = disk[g]]_evidenceVars

Screenshot(c) ==
  /\ Found(disk, c, "png") /\ Found(disk, c, "json")
  /\ disk[Find(disk, c, "json")].source = "screenshot"

\* A capture of c, or a mark on its picture, is under way.
Busy(c) ==
  \E t \in Caller :
    /\ job[t].at \in Holding /\ job[t].path.case = c /\ job[t].path.suffix \in {"png", "json"}

\* Two cases never keep the same picture as their screens, however the
\* captures of two episodes interleave: the shot is written before the
\* others are looked at.  A case escapes the check when its picture or its
\* spec is renamed, deleted or rewritten in the hands of another call, or a
\* rename meanwhile makes the look at the others fail (_capture_visual,
\* evidence_tools.py:741-758).
NoTwins ==
  \A c, d \in Case :
    (c # d /\ Screenshot(c) /\ Screenshot(d) /\ ~Busy(c) /\ ~Busy(d)
       /\ ({c, d} \X {"png", "json"}) \cap crossed = {})
    => disk[Find(disk, c, "png")] # disk[Find(disk, d, "png")]
=============================================================================
