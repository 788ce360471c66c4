------------------------------ MODULE CodeTools ------------------------------
(***************************************************************************)
(* What the code tools do to one file (src/src/JFI/tool/code_tools.py and  *)
(* file_tools.py).  A file is seen as the tools see it: the top-level      *)
(* functions in it, and what the text of each one is.                      *)
(***************************************************************************)
CONSTANT Name   \* functions and classes a file may define

\* none: not in the file.  stub: only what scaffold_file generates.
\* part: real code that still has its JFI line and its not-implemented body.
\* code, other: two texts of real code.  marked: real code under a marker.
Symbol == {"none", "stub", "part", "code", "other", "marked"}
Absent == [n \in Name |-> "absent"]
Broken == [n \in Name |-> "broken"]   \* doesn't parse: no symbol is found in it
Content == [Name -> Symbol] \cup {Absent, Broken}

Parsed(c) == c \notin {Absent, Broken}
Defined(c) == IF Parsed(c) THEN {n \in Name : c[n] # "none"} ELSE {}
Empty == [n \in Name |-> "none"]

\* _is_stub: a JFI line and a not-implemented body somewhere in the text.
IsStub(s) == s \in {"stub", "part"}
RealCode(s) == s \in {"code", "other", "marked"}

\* scaffold_file with stubs for new: refused where one exists; the rest of
\* the file stays as it is.  With fill lines only, new is empty.
CanScaffold(c, new) == new \cap Defined(c) = {}
Scaffolded(c, new) ==
  CASE c = Broken -> Broken
    [] c = Absent -> [n \in Name |-> IF n \in new THEN "stub" ELSE "none"]
    [] OTHER -> [n \in Name |-> IF n \in new THEN "stub" ELSE c[n]]

\* unscaffold_file with a name, and with none (the whole file).
\* Variant: a named symbol goes whatever its text is.
CanUnscaffoldAny(c, n) == n \in Defined(c)
CanUnscaffold(c, n) == n \in Defined(c) /\ IsStub(c[n])
Unscaffolded(c, n) == [c EXCEPT ![n] = "none"]
OnlyStubs(c) == Parsed(c) /\ \A n \in Defined(c) : IsStub(c[n])

\* mark_change: a marker above a symbol; its text stays.
CanMark(c, n) == n \in Defined(c)
Marked(c, n) == IF RealCode(c[n]) THEN [c EXCEPT ![n] = "marked"] ELSE c

\* What the tools of Lead and Task may leave of a file they read.  Nothing checks
\* that it parses with the stubs, fill lines or markers it was given.
PlannerResults(c) ==
  {Broken}
  \cup {Scaffolded(c, new) : new \in {m \in SUBSET Name : CanScaffold(c, m)}}
  \cup {Unscaffolded(c, n) : n \in {m \in Name : CanUnscaffold(c, m)}}
  \cup {Marked(c, n) : n \in {m \in Name : CanMark(c, m)}}
  \cup {Absent : d \in IF OnlyStubs(c) THEN {c} ELSE {}}

\* replace_symbol: a symbol that exists gets another text; what doesn't
\* parse is not written.
ReplaceResults(c) == {[c EXCEPT ![n] = s] : n \in Defined(c), s \in Symbol \ {"none"}}

\* apply_patch, write_file, replace_in_file, append_to_file, copy_lines and
\* commands leave any text.
RewriteResults == Content
=============================================================================
