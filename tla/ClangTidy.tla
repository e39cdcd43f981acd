----------------------------- MODULE ClangTidy ------------------------------
(***************************************************************************)
(* src/bin/enableVisualStudioClangTidy.py <project.vcxproj> <dir>: read    *)
(* the checks from <dir>/clang-checks.txt; if the project already has an   *)
(* EnableClangTidyCodeAnalysis element, put the checks into its first      *)
(* ClangTidyChecks element and stop; otherwise copy <dir>/clang-tidy.xml   *)
(* in after the first line that closes an ItemGroup, then put the checks   *)
(* into the first ClangTidyChecks element.  The build runs it each time    *)
(* the project is generated or rebuilt, so it meets its own output again.  *)
(*                                                                         *)
(* The project is the sequence of its lines, one element per line, each   *)
(* line by what the script and MSBuild tell apart.  One run is one step:   *)
(* the script is sequential and nothing else writes the project meanwhile. *)
(***************************************************************************)
EXTENDS Integers, Sequences, SequencesExt, FiniteSets

CONSTANTS
  Projects,   \* the project files the script may be run on
  Fragments,  \* what clang-tidy.xml may hold
  Checks,     \* clang-checks.txt after .replace('\n', ',')
  MaxRuns     \* times the script is run

NoChecks == "none"

\* a line: other text, a line holding "</ItemGroup>", a PropertyGroup tag of
\* the fragment, <EnableClangTidyCodeAnalysis>, or <ClangTidyChecks> with its text
L(kind) == [k |-> kind, v |-> NoChecks]
ChecksL(c) == [k |-> "checks", v |-> c]
Kinds == {"text", "igend", "group", "enable", "checks"}
Line == [k : Kinds, v : Checks \cup {NoChecks}]

ASSUME /\ Projects \subseteq Seq(Line)
       /\ Fragments \subseteq Seq(Line)
       /\ MaxRuns \in Nat

VARIABLES
  proj,     \* the project file
  frag,     \* clang-tidy.xml; the file does not change between runs
  runs,     \* runs so far
  status,   \* how the last run ended: "none", "finished" or "raised"
  applied   \* the checks of the last run

vars == <<proj, frag, runs, status, applied>>

\* tree.find('//ns:' + kind): the first element of that kind, 0 for None
Find(p, kind) == SelectInSeq(p, LAMBDA l : l.k = kind)

\* mutant: the text set on the element found under the wrong tag
SetChecksWrongTag(p, c) == [p EXCEPT ![Find(p, "enable")].v = c]

\* mutant: a new ClangTidyChecks element added instead of setting the text
SetChecksAppend(p, c) == p \o <<ChecksL(c)>>

\* tree.find('//ns:ClangTidyChecks').text = c
SetChecks(p, c) == [p EXCEPT ![Find(p, "checks")].v = c]

\* mutant: every line closing an ItemGroup gets the fragment
RECURSIVE AppendNoGuard(_, _, _)
AppendNoGuard(buf, x, appended) ==
  IF buf = <<>> THEN <<>>
  ELSE LET line == Head(buf)
           hit == line.k = "igend"
       IN (IF hit THEN <<line>> \o x ELSE <<line>>)
            \o AppendNoGuard(Tail(buf), x, appended \/ hit)

\* mutant: line = clang_tidy_xml_buf, the closing line itself lost
RECURSIVE AppendReplace(_, _, _)
AppendReplace(buf, x, appended) ==
  IF buf = <<>> THEN <<>>
  ELSE LET line == Head(buf)
           hit == line.k = "igend" /\ ~appended
       IN (IF hit THEN x ELSE <<line>>)
            \o AppendReplace(Tail(buf), x, appended \/ hit)

\* the loop writing buf back: the fragment after the first "</ItemGroup>" line
RECURSIVE AppendFragment(_, _, _)
AppendFragment(buf, x, appended) ==
  IF buf = <<>> THEN <<>>
  ELSE LET line == Head(buf)
           hit == line.k = "igend" /\ ~appended
       IN (IF hit THEN <<line>> \o x ELSE <<line>>)
            \o AppendFragment(Tail(buf), x, appended \/ hit)

Init ==
  /\ proj \in Projects /\ frag \in Fragments
  /\ runs = 0 /\ status = "none" /\ applied = NoChecks

\* one more run of the script
Run == runs < MaxRuns /\ runs' = runs + 1

\* lines 17-23: parse the project; the analysis is enabled already; set the checks, write, exit
UpdateChecks ==
  /\ Run
  /\ Find(proj, "enable") # 0 /\ Find(proj, "checks") # 0
  /\ \E c \in Checks : proj' = SetChecks(proj, c) /\ applied' = c
  /\ status' = "finished"
  /\ UNCHANGED frag

\* lines 17-20: enabled, but no ClangTidyChecks element: .text on None raises
\* AttributeError before anything is written
UpdateRaises ==
  /\ Run
  /\ Find(proj, "enable") # 0 /\ Find(proj, "checks") = 0
  /\ status' = "raised"
  /\ UNCHANGED <<proj, frag, applied>>

\* mutant: line 43 left out, the checks set in memory but never written
AppendChecksNoWrite ==
  /\ Run
  /\ Find(proj, "enable") = 0
  /\ LET p1 == AppendFragment(proj, frag, FALSE)
     IN /\ Find(p1, "checks") # 0
        /\ proj' = p1 /\ \E c \in Checks : applied' = c
  /\ status' = "finished"
  /\ UNCHANGED frag

\* lines 26-44: append the fragment, parse the result again, set the checks
AppendChecks ==
  /\ Run
  /\ Find(proj, "enable") = 0
  /\ LET p1 == AppendFragment(proj, frag, FALSE)
     IN /\ Find(p1, "checks") # 0
        /\ \E c \in Checks : proj' = SetChecks(p1, c) /\ applied' = c
  /\ status' = "finished"
  /\ UNCHANGED frag

\* line 42: the file, rewritten, still has no ClangTidyChecks (no line
\* closed an ItemGroup, so nothing was appended): AttributeError
AppendRaises ==
  /\ Run
  /\ Find(proj, "enable") = 0
  /\ LET p1 == AppendFragment(proj, frag, FALSE)
     IN /\ Find(p1, "checks") = 0
        /\ proj' = p1
  /\ status' = "raised"
  /\ UNCHANGED <<frag, applied>>

Next == UpdateChecks \/ UpdateRaises \/ AppendChecks \/ AppendRaises

\* a run happens when the build invokes it; none is ever forced
Spec == Init /\ [][Next]_vars

-----------------------------------------------------------------------------
(* Properties.                                                            *)

\* the lines of the project the generator wrote, fragment lines left out
Skeleton(p) == SelectSeq(p, LAMBDA l : l.k \in {"text", "igend"})

\* the ClangTidyChecks element MSBuild uses: a later definition of a
\* property overrides an earlier one
Effective(p) == p[SelectLastInSeq(p, LAMBDA l : l.k = "checks")].v

TypeOK ==
  /\ proj \in Seq(Line) /\ frag \in Fragments
  /\ \A i \in DOMAIN proj : proj[i].k # "checks" => proj[i].v = NoChecks
  /\ runs \in 0..MaxRuns
  /\ status \in {"none", "finished", "raised"}
  /\ applied \in Checks \cup {NoChecks}

\* However often the build runs the script on its own output, the project
\* gets the clang-tidy.xml fragment at most once: only the first run takes
\* the append path, and it appends after one "</ItemGroup>" line only.
EnableOnce ==
  Cardinality({i \in DOMAIN proj : proj[i].k = "enable"}) <= 1

\* The build runs the script before every build.  A run that follows a
\* finished run and prints "Finished" with the same clang-checks.txt leaves
\* the project exactly as it was, so the project does not drift from build
\* to build although tree.write rewrites it every time.
RerunIdempotent ==
  [][status = "finished" /\ status' = "finished" /\ applied' = applied
       => proj' = proj]_vars

\* open(robo_proj_xml, "w") and tree.write rewrite the whole project: no
\* run loses, duplicates or reorders a line the project generator wrote.
ProjectKept == [][Skeleton(proj') = Skeleton(proj)]_proj

\* The script implements ClangTidyConfig: read through the project as MSBuild
\* reads it, every run that prints "Finished" leaves the analysis enabled
\* with that run's checks, every run that raises (AttributeError at line 20
\* or 42) leaves what MSBuild reads as it was, though the file may have been
\* rewritten, and no run turns the analysis off.
Config == INSTANCE ClangTidyConfig WITH
  enabled <- Find(proj, "enable") # 0,
  checks  <- IF Find(proj, "checks") = 0 THEN NoChecks ELSE Effective(proj),
  outcome <- status

ImplementsConfig == Config!Spec

=============================================================================
