---------------------------- MODULE WarningLevel ----------------------------
(***************************************************************************)
(* src/bin/set-mongo-warning-level-3.py: walk the source tree and, in      *)
(* every .h and .cpp file, put "#pragma warning(push, 3)" before each run  *)
(* of lines that include a mongo header and "#pragma warning(pop)" before  *)
(* the first line after the run.  The developer runs the script by hand,   *)
(* and may run it again, e.g. after it stopped on a file it cannot read.   *)
(*                                                                         *)
(* A file is the sequence of its lines, each line only as what the script  *)
(* and the compiler tell apart: a mongo include, the two pragmas, or any   *)
(* other text.                                                             *)
(***************************************************************************)
EXTENDS Integers, Sequences, SequencesExt, FiniteSets

CONSTANTS
  Files,     \* the files os.walk(root_dir) yields
  Sources,   \* those whose name ends with ".h" or ".cpp"
  Contents,  \* what a file may hold before the first run
  MaxRuns,   \* times the developer runs the script
  MaxInterrupts  \* times a run is stopped with Ctrl-C

\* line.startswith(('#include <mongo', '#include "mongo'))
Mongo == "mongo"
Text == "text"
Push == "push"   \* '#pragma warning(push, 3)\n'
Pop == "pop"     \* '#pragma warning(pop)\n'

ASSUME /\ Sources \subseteq Files
       /\ Contents \subseteq Seq({Mongo, Text})
       /\ MaxRuns \in Nat /\ MaxInterrupts \in Nat

VARIABLES
  disk,     \* .h or .cpp file -> its lines; the script never opens any other
  walk,     \* the order os.walk yields the files in; the tree is not renamed
  bad,      \* files open(file, "r").readlines() cannot decode
  touched,  \* history: files force_warning_level_3 has rewritten
  runs,     \* runs started
  pc,       \* "idle" between runs, "walk" during one
  k,        \* position of the walk
  interrupts, \* runs stopped by KeyboardInterrupt
  orig,     \* history: every file as it was before the first run
  cut,      \* history: files an interrupted rewrite left part-written
  rewritten \* files force_warning_level_3 has rewritten in the current run

vars == <<disk, walk, bad, touched, runs, pc, k, interrupts, orig, cut, rewritten>>
aux == <<interrupts, orig, cut>>

-----------------------------------------------------------------------------
(* force_warning_level_3: the loop over the lines read, carrying           *)
(* last_line_has_mongo.                                                    *)

\* mutant: the push written after the include instead of before it
RECURSIVE RewritePushAfter(_, _)
RewritePushAfter(buf, last) ==
  IF buf = <<>> THEN <<>>
  ELSE LET line == Head(buf)
           out == CASE line = Mongo /\ ~last -> <<line, Push>>
                    [] line # Mongo /\ last  -> <<Pop, line>>
                    [] OTHER                 -> <<line>>
       IN out \o RewritePushAfter(Tail(buf), line = Mongo)

\* mutant: the pop written when the previous line was not an include
RECURSIVE RewritePopInverted(_, _)
RewritePopInverted(buf, last) ==
  IF buf = <<>> THEN <<>>
  ELSE LET line == Head(buf)
           out == CASE line = Mongo /\ ~last -> <<Push, line>>
                    [] line # Mongo /\ ~last -> <<Pop, line>>
                    [] OTHER                 -> <<line>>
       IN out \o RewritePopInverted(Tail(buf), line = Mongo)

\* mutant: line = push, the include itself dropped
RECURSIVE RewriteReplace(_, _)
RewriteReplace(buf, last) ==
  IF buf = <<>> THEN <<>>
  ELSE LET line == Head(buf)
           out == CASE line = Mongo /\ ~last -> <<Push>>
                    [] line # Mongo /\ last  -> <<Pop, line>>
                    [] OTHER                 -> <<line>>
       IN out \o RewriteReplace(Tail(buf), line = Mongo)

\* what "for line in buf" writes from buf on, given last_line_has_mongo
RECURSIVE Rewrite(_, _)
Rewrite(buf, last) ==
  IF buf = <<>> THEN <<>>
  ELSE LET line == Head(buf)
           out == CASE line = Mongo /\ ~last -> <<Push, line>>
                    [] line # Mongo /\ last  -> <<Pop, line>>
                    [] OTHER                 -> <<line>>
       IN out \o Rewrite(Tail(buf), line = Mongo)

\* the file as force_warning_level_3(file) leaves it
ForceWarningLevel3(buf) == Rewrite(buf, FALSE)

-----------------------------------------------------------------------------

Init ==
  /\ disk \in [Sources -> Contents]
  /\ walk \in SetToSeqs(Files)
  /\ bad \in SUBSET Sources
  /\ touched = {}
  /\ runs = 0 /\ pc = "idle" /\ k = 1
  /\ interrupts = 0 /\ orig = disk /\ cut = {}
  /\ rewritten = {}

\* the developer runs the script
Start ==
  /\ pc = "idle" /\ runs < MaxRuns
  /\ runs' = runs + 1 /\ pc' = "walk" /\ k' = 1 /\ rewritten' = {}
  /\ UNCHANGED <<disk, walk, bad, touched, aux>>

\* name.endswith(('.h', '.cpp')) fails: the file is left alone
SkipName ==
  /\ pc = "walk" /\ k <= Len(walk)
  /\ walk[k] \notin Sources
  /\ k' = k + 1
  /\ UNCHANGED <<disk, walk, bad, touched, runs, pc, aux, rewritten>>

\* readlines() raises UnicodeDecodeError before the file is opened for
\* writing; nothing catches it, so the script stops with later files unvisited
DecodeFails ==
  /\ pc = "walk" /\ k <= Len(walk)
  /\ walk[k] \in Sources \cap bad
  /\ pc' = "idle"
  /\ UNCHANGED <<disk, walk, bad, touched, runs, k, aux, rewritten>>

\* force_warning_level_3(file): read every line, then rewrite the file
ForceWarning ==
  /\ pc = "walk" /\ k <= Len(walk)
  /\ walk[k] \in Sources \ bad
  /\ disk' = [disk EXCEPT ![walk[k]] = ForceWarningLevel3(@)]
  /\ touched' = touched \cup {walk[k]}
  /\ rewritten' = rewritten \cup {walk[k]}
  /\ k' = k + 1
  /\ UNCHANGED <<walk, bad, runs, pc, aux>>

\* mutant: the walk taken as done one file early
WalkDoneEarly ==
  /\ pc = "walk" /\ k >= Len(walk)
  /\ pc' = "idle"
  /\ UNCHANGED <<disk, walk, bad, touched, runs, k, aux, rewritten>>

\* os.walk is exhausted: the script ends
WalkDone ==
  /\ pc = "walk" /\ k > Len(walk)
  /\ pc' = "idle"
  /\ UNCHANGED <<disk, walk, bad, touched, runs, k, aux, rewritten>>

\* between runs the developer re-encodes a file the script could not read;
\* its lines stay as they are
Reencode ==
  /\ pc = "idle"
  /\ \E f \in bad : bad' = bad \ {f}
  /\ UNCHANGED <<disk, walk, touched, runs, pc, k, aux, rewritten>>

\* Ctrl-C during a run: nothing catches KeyboardInterrupt, so the script
\* stops.  Inside force_warning_level_3, after line 13 has opened the file
\* for writing, the with block closes it on the lines the loop has written
\* so far: each out_file.write(line) is the output for one line of buf, so
\* the file is the rewrite of the first j lines.  Elsewhere no file changes.
Interrupt ==
  /\ pc = "walk" /\ interrupts < MaxInterrupts
  /\ interrupts' = interrupts + 1 /\ pc' = "idle"
  /\ \/ UNCHANGED <<disk, cut>>
     \/ /\ k <= Len(walk) /\ walk[k] \in Sources \ bad
        /\ \E j \in 0..(Len(disk[walk[k]]) - 1) :
             disk' = [disk EXCEPT ![walk[k]] = ForceWarningLevel3(SubSeq(@, 1, j))]
        /\ cut' = cut \cup {walk[k]}
  /\ UNCHANGED <<walk, bad, touched, runs, k, orig, rewritten>>

Next ==
  \/ Start \/ SkipName \/ DecodeFails \/ ForceWarning \/ WalkDone \/ Reencode
  \/ Interrupt

\* a started run goes on until it ends or raises
Spec == Init /\ [][Next]_vars /\ WF_vars(SkipName \/ DecodeFails \/ ForceWarning \/ WalkDone)

-----------------------------------------------------------------------------
(* Properties.  The warning state a line is compiled under is the number  *)
(* of pushes minus the number of pops before it.                           *)

Count(s, x) == Len(SelectSeq(s, LAMBDA l : l = x))
Depth(s, i) == Count(SubSeq(s, 1, i - 1), Push) - Count(SubSeq(s, 1, i - 1), Pop)
Code(s) == SelectSeq(s, LAMBDA l : l \in {Mongo, Text})

TypeOK ==
  /\ disk \in [Sources -> Seq({Mongo, Text, Push, Pop})]
  /\ walk \in SetToSeqs(Files)
  /\ bad \subseteq Sources /\ touched \subseteq Sources /\ rewritten \subseteq touched
  /\ runs \in 0..MaxRuns /\ pc \in {"idle", "walk"} /\ k \in 1..(Len(walk) + 1)
  /\ interrupts \in 0..MaxInterrupts /\ cut \subseteq Sources

\* open(file, "w") empties the file before the loop writes it back.  Over
\* every run, a file no Ctrl-C has cut holds exactly its original code, in
\* order, with only pragma lines inserted; a file cut while being written,
\* and possibly rewritten again by later runs, has lost a tail of its code
\* and nothing else.
CodeKept ==
  \A f \in Sources :
     IF f \in cut THEN IsPrefix(Code(disk[f]), Code(orig[f]))
     ELSE Code(disk[f]) = Code(orig[f])

\* No file ever holds a "#pragma warning(pop)" with no push left to undo
\* (MSVC warning C4193), however many runs, complete or stopped by a file
\* it could not decode, it went through.
PopMatched ==
  \A f \in Sources : \A i \in 1..(Len(disk[f]) + 1) : Depth(disk[f], i) >= 0

\* In every file force_warning_level_3 has rewritten, each mongo include is
\* compiled under a "#pragma warning(push, 3)", also after the file was
\* rewritten again by a later run.
IncludesCovered ==
  \A f \in touched : \A i \in DOMAIN disk[f] :
     disk[f][i] = Mongo => Depth(disk[f], i) >= 1

\* Every file the script rewrote ends with as many pops as pushes, so the
\* warning level it sets does not leak into the files that include it
\* (the pairing the commented-out "line = line + pop" aims at).
Balanced ==
  \A f \in touched : Depth(disk[f], Len(disk[f]) + 1) = 0

\* the sources os.walk yields before the first one readlines() cannot decode
FirstBad ==
  LET i == SelectInSeq(walk, LAMBDA f : f \in Sources \cap bad)
  IN IF i = 0 THEN Len(walk) + 1 ELSE i
BeforeFirstBad == {walk[i] : i \in 1..(FirstBad - 1)} \cap Sources

\* A run the developer does not interrupt has, by the step that ends it
\* (os.walk exhausted or a decode error), itself rewritten every .h and .cpp
\* file os.walk yields before the first file it cannot decode (all of them
\* if there is none): files rewritten by an earlier run do not count, so a
\* rerun after a re-encode must reach the files the first run never did.
RunReachesFirstBad ==
  [][pc' = "idle" /\ interrupts' = interrupts => BeforeFirstBad' \subseteq rewritten']_pc

=============================================================================
