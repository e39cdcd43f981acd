----------------------------- MODULE MoveRepos ------------------------------
(***************************************************************************)
(* move_repos_into_place(src, dst) of buildscripts/packager.py: copy the   *)
(* new repository tree into a fresh directory dst.<date>.<i>, point a     *)
(* temporary symlink dst.TMP.<i> at it, point dst.old.<i> at what dst      *)
(* points to, rename dst.TMP.<i> onto dst and dst.old.<i> onto dst.old.     *)
(*                                                                         *)
(* Each invocation is a run of the script; runs follow one another.  A run *)
(* can be interrupted (killed, machine lost) between any two steps, and    *)
(* the names it created stay behind for the next run.  One date is used   *)
(* for every run: runs on one day are the ones whose names collide.        *)
(***************************************************************************)
EXTENDS Naturals

CONSTANTS
  MaxRuns,       \* invocations of move_repos_into_place
  MaxCrashes,    \* runs interrupted between two steps
  MaxCpFailures  \* runs whose "cp -rv" exits non-zero

ASSUME MaxRuns \in Nat /\ MaxCrashes \in Nat /\ MaxCpFailures \in Nat

VARIABLES
  fs,        \* name -> the directory entry under that name
  pc,        \* where the running invocation is, "idle" between runs
  i,         \* the counter of the name-probing loop being run
  dname,     \* the fresh directory of this run
  tmpnam,    \* the temporary symlink of this run
  oldnam,    \* the symlink to the previous tree, or NoName
  runs,      \* invocations started
  crashes,   \* interruptions so far
  cpfails    \* cp failures so far

vars == <<fs, pc, i, dname, tmpnam, oldnam, runs, crashes, cpfails>>

\* Names are pairs: dst, dst.old, dst.<date>.<i>, dst.TMP.<i>, dst.old.<i>,
\* and the tree dst names before the first run.
Dst == <<"dst", 0>>
DstOld == <<"dst.old", 0>>
Fresh(k) == <<"dst.date", k>>
Tmp(k) == <<"dst.TMP", k>>
OldTmp(k) == <<"dst.old.", k>>
Initial == <<"initial", 0>>
NoName == <<"none", 0>>

Indexes == 0..MaxRuns
Names == {Dst, DstOld, Initial} \cup {Fresh(k) : k \in Indexes}
           \cup {Tmp(k) : k \in Indexes} \cup {OldTmp(k) : k \in Indexes}

None == [kind |-> "none", complete |-> FALSE, target |-> NoName]
Dir(c) == [kind |-> "dir", complete |-> c, target |-> NoName]
Link(t) == [kind |-> "link", complete |-> FALSE, target |-> t]

\* os.path.exists follows a symlink to what it names
Exists(n) ==
  \/ fs[n].kind = "dir"
  \/ fs[n].kind = "link" /\ fs[fs[n].target].kind # "none"

\* before the first run dst is missing, or a symlink to an earlier tree
Init ==
  /\ \E first \in BOOLEAN :
       fs = [n \in Names |->
               CASE n = Initial /\ ~first -> Dir(TRUE)
                 [] n = Dst /\ ~first     -> Link(Initial)
                 [] OTHER                 -> None]
  /\ pc = "idle"
  /\ i = 0
  /\ dname = NoName /\ tmpnam = NoName /\ oldnam = NoName
  /\ runs = 0 /\ crashes = 0 /\ cpfails = 0

-----------------------------------------------------------------------------

\* a new call of move_repos_into_place, with fresh local variables
Start ==
  /\ pc = "idle" /\ runs < MaxRuns
  /\ runs' = runs + 1
  /\ pc' = "mkdir"
  /\ i' = 0
  /\ dname' = NoName /\ tmpnam' = NoName /\ oldnam' = NoName
  /\ UNCHANGED <<fs, crashes, cpfails>>

\* os.mkdir(dst.<date>.<i>) raises EEXIST: try i+1
MkdirExists ==
  /\ pc = "mkdir"
  /\ fs[Fresh(i)].kind # "none"
  /\ i' = i + 1
  /\ UNCHANGED <<fs, pc, dname, tmpnam, oldnam, runs, crashes, cpfails>>

\* a mkdir that accepts an existing directory (mutant of Mkdir)
MkdirReuse ==
  /\ pc = "mkdir"
  /\ fs' = [fs EXCEPT ![Fresh(i)] = Dir(FALSE)]
  /\ dname' = Fresh(i)
  /\ pc' = "copy"
  /\ UNCHANGED <<i, tmpnam, oldnam, runs, crashes, cpfails>>

Mkdir ==
  /\ pc = "mkdir"
  /\ fs[Fresh(i)].kind = "none"
  /\ fs' = [fs EXCEPT ![Fresh(i)] = Dir(FALSE)]
  /\ dname' = Fresh(i)
  /\ pc' = "copy"
  /\ UNCHANGED <<i, tmpnam, oldnam, runs, crashes, cpfails>>

\* cp -rv of every entry of src into the fresh directory
Copy ==
  /\ pc = "copy"
  /\ fs' = [fs EXCEPT ![dname].complete = TRUE]
  /\ pc' = "tmplink"
  /\ i' = 0
  /\ UNCHANGED <<dname, tmpnam, oldnam, runs, crashes, cpfails>>

\* sysassert raises: the run ends with a partly copied directory
CopyFails ==
  /\ pc = "copy"
  /\ cpfails < MaxCpFailures
  /\ cpfails' = cpfails + 1
  /\ pc' = "idle"
  /\ UNCHANGED <<fs, i, dname, tmpnam, oldnam, runs, crashes>>

\* os.symlink(dname, dst.TMP.<i>) raises EEXIST: try i+1
TmpLinkExists ==
  /\ pc = "tmplink"
  /\ fs[Tmp(i)].kind # "none"
  /\ i' = i + 1
  /\ UNCHANGED <<fs, pc, dname, tmpnam, oldnam, runs, crashes, cpfails>>

TmpLink ==
  /\ pc = "tmplink"
  /\ fs[Tmp(i)].kind = "none"
  /\ fs' = [fs EXCEPT ![Tmp(i)] = Link(dname)]
  /\ tmpnam' = Tmp(i)
  /\ pc' = "checkold"
  /\ UNCHANGED <<i, dname, oldnam, runs, crashes, cpfails>>

\* os.path.exists(dst): keep a name for the previous tree, or not
CheckOld ==
  /\ pc = "checkold"
  /\ IF Exists(Dst) THEN pc' = "oldlink" /\ i' = 0
                    ELSE pc' = "renametmp" /\ UNCHANGED i
  /\ oldnam' = NoName
  /\ UNCHANGED <<fs, dname, tmpnam, runs, crashes, cpfails>>

\* os.symlink(os.readlink(dst), dst.old.<i>) raises EEXIST; the loop does not
\* increment i, so the next iteration makes the same call again
OldLinkExists ==
  /\ pc = "oldlink"
  /\ fs[OldTmp(i)].kind # "none"
  /\ UNCHANGED vars

\* the old-tree link made to the new directory (mutant of OldLink)
OldLinkToNew ==
  /\ pc = "oldlink"
  /\ fs[OldTmp(i)].kind = "none"
  /\ fs' = [fs EXCEPT ![OldTmp(i)] = Link(dname)]
  /\ oldnam' = OldTmp(i)
  /\ pc' = "renametmp"
  /\ UNCHANGED <<i, dname, tmpnam, runs, crashes, cpfails>>

OldLink ==
  /\ pc = "oldlink"
  /\ fs[OldTmp(i)].kind = "none"
  /\ fs' = [fs EXCEPT ![OldTmp(i)] = Link(fs[Dst].target)]
  /\ oldnam' = OldTmp(i)
  /\ pc' = "renametmp"
  /\ UNCHANGED <<i, dname, tmpnam, runs, crashes, cpfails>>

\* os.rename(tmpnam, dst): readers of dst see the old or the new tree
RenameTmp ==
  /\ pc = "renametmp"
  /\ fs' = [fs EXCEPT ![Dst] = fs[tmpnam], ![tmpnam] = None]
  /\ pc' = IF oldnam # NoName THEN "renameold" ELSE "idle"
  /\ UNCHANGED <<i, dname, tmpnam, oldnam, runs, crashes, cpfails>>

\* os.rename(oldnam, dst.old)
RenameOld ==
  /\ pc = "renameold"
  /\ fs' = [fs EXCEPT ![DstOld] = fs[oldnam], ![oldnam] = None]
  /\ pc' = "idle"
  /\ UNCHANGED <<i, dname, tmpnam, oldnam, runs, crashes, cpfails>>

\* the run is interrupted between two steps; what it created stays
Crash ==
  /\ pc # "idle"
  /\ crashes < MaxCrashes
  /\ crashes' = crashes + 1
  /\ pc' = "idle"
  /\ UNCHANGED <<fs, i, dname, tmpnam, oldnam, runs, cpfails>>

\* the steps of a running invocation
Step ==
  \/ MkdirExists \/ Mkdir \/ Copy \/ CopyFails \/ TmpLinkExists \/ TmpLink
  \/ CheckOld \/ OldLinkExists \/ OldLink \/ RenameTmp \/ RenameOld

Next == Start \/ Step \/ Crash

\* a running script keeps running; starting one is the operator's choice
Spec == Init /\ [][Next]_vars /\ WF_vars(Step)

-----------------------------------------------------------------------------

Entry == [kind : {"none", "dir", "link"}, complete : BOOLEAN, target : Names \cup {NoName}]
PCs == {"idle", "mkdir", "copy", "tmplink", "checkold", "oldlink", "renametmp", "renameold"}

TypeOK ==
  /\ fs \in [Names -> Entry]
  /\ pc \in PCs
  /\ i \in Indexes
  /\ {dname, tmpnam, oldnam} \subseteq Names \cup {NoName}
  /\ runs \in 0..MaxRuns /\ crashes \in 0..MaxCrashes /\ cpfails \in 0..MaxCpFailures

\* Whatever step of whichever run was last taken, dst (when it exists) is a
\* symlink to a directory whose copy finished: mkdir's EEXIST probing never
\* hands a run a directory that dst names, and the rename of dst.TMP.<i>
\* happens only after every "cp -rv" succeeded.
DstComplete ==
  fs[Dst].kind # "none" =>
     /\ fs[Dst].kind = "link"
     /\ fs[fs[Dst].target].kind = "dir"
     /\ fs[fs[Dst].target].complete

\* dst.old never names the tree dst names, whatever step a call was
\* interrupted at: falling back to dst.old always leaves the tree dst serves.
RollbackDistinct ==
  fs[DstOld].kind = "link" /\ fs[Dst].kind = "link" => fs[DstOld].target # fs[Dst].target

\* Every call of move_repos_into_place returns or raises: none of its three
\* name-probing loops spins forever.
Termination == pc # "idle" ~> pc = "idle"

=============================================================================
