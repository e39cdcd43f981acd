------------------------------ MODULE Packager ------------------------------
(***************************************************************************)
(* main() of buildscripts/packager.py: for every (distro, arch, build_os)  *)
(* unit the command line selects, fetch the tarball, stage it with the     *)
(* packaging metadata, build a .deb or .rpm, copy the package files of the *)
(* build area into the unit's repository directory, and regenerate the     *)
(* repository indexes (and, for apt, the signed Release of the suite).    *)
(*                                                                         *)
(* The units run one after the other in one process.  Every external      *)
(* command run by sysassert() may exit non-zero, which raises and ends the *)
(* whole run ("aborted").  Commands run by backtick() may fail too, but    *)
(* their exit status is never looked at: the code goes on with an empty    *)
(* output.  Both kinds of failure are bounded.                            *)
(***************************************************************************)
EXTENDS Distro

CONSTANTS
  DEFAULT_ARCHES,     \* the MongoDB architecture names (line 45): --arches choices
  Versions,           \* candidate --server-version strings
  DistroArgs,         \* candidate lists given by the repeated --distros flag
  ArchArgs,           \* candidate lists given by the repeated --arches flag
  MaxToolFailures,    \* external commands that may exit non-zero in a run
  MaxSilentFailures   \* backtick() commands that may fail in a run

ASSUME MaxToolFailures \in Nat /\ MaxSilentFailures \in Nat

VARIABLES
  args,       \* the parsed command line
  units,      \* the units main() iterates, in order
  cur,        \* index in units of the unit being processed
  pc,         \* where main() is
  status,     \* per index of units: the unit's pipeline state
  dl,         \* tarball key -> where the file under dl/ came from
  staged,     \* setupdir key -> where the binaries unpacked into it came from
  area,       \* set of <<build area, package>>: what the packaging tools left
  repo,       \* repository directory -> the package files in it
  index,      \* repository directory -> the packages its index lists
  release,    \* apt suite -> its Release file
  sig,        \* apt suite -> the Release content Release.gpg signs
  failures    \* [tool, silent]: failures injected so far

vars == <<args, units, cur, pc, status, dl, staged, area, repo, index,
          release, sig, failures>>

\* A file is the sequence <<content>>, and a missing one the empty sequence.
NoFile == <<>>
Absent == "none"     \* no tarball under dl/, or nothing unpacked

-----------------------------------------------------------------------------
(* The universe of units, directories and files of a run.                 *)

UnitUniverse ==
  UNION {{[distro |-> n, arch |-> a, build_os |-> b] :
             b \in Range(BuildOS(n)), a \in Range(DEFAULT_ARCHES)} :
           n \in Range(DISTROS)}

Dirs == {Repodir(u.distro, u.arch, u.build_os, v) : u \in UnitUniverse, v \in Versions}

\* the directory the Release of an apt repository directory lives in:
\* repo + "../../", that is dists/<codename>/mongodb-org/<branch>/
Suite(d) == [distro |-> d.distro, osver |-> d.osver, branch |-> d.branch]

Suites == {Suite(d) : d \in {e \in Dirs : e.tool = "apt"}}

Pkgs == [unit : UnitUniverse, src : {"remote", "local"}]

-----------------------------------------------------------------------------
(* The code's names for the files of a unit.                              *)

\* crossproduct(distros, arches) x distro.build_os(), filtered by --distros
Units(a) ==
  LET Wanted(b) == b \in Range(a.distros) \/ a.distros = <<>>
      ForArch(n, arch) ==
        SelectSeq([k \in DOMAIN BuildOS(n) |->
                     [distro |-> n, arch |-> arch, build_os |-> BuildOS(n)[k]]],
                  LAMBDA u : Wanted(u.build_os))
  IN FlattenSeq([i \in DOMAIN DISTROS |->
       FlattenSeq([j \in DOMAIN a.arches |-> ForArch(DISTROS[i], a.arches[j])])])

\* tarfile(): dl/mongodb-linux-<version>-<build_os>-<arch>.tar.gz
TarKey(u) == <<u.build_os, u.arch>>

\* setupdir(): dst/<arch>/<distro>/<build_os>/mongodb<suffix>-<pversion>/;
\* suffix and pversion depend on the version only, the same for the run
SetupKey(u) == <<u.arch, u.distro, u.build_os>>

\* mutant: rpmbuild's topdir shared by every build_os
AreaKeySharedTopdir(u) ==
  IF Family(u.distro) = "deb" THEN <<"deb", u.arch, u.distro, u.build_os>>
  ELSE <<"rpm", ArchName(u.distro, u.arch)>>

\* where the packaging tool leaves the package files that are then copied
\* with a glob: the parent of the setupdir for dpkg-buildpackage, and
\* rpmbuild/<build_os>/RPMS/<distro arch>/ for rpmbuild
AreaKey(u) ==
  IF Family(u.distro) = "deb" THEN <<"deb", u.arch, u.distro, u.build_os>>
  ELSE <<"rpm", u.build_os, ArchName(u.distro, u.arch)>>

U == units[cur]

RepoDir(u) == Repodir(u.distro, u.arch, u.build_os, args.ver)

Fail(kind) ==
  /\ failures[kind] < IF kind = "tool" THEN MaxToolFailures ELSE MaxSilentFailures
  /\ failures' = [failures EXCEPT ![kind] = @ + 1]

\* an exception leaves main(): the unit fails and no later unit runs
Abort ==
  /\ status' = [status EXCEPT ![cur] = "failed"]
  /\ pc' = "aborted"

-----------------------------------------------------------------------------
(* main(): argument parsing and the loop over the units.                  *)

\* argparse's "append" action adds the given --arches to the default list
Init ==
  /\ \E v \in Versions, d \in DistroArgs, a \in ArchArgs, t \in BOOLEAN :
       args = [ver |-> v, distros |-> d, tarball |-> t,
               arches |-> IF a = <<>> THEN DEFAULT_ARCHES ELSE DEFAULT_ARCHES \o a]
  /\ units = <<>>
  /\ cur = 0
  /\ pc = "main"
  /\ status = <<>>
  /\ dl = [k \in {TarKey(u) : u \in UnitUniverse} |-> Absent]
  /\ staged = [k \in {SetupKey(u) : u \in UnitUniverse} |-> Absent]
  /\ area = {}
  /\ repo = [d \in Dirs |-> {}]
  /\ index = [d \in Dirs |-> NoFile]
  /\ release = [s \in Suites |-> NoFile]
  /\ sig = [s \in Suites |-> NoFile]
  /\ failures = [tool |-> 0, silent |-> 0]

\* parser.error(): a local tarball with more than one distro/arch pair
UsageError ==
  /\ pc = "main"
  /\ Len(args.distros) * Len(args.arches) > 1 /\ args.tarball
  /\ pc' = "usage_error"
  /\ UNCHANGED <<args, units, cur, status, dl, staged, area, repo, index,
                 release, sig, failures>>

Main ==
  /\ pc = "main"
  /\ ~(Len(args.distros) * Len(args.arches) > 1 /\ args.tarball)
  /\ units' = Units(args)
  /\ status' = [i \in DOMAIN units' |-> "pending"]
  /\ pc' = "loop"
  /\ UNCHANGED <<args, cur, dl, staged, area, repo, index, release, sig, failures>>

NextUnit ==
  /\ pc = "loop"
  /\ cur < Len(units)
  /\ cur' = cur + 1
  /\ pc' = "fetch"
  /\ UNCHANGED <<args, units, status, dl, staged, area, repo, index, release,
                 sig, failures>>

Finish ==
  /\ pc = "loop"
  /\ cur = Len(units)
  /\ pc' = "done"
  /\ UNCHANGED <<args, units, cur, status, dl, staged, area, repo, index,
                 release, sig, failures>>

-----------------------------------------------------------------------------
(* ArtifactFetcher: shutil.copyfile of --tarball, or httpget(), which      *)
(* writes <file>.TMP and renames it only on HTTP 200.                      *)

CopyTarball ==
  /\ pc = "fetch" /\ args.tarball
  /\ dl' = [dl EXCEPT ![TarKey(U)] = "local"]
  /\ status' = [status EXCEPT ![cur] = "fetched"]
  /\ pc' = "stage"
  /\ UNCHANGED <<args, units, cur, staged, area, repo, index, release, sig, failures>>

HttpGet ==
  /\ pc = "fetch" /\ ~args.tarball
  /\ dl' = [dl EXCEPT ![TarKey(U)] = "remote"]
  /\ status' = [status EXCEPT ![cur] = "fetched"]
  /\ pc' = "stage"
  /\ UNCHANGED <<args, units, cur, staged, area, repo, index, release, sig, failures>>

HttpGetFails ==
  /\ pc = "fetch" /\ ~args.tarball
  /\ Fail("tool")
  /\ Abort
  /\ UNCHANGED <<args, units, cur, dl, staged, area, repo, index, release, sig>>

-----------------------------------------------------------------------------
(* StagingAssembler: make_package() up to make_pkg(): git archive of the   *)
(* debian/ and rpm/ metadata into the setupdir, then unpack_binaries_into, *)
(* which renames bin/ and the license files out of the unpacked tree.     *)

\* make_package() succeeds; suffix() in setupdir() needs an integer minor
\* version, and os.rename of the unpacked bin/ onto the setupdir's bin/
\* fails when an earlier unit left one there
MakePackage ==
  /\ pc = "stage"
  /\ SuffixDefined(args.ver)
  /\ staged[SetupKey(U)] = Absent
  /\ staged' = [staged EXCEPT ![SetupKey(U)] = dl[TarKey(U)]]
  /\ status' = [status EXCEPT ![cur] = "staged"]
  /\ pc' = "build"
  /\ UNCHANGED <<args, units, cur, dl, area, repo, index, release, sig, failures>>

\* the setupdir cannot be staged twice, or the version has no integer minor
MakePackageRaises ==
  /\ pc = "stage"
  /\ ~SuffixDefined(args.ver) \/ staged[SetupKey(U)] # Absent
  /\ Abort
  /\ UNCHANGED <<args, units, cur, dl, staged, area, repo, index, release, sig,
                 failures>>

\* git archive or tar exits non-zero
MakePackageFails ==
  /\ pc = "stage"
  /\ Fail("tool")
  /\ Abort
  /\ UNCHANGED <<args, units, cur, dl, staged, area, repo, index, release, sig>>

-----------------------------------------------------------------------------
(* PackageBuilder: make_deb() or make_rpm(), chosen by family.  Both run   *)
(* the packaging tool, then copy every package file of the build area     *)
(* ("cp *.deb", "cp RPMS/<arch>/*.rpm") into the unit's repodir().         *)

MakePkg ==
  /\ pc = "build"
  /\ LET p == [unit |-> U, src |-> staged[SetupKey(U)]]
         a == AreaKey(U)
         d == RepoDir(U)
     IN /\ area' = area \cup {<<a, p>>}
        /\ repo' = [repo EXCEPT ![d] = @ \cup {q[2] : q \in {e \in area' : e[1] = a}}]
  /\ status' = [status EXCEPT ![cur] = "built"]
  /\ pc' = "publish"
  /\ UNCHANGED <<args, units, cur, dl, staged, index, release, sig, failures>>

\* cp, dpkg-buildpackage, rpmbuild or the final cp exits non-zero; the
\* package may already be in the build area when the final cp fails
MakePkgFails ==
  /\ pc = "build"
  /\ Fail("tool")
  /\ \E built \in BOOLEAN :
       area' = IF built THEN area \cup {<<AreaKey(U), [unit |-> U, src |-> staged[SetupKey(U)]]>>}
               ELSE area
  /\ Abort
  /\ UNCHANGED <<args, units, cur, dl, staged, repo, index, release, sig>>

-----------------------------------------------------------------------------
(* RepositoryPublisher: make_repo(), once after every unit.  For apt:     *)
(* dpkg-scanpackages over every directory of repo/apt/<distro>/ holding a  *)
(* .deb, then the suite's Release.gpg and Release are unlinked, Release is *)
(* rewritten from apt-ftparchive and signed by gpg.  For yum and zypper:  *)
(* createrepo in the unit's directory.                                     *)

\* the directories find(1) reports under repo/apt/<distro>/
AptDirs(n) == {d \in Dirs : d.tool = "apt" /\ d.distro = n /\ repo[d] # {}}

\* dpkg-scanpackages runs through backtick(): a failing run writes an empty
\* Packages file
MakeDebRepoIndex ==
  /\ pc = "publish"
  /\ Family(U.distro) = "deb"
  /\ \E bad \in SUBSET AptDirs(U.distro) :
       /\ failures.silent + Cardinality(bad) <= MaxSilentFailures
       /\ failures' = [failures EXCEPT !.silent = @ + Cardinality(bad)]
       /\ index' = [d \in Dirs |->
                      IF d \in AptDirs(U.distro)
                      THEN <<IF d \in bad THEN {} ELSE repo[d]>>
                      ELSE index[d]]
  /\ pc' = "release"
  /\ UNCHANGED <<args, units, cur, status, dl, staged, area, repo, release, sig>>

\* the checksums apt-ftparchive writes: every Packages file under the suite
SuiteSums(s) ==
  [d \in {e \in Dirs : e.tool = "apt" /\ Suite(e) = s /\ index[e] # NoFile} |-> index[d][1]]

\* mutant: Release is rewritten but the old Release.gpg is not unlinked
MakeDebRepoReleaseKeepSig ==
  /\ pc = "release"
  /\ LET s == Suite(RepoDir(U)) IN
       \/ /\ release' = [release EXCEPT ![s] = <<SuiteSums(s)>>]
          /\ UNCHANGED failures
       \/ /\ Fail("silent")
          /\ release' = [release EXCEPT ![s] = <<[d \in {} |-> {}]>>]
  /\ pc' = "sign"
  /\ UNCHANGED <<args, units, cur, status, dl, staged, area, repo, index, sig>>

\* unlink Release and Release.gpg, write the header and apt-ftparchive's
\* output (through backtick(): on failure, the header alone)
MakeDebRepoRelease ==
  /\ pc = "release"
  /\ LET s == Suite(RepoDir(U)) IN
       /\ \/ /\ release' = [release EXCEPT ![s] = <<SuiteSums(s)>>]
             /\ UNCHANGED failures
          \/ /\ Fail("silent")
             /\ release' = [release EXCEPT ![s] = <<[d \in {} |-> {}]>>]
       /\ sig' = [sig EXCEPT ![s] = NoFile]
  /\ pc' = "sign"
  /\ UNCHANGED <<args, units, cur, status, dl, staged, area, repo, index>>

\* gpg --list-keys finds a uid and gpg -abs signs Release
MakeDebRepoSign ==
  /\ pc = "sign"
  /\ LET s == Suite(RepoDir(U)) IN sig' = [sig EXCEPT ![s] = release[s]]
  /\ status' = [status EXCEPT ![cur] = "published"]
  /\ pc' = "loop"
  /\ UNCHANGED <<args, units, cur, dl, staged, area, repo, index, release, failures>>

\* gpg -abs exits non-zero, or gpg --list-keys fails silently and the None
\* key it leaves makes the argument list unprintable
MakeDebRepoSignFails ==
  /\ pc = "sign"
  /\ Fail("tool") \/ Fail("silent")
  /\ Abort
  /\ UNCHANGED <<args, units, cur, dl, staged, area, repo, index, release, sig>>

\* mutant: createrepo is not run
MakeRpmRepoSkipped ==
  /\ pc = "publish"
  /\ Family(U.distro) = "rpm"
  /\ status' = [status EXCEPT ![cur] = "published"]
  /\ pc' = "loop"
  /\ UNCHANGED <<args, units, cur, dl, staged, area, repo, index, release, sig, failures>>

MakeRpmRepo ==
  /\ pc = "publish"
  /\ Family(U.distro) = "rpm"
  /\ index' = [index EXCEPT ![RepoDir(U)] = <<repo[RepoDir(U)]>>]
  /\ status' = [status EXCEPT ![cur] = "published"]
  /\ pc' = "loop"
  /\ UNCHANGED <<args, units, cur, dl, staged, area, repo, release, sig, failures>>

MakeRpmRepoFails ==
  /\ pc = "publish"
  /\ Family(U.distro) = "rpm"
  /\ Fail("tool")
  /\ Abort
  /\ UNCHANGED <<args, units, cur, dl, staged, area, repo, index, release, sig>>

-----------------------------------------------------------------------------

Next ==
  \/ UsageError \/ Main \/ NextUnit \/ Finish
  \/ CopyTarball \/ HttpGet \/ HttpGetFails
  \/ MakePackage \/ MakePackageRaises \/ MakePackageFails
  \/ MakePkg \/ MakePkgFails
  \/ MakeDebRepoIndex \/ MakeDebRepoRelease \/ MakeDebRepoSign \/ MakeDebRepoSignFails
  \/ MakeRpmRepo \/ MakeRpmRepoFails

Spec == Init /\ [][Next]_vars /\ WF_vars(Next)

Terminated == pc \in {"done", "aborted", "usage_error"}

-----------------------------------------------------------------------------
(* Properties.                                                            *)

UnitStates == {"pending", "fetched", "staged", "built", "published", "failed"}

TypeOK ==
  /\ pc \in {"main", "loop", "fetch", "stage", "build", "publish", "release",
             "sign", "done", "aborted", "usage_error"}
  /\ cur \in 0..Len(units)
  /\ status \in [DOMAIN units -> UnitStates]
  /\ dl \in [DOMAIN dl -> {Absent, "remote", "local"}]
  /\ staged \in [DOMAIN staged -> {Absent, "remote", "local"}]
  /\ \A e \in area : e[2] \in Pkgs
  /\ repo \in [Dirs -> SUBSET Pkgs]
  /\ \A d \in Dirs : index[d] = NoFile \/ index[d][1] \in SUBSET Pkgs
  /\ DOMAIN release = Suites /\ DOMAIN sig = Suites
  /\ failures.tool <= MaxToolFailures /\ failures.silent <= MaxSilentFailures

\* The apt directories of a suite that hold packages.
FilledSuiteDirs(s) ==
  {d \in Dirs : d.tool = "apt" /\ Suite(d) = s /\ repo[d] # {}}

\* Every package file in a repository directory was built for that
\* directory's distro, OS version, branch and architecture.  The copy at the
\* end of make_deb()/make_rpm() takes every file the glob finds in the build
\* area, so this depends on no two units sharing a build area.
NoForeignPackages ==
  \A d \in Dirs : \A p \in repo[d] : RepoDir(p.unit) = d

\* A Release.gpg that exists is a signature of the Release file next to it:
\* make_deb_repo() re-publishing a suite never leaves the old signature
\* beside a new Release, even when gpg then fails.
SignatureCurrent ==
  \A s \in Suites : sig[s] # NoFile => sig[s] = release[s]

\* When main() returns, every repository directory's index lists exactly the
\* packages in it, and every apt suite has a signed Release whose checksums
\* cover the current Packages file of each of its directories.
PublishedRepoConsistent ==
  pc = "done" =>
    /\ \A d \in Dirs : repo[d] # {} => index[d] = <<repo[d]>>
    /\ \A s \in Suites :
         FilledSuiteDirs(s) # {} =>
           /\ release[s] = <<[d \in FilledSuiteDirs(s) |-> repo[d]]>>
           /\ sig[s] = release[s]

\* The same, for runs in which no command run through backtick() failed:
\* with only sysassert-checked failures, a run that returns has published a
\* consistent, signed repository, whatever the interleaving of units over
\* shared suites and build areas.
PublishedRepoConsistentNoSilent ==
  failures.silent = 0 => PublishedRepoConsistent

\* Failure isolation (spec 4.7, 7): when the run ends, a unit that did not
\* fail itself has been published; one failing unit does not stop the rest.
FailureIsolation ==
  Terminated => \A i \in DOMAIN status : status[i] \in {"published", "failed"}

\* --tarball is "only valid with one distro/arch combination" (its help
\* text): a package built from the local tarball is the run's only unit.
LocalTarballSingleUnit ==
  \A d \in Dirs : \A p \in repo[d] : p.src = "local" => Len(units) = 1

\* A run whose external commands all succeed ends with every unit
\* published: main() never raises on valid arguments by itself.
NoAbortWithoutFailure ==
  pc = "aborted" => failures.tool + failures.silent > 0

=============================================================================
