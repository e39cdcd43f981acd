# TLA+ models of the robomongo build tooling

The code this repository authors, outside the vendored libraries, is build- and
release-time tooling:

- `buildscripts/packager.py` (under `src/src/third-party/mongodb/`) turns MongoDB
  release tarballs into Debian and RPM repositories;
- two code generators (`generate_error_codes.py`, WiredTiger's `dist/*.py`);
- the QScintilla `configure.py` scripts;
- two small scripts under `src/bin/`.

Each one is a sequential, one-shot program. The two scripts under `src/bin/` are
the repository's own code, and both rewrite files in place that they will meet
again on the next run:
- `set-mongo-warning-level-3.py` wraps mongo includes in warning pragmas;
- `enableVisualStudioClangTidy.py` enables clang-tidy in the generated project.

The packager is the largest program. It is a pipeline of units, several external
commands that may fail, directories shared between units, and a symlink-swap
utility that is meant to survive interruption. WiredTiger's `flags.py` allocates
bits greedily and rewrites a header.

## Inventory

| Part (spec name) | Code | State | Operations | Interacts with |
|---|---|---|---|---|
| VersionSpec | `class Spec`, packager.py 51-120 | none (pure) | is_nightly, is_rc, branch, suffix, prelease, pversion | Distro.repodir, setupdir, make_rpm |
| DistributionProfile | `class Distro`, 122-249 | none (tables) | archname, build_os, repo_os_version, repo_component, repodir, release_dist | every unit step |
| Orchestrator | `main`, `crossproduct`, 251-322 | args, unit list, loop position | parse, tarball guard, loop | all below |
| ArtifactFetcher | tarball copy in `main`, `httpget`, 295-298, 352-374 | `dl/` cache keyed by `tarfile()` | copy, download with write-then-rename | StagingAssembler reads `dl/` |
| StagingAssembler | `make_package`, `unpack_binaries_into`, 376-421 | setupdirs keyed by `setupdir()` | git archive of metadata, tar, rename of bin/ and license files | PackageBuilder |
| PackageBuilder | `make_deb`, `make_rpm`, 431-474, 601-688 | build areas (setupdir parent; `rpmbuild/<build_os>/RPMS/<arch>`), `repo/` | packaging tool, glob copy into `repodir()` | RepositoryPublisher |
| RepositoryPublisher | `make_repo`, `make_deb_repo`, `make_rpm_repo`, 423-534, 690-696 | Packages files, Release, Release.gpg, createrepo metadata | index, release, sign | reads `repo/` |
| move_repos_into_place | 537-598 | names `dst`, `dst.old`, `dst.<date>.<i>`, `dst.TMP.<i>`, `dst.old.<i>` | mkdir probe, cp, symlink probes, two renames | not called by `main()` in this version |
| WarningLevelScript | `src/bin/set-mongo-warning-level-3.py` (42 lines) | the `.h`/`.cpp` files under `root_dir` | walk, per-file read, rewrite with push/pop pragmas | reruns read the pragmas it wrote |
| ClangTidyScript | `src/bin/enableVisualStudioClangTidy.py` (44 lines) | the `.vcxproj` file | early path (set checks), append path (insert `clang-tidy.xml`, set checks) | reruns meet its own output |
| WiredTigerFlags | `third_party/wiredtiger/dist/flags.py` (190 lines) | flag counts, per-method bit masks, flag bits, the rewritten `flags.h` | count, greedy first-fit bit allocation, header rewrite | reads and writes `src/include/flags.h` |

The hard behaviours are these:
- `sysassert` raises, and `main()` has only `try/finally`, so one failure ends the batch.
- `backtick` ignores exit status, so some failures are silent.
- argparse `append` adds to a default list.
- Build areas and globs are shared between units.
- The publish step runs after every unit, not once per directory.
- Interruption between the steps of `move_repos_into_place` leaves names behind
  for the next call.

## Modules

- **VersionSpec.tla**: the `Spec` class as operators over version strings,
  with a version string written as a sequence of characters.
  - `IsNightly` and `IsRc` are the regular expressions.
  - `Branch` and `Minor` are the splits.
  - `SuffixDefined` states when `int(...)` in `suffix()` succeeds.
  - `Prelease` keeps the truthiness test of `self.rel`: 0 counts as absent.
  - `PVersion` is the two `re.sub` calls.
- **Distro.tla**: the `Distro` class as tables over the five `DISTROS`.
  `Repodir` is the record of the path components `repodir()` formats.
- **Packager.tla**: `main()` and the whole pipeline, one unit at a time.
  - **State.**
    - `args` holds the parsed arguments.
    - `units` is the crossproduct filtered by `--distros`; `cur` is the loop position.
    - `pc` records the step within the unit, and `status` the state of each unit.
    - `dl` is the download cache keyed by `TarKey` (= `tarfile()`).
    - `staged` holds the setupdirs keyed by `SetupKey` (= `setupdir()`).
    - `area` holds the package files left in the build areas, keyed by `AreaKey`.
    - `repo` holds the packages copied into each `repodir()`.
    - `index` is the Packages file or the createrepo metadata of each directory.
    - `release` and `sig` are the Release and Release.gpg of each apt suite.
    - `failures` counts the injected failures.
  - **Actions.** There is one action per step of a unit, with separate actions
    for its failure:
    - `HttpGet`, `HttpGetFails`;
    - `MakePackage`, `MakePackageRaises`, `MakePackageFails`;
    - `MakePkg`, `MakePkgFails`;
    - `MakeDebRepoIndex`, `MakeDebRepoRelease`, `MakeDebRepoSign`, `MakeDebRepoSignFails`;
    - `MakeRpmRepo`, `MakeRpmRepoFails`.
  - **Failures.** A failing `sysassert` or exception is `Abort`: the unit fails
    and `main()` is left. A failing `backtick` command is a silent failure: the
    step completes with empty output.
  - **File contents.** Package files are records `[unit, src]`. A Packages file
    is the set of packages it lists. A Release maps each directory of its suite
    to the Packages contents it checksums. A signature is the Release it signs.
- **MoveRepos.tla**: `move_repos_into_place` over several calls made on one day.
  - **State.**
    - `fs` maps each name to none, a directory (complete or not) or a symlink.
    - `pc`, `i`, `dname`, `tmpnam` and `oldnam` are the locals of the running call.
  - **Actions.** Each loop iteration of the code is an action: `MkdirExists` and
    `Mkdir`, `TmpLinkExists` and `TmpLink`, `OldLinkExists` and `OldLink`. Each
    `EEXIST` retry is a step. `OldLinkExists` changes nothing, because the code
    does not increment `i` in that loop.
  - **Failures.** `CopyFails` is the `sysassert` on `cp`. `Crash` interrupts a
    call between any two steps and keeps everything it created.
- **Flags.tla**: WiredTiger's `dist/flags.py`, one step per loop iteration.
  - **State.**
    - `table`, `order` and `header` are the inputs: the `flags` dictionary,
      the iteration order of `flags.items()` (unspecified in Python 2) and the
      lines of `flags.h`, each line only as whether it holds the BEGIN or END marker.
    - `flag_cnt` and `flag_name` are the dictionaries of the counting loop.
    - `name_mask` holds the used bits of each method, as a set of bit indices.
    - `flag_bit` and `flag_info` hold the allocation; `exit_method` is set when
      the script exits with "ran out of flags".
    - `li`, `skip` and `out` are the state of the header rewrite.
  - **Actions.**
    - Counting: `ResetMask`, `SkipNone`, `CountFlag`, `NextMethod`, `BuildDone`.
    - Allocation: `AssignBit` takes the next flag in (-count, name) order, which
      is what `sorted(..., key=lambda ...)` gives, and its lowest free bit.
      `RanOut` is `sys.exit`, and `AllocDone` ends the loop.
    - Rewrite: `RewriteLine` is one line of the `for line in open(...)` loop,
      with `skip` and the BEGIN/END tests in the code's order. `Finish` is the
      closing `compare_srcfile`.
  - The code's own dictionary (87 names, 10 methods) is not copied into the
    model: the runs take the small tables of MCFlags, which have the shapes
    the allocation can go wrong on (flags shared by several methods).
- **WarningLevel.tla**: `set-mongo-warning-level-3.py` over repeated runs.
  - **State.**
    - `disk` holds each `.h`/`.cpp` file as a sequence of lines. A line is a
      mongo include, one of the two pragmas, or other text. Other files are
      never opened by the script, so their contents are not state.
    - `walk` is the order `os.walk` yields files in; it is the same on every run.
    - `bad` holds the files `readlines()` cannot decode.
    - `touched` is a history variable: the files rewritten so far, by any
      run. `rewritten` holds the files rewritten by the current run; `Start`
      empties it.
    - `runs`, `pc` and `k` track the runs and the position in the walk.
    - `interrupts` counts runs stopped by Ctrl-C. `orig` (every file before
      the first run) and `cut` (files left part-written) are history variables.
  - **Actions.**
    - `Start`.
    - `SkipName` is the `.h`/`.cpp` filter.
    - `DecodeFails`: the uncaught `UnicodeDecodeError` ends the run.
    - `ForceWarning` is one call of `force_warning_level_3`.
    - `WalkDone`.
    - `Reencode` is the developer fixing a file between runs.
    - `Interrupt` is a Ctrl-C during a run. `KeyboardInterrupt` is not caught,
      so the run stops. If it comes inside the write loop (lines 13-28), the
      `with` block closes the file on the writes made so far. Each
      `out_file.write` is the output for one input line, so the file holds
      `ForceWarningLevel3` of the first `j` lines.
  - **The loop.** `Rewrite(buf, last)` is the per-line loop as a RECURSIVE
    operator carrying `last_line_has_mongo`.
- **ClangTidy.tla**: `enableVisualStudioClangTidy.py` over repeated runs on its
  own output.
  - **State.**
    - `proj` holds the project as one element per line: other text, a line with
      `</ItemGroup>`, a PropertyGroup tag, `EnableClangTidyCodeAnalysis`, or
      `ClangTidyChecks` with its text.
    - `frag` is `clang-tidy.xml`.
    - `status` and `applied` record how the last run ended and with which checks.
  - **Actions.** A run is one action for each way it can end:
    - `UpdateChecks`: lines 17-23 (parse, then the early path).
    - `UpdateRaises`: line 20 on `None`.
    - `AppendChecks`: lines 26-44.
    - `AppendRaises`: line 42 on `None`.
  - **Helpers.**
    - `Find` is `tree.find`: the first element.
    - `AppendFragment` is the write loop with its `appended` flag.
  - **Refinement.** `ClangTidyConfig.tla` states what the script promises the
    build. Its state is only what MSBuild reads: whether the analysis is enabled,
    and the `ClangTidyChecks` value in effect. A run either ends with "Finished"
    (`Configure(c)`: enabled, with checks `c`) or raises (`Fail`: nothing MSBuild
    reads changes). ClangTidy instantiates it with the mapping
    `enabled <- Find(proj, "enable") # 0` and `checks <- Effective(proj)` (the
    last `ClangTidyChecks`, which MSBuild uses). `ImplementsConfig` is its `Spec`,
    checked as a property of `tidy_runs`.
- **MCPackager.tla**, **MCMoveRepos.tla**, **MCFlags.tla**, **MCWarningLevel.tla**
  and **MCClangTidy.tla** are the model-checking instances. MCFlags holds:
  - every table of 3 methods over 4 names with at most 2 names each, in every
    iteration order (`S*`);
  - every header of at most three lines.
- **MCVersionSpec.tla** checks the `Spec` operators directly. Its state is the
  arguments `Spec` is built from (`--server-version`, `--release-number`, the
  day), which never change during a run, so a behaviour is its first state.
  The header is chosen when the allocation ends, where the script opens it.

## Runs

There are twelve runs.

| Run | Cfg | Expect | Shows |
|---|---|---|---|
| publish | MCPackager_publish.cfg | pass | Over two arches, with a repeated `--arches`, one failing tool and one silent failure: `NoForeignPackages`, `SignatureCurrent` (Release.gpg always signs the current Release, even for a suite re-published in one run), and `PublishedRepoConsistentNoSilent` (without a silent failure, a normal return leaves every index and every Release current). |
| isolation | MCPackager_isolation.cfg | violation | `FailureIsolation`: one failing tool leaves later units unprocessed (spec 4.7 and 7 require them to be published). |
| tarball | MCPackager_tarball.cfg | violation | `LocalTarballSingleUnit`: `--tarball` without `-d` passes the guard (0 × 1 = 0), so the local file is packaged for all eight build_os. |
| repeated_arch | MCPackager_repeated_arch.cfg | violation | `NoAbortWithoutFailure`: `-a x86_64` duplicates the arch, and the second staging raises with no command failing. |
| silent_index | MCPackager_silent_index.cfg | violation | `PublishedRepoConsistent`: a silent dpkg-scanpackages or apt-ftparchive failure leaves an empty Packages file or an empty Release, and the run ends normally. |
| move_calls | MCMoveRepos_calls.cfg | pass | `DstComplete` and `RollbackDistinct` over three calls, one failing `cp` and one interruption at any step. |
| move_hang | MCMoveRepos_crash_hang.cfg | violation | `Termination`: a leftover `dst.old.0` makes the next call loop forever. |
| flags_shared | MCFlags_shared.cfg | pass | `TypeOK`, `NoSharedBit` and `MaskMatchesBits` for every small table with shared flags, in every dictionary order, at 2 bits (so that the script also exits). `HeaderRewritten`: for every `flags.h` of at most three lines with one BEGIN marker before one END marker, the rewrite keeps the lines outside the section and both markers. |
| release_zero | MCVersionSpec_release.cfg | violation | `ReleaseIsOverride`: for `--release-number 0` on a stable version, `prelease()` tests `if self.rel:` and gives "1". Spec 8 says `str(override)`, which is "0". |
| warning_runs | MCWarningLevel_runs.cfg | pass | Over three runs, undecodable files and one Ctrl-C at any point, checks `CodeKept`, `PopMatched`, `IncludesCovered` and `RunReachesFirstBad`. `CodeKept`: a file never cut holds exactly its original code, and a file cut mid-rewrite (then maybe rewritten again) has lost only a tail of it. `PopMatched`: no pop is ever left without a push, even in a cut file. `IncludesCovered`: every mongo include of a rewritten file is under a push, also after a rerun re-wraps it. `RunReachesFirstBad`: a run not interrupted has, by the step that ends it, itself rewritten every source the walk yields before the first undecodable one; files an earlier run rewrote do not count, so a rerun after a re-encode must reach them again. |
| warning_balanced | MCWarningLevel_balanced.cfg | violation | `Balanced`: a file whose last line is a mongo include keeps a push with no pop, so level 3 leaks into every file that includes it. |
| tidy_runs | MCClangTidy_runs.cfg | pass | Over four runs on generated projects and on projects the IDE configured (analysis on, with or without checks), checks `EnableOnce`, `ProjectKept`, `ImplementsConfig` and `RerunIdempotent`. `EnableOnce`: `clang-tidy.xml` is added at most once. `ProjectKept` is an action property: no generated line is lost. `ImplementsConfig`: the script implements `ClangTidyConfig` (refinement), so a run that prints "Finished" leaves its checks in the element MSBuild reads, and a run that raises changes nothing MSBuild reads. `RerunIdempotent`: a rerun after a finished run, with the same checks, leaves the project unchanged, so the build does not change the project on every build. |

Every property of a passing run has a mutant in PROJECT.json. A mutant is a
plausible bug in the code, written as an operator next to the definition it
replaces, and TLC must find it violating the property under the run's own cfg.

The Packager mutants are:
- `AreaKeySharedTopdir`: one rpmbuild topdir for every build_os.
- `MakeDebRepoReleaseKeepSig`: Release.gpg is not unlinked.
- `MakeRpmRepoSkipped`: createrepo is not run.

The MoveRepos mutants are:
- `MkdirReuse`: mkdir accepts an existing directory.
- `OldLinkToNew`: the old symlink is made to the new tree.

The Flags mutants are:
- `FreeFirstMethod`: only the first method listing a flag is consulted.
- `FreeWide`: an off-by-one past the last bit.
- `AssignBitNoMaskUpdate`: the masks are not updated.
- `RewriteLineBeginFirst`: the BEGIN test is moved before the skip test.

The WarningLevel mutants are:
- `RewritePushAfter`: the push is written after the include.
- `RewritePopInverted`: the pop test is negated.
- `RewriteReplace`: the include is replaced by the push.
- `WalkDoneEarly`: the walk ends one file early.

The ClangTidy mutants are:
- `AppendNoGuard`: the `appended` test is dropped.
- `AppendReplace`: the `</ItemGroup>` line is replaced by the fragment.
- `SetChecksAppend`: a new `ClangTidyChecks` element is added instead of setting
  the text of the existing one. The refinement does not catch this, because the
  last element holds the new checks; `RerunIdempotent` does.
- `SetChecksWrongTag`: the lookup uses the wrong tag.
- `AppendChecksNoWrite`: line 43 (`tree.write`) is left out, so the checks set
  after the append never reach the file.

## Bounds and why they are enough

- **Versions.** A stable and a nightly version. A stable version publishes under
  its branch and a pre-release one under `testing`. The RC form takes the same
  path as the nightly.
- **`--distros`.**
  - `<<>>`: all eight build_os.
  - `<<"debian71">>`: one unit.
  - `<<"rhel70","rhel62">>`: two rpm units that share an arch and differ in build_os.
    This is the case where a shared build area would leak packages.
  - `<<"ubuntu1404","suse11">>`: one unit of each family.
- **`--arches`.** Absent, or `x86_64` given once, which is the duplicate case.
- **`DEFAULT_ARCHES`.** The shipped `x86_64` in the violation runs. The publish
  run also lists `i686`, which `archname()` maps for both families. With it, two
  units publish into one apt suite in one run, which is what re-signing needs.
- **Failures.** At most one failing tool and one silent failure per run. The
  first abort ends the run, so a second tool failure can never be observed.
- **MoveRepos.**
  - Three calls, so that both the mkdir and the TMP-link probes move past index 0.
  - One interruption and one cp failure. An interruption at each of the eight
    steps is explored.
  - Two calls are enough to show the hang.
- **Flags.**
  - The shipped table shares no flag between methods and its longest list has
    15 names, so at 32 bits it never reaches the exit. No run takes it; the
    allocation is checked where it can go wrong, on shared flags.
  - The small tables cover every way 3 methods can share 4 names, in all
    6 orders. At 2 bits, some of them exit, so both ends of the loop are reached.
  - Three header lines are enough for text before, between or after the
    markers, and for missing, repeated, reversed and same-line markers.
- **WarningLevel.**
  - Two sources and one file the name filter skips.
  - Every content of up to three lines. That covers runs of includes at the
    start, in the middle and at the end, and runs split by other text.
  - Every walk order, and any set of undecodable sources.
  - Three runs and one Ctrl-C: a rerun after a stopped, cut or complete run is
    what re-wraps files, and a third run rewrites a cut file twice more.
- **ClangTidy.**
  - Generated projects of up to four lines, with up to four `</ItemGroup>`
    lines (two or more is where the `appended` flag matters), plus projects
    with the analysis enabled, with no checks or with one checks element.
  - Both element orders of the fragment, and two different checks texts.
  - Four runs: the append run, then reruns with changed and unchanged checks.
    Idempotence needs two finished runs in a row with the same checks.

## Fairness

- **Packager.** `WF_vars(Next)`. The script runs to completion unless a command
  fails. Every external command is modelled as returning (timeouts are not the
  core's concern, spec 5).
- **MoveRepos.** `WF_vars(Step)` on the steps of a running call only.
  - A running call keeps executing.
  - Starting a new call is the operator's choice, so `Start` has no fairness.
  - An interruption is never forced, so `Crash` has no fairness.
  - `OldLinkExists` changes no variable. A call stuck in that loop therefore
    stutters, and weak fairness does not rescue it. That is the hang the code has.
- **Flags.** `WF_vars(Next)`: a one-shot script. Only safety is checked.
- **WarningLevel.** Weak fairness on the steps of a started run only: the
  script is sequential and nothing it calls blocks. Starting a run, re-encoding
  a file and pressing Ctrl-C are the developer's choice, so they have none.
  No liveness property is checked: a run's walk is finite, so that it ends
  says nothing about the code. `RunReachesFirstBad` is an action property.
- **ClangTidy.** No fairness: a run happens when the build invokes it. Only
  safety and action properties are checked.

## What is not modelled, and why

- **Not yet modelled:**
  - `version_better_than`, which nothing calls;
  - the changelog rewrite, rpm macros and rpmrc files, and the init-script
    link swaps (file contents that no property distinguishes);
  - the clock used for nightly release numbers.
- **VersionSpec.** Only `prelease()` is checked against spec 8 (`release_zero`).
  The other operators are used through `Repodir` and `SuffixDefined`.
- **Modelled but not checked as a property.** The project keeps twelve runs,
  and these behaviours are reached by a run without a property about them:
  - `move_repos_into_place` renames onto `dst` before it renames onto `dst.old`.
    An interruption between the two leaves `dst.old` on the tree before the
    previous one, although spec 5 calls `dst.old` the rollback point.
    `move_calls` reaches this, and main() never calls the function.
  - The greedy allocation of `flags.py` is not optimal. On six methods sharing
    flags in a cycle, it runs out of 2 bits although 2 suffice. The shipped
    table is not of that kind.
  - `enableVisualStudioClangTidy.py` sets the first `ClangTidyChecks`, while
    MSBuild reads the last one. A project that already has its own
    `ClangTidyChecks` without `EnableClangTidyCodeAnalysis` therefore keeps the
    old checks in force after the append. Such projects are left out of
    `tidy_runs`.
  - Spec 4.1 says a malformed version string fails with a configuration error
    when it is read. The code fails only in `setupdir()`, after the first
    tarball was downloaded (`MakePackageRaises`). No run has a version without
    an integer minor.
- **Not modelled in the scripts under `src/bin/`:**
  - the wording of the printed messages;
  - the hard-coded `root_dir`;
  - missing input files, which raise before anything is written;
  - the loss of the XML declaration when lxml re-serialises the project.
  An interruption between `open(..., "w")` and the end of the write loop
  truncates a file. `WarningLevel` models it (`Interrupt`); in `ClangTidy`
  each run stays one step, since the build that runs it does not stop it
  halfway in normal use. A kill that leaves a part of one buffered write on
  disk is finer than the line granularity of the model.
- **Further work.** The project keeps to twelve runs, and each item below
  needs a run of its own:
  1. **MCVersionSpec.** Check the other spec 8 properties over bounded version
     strings: a hyphen-free RPM version and the `testing` branch for
     pre-releases.
  2. **`generate_error_codes.py`.** Its conflict checks as a state machine over
     table entries.
  3. **QScintilla configure-file parser.**
  4. **Packager refinement.** An abstract repository specification, in which the
     published index only grows by whole units, and Packager shown to implement
     it with INSTANCE ... WITH.
- **Out of TLC's reach or of no interest:**
  - the data tables `stat_data.py` and `api_data.py`;
  - `packing-test.py`, a print driver;
  - `mongo_unittest.py`, SCons glue;
  - the host probing and project-file writing of the configure scripts.
