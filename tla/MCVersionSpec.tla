--------------------------- MODULE MCVersionSpec ----------------------------
(***************************************************************************)
(* The arguments of packager.py that Spec reads: --server-version,         *)
(* --release-number (argparse type=int, absent is None) and the day the    *)
(* run starts on.  None of them changes during a run, so a behaviour is    *)
(* the choice of its first state.                                          *)
(***************************************************************************)
EXTENDS VersionSpec

VARIABLES ver, rel, date

vars == <<ver, rel, date>>

\* a release, a release candidate and a nightly build
MCVersions ==
  { <<"3", ".", "2", ".", "1">>,
    <<"3", ".", "3", ".", "0", "-", "r", "c", "1">>,
    <<"3", ".", "3", ".", "0", "-">> }

\* --release-number absent, zero, positive, negative, and of two digits
MCRels == {<<>>, <<0>>, <<2>>, <<-1>>, <<12>>}

Init == ver \in MCVersions /\ rel \in MCRels /\ date = <<"d">>

Spec == Init /\ [][UNCHANGED vars]_vars

\* Spec 8: for a stable version the iteration is "1" when no release number
\* is given and str(override) when one is; prelease() decides with
\* "if self.rel:".
ReleaseIsOverride ==
  ~IsPreRelease(ver) =>
     Prelease(ver, rel, date) = IF rel = <<>> THEN <<"1">> ELSE NumStr(rel[1])

=============================================================================
