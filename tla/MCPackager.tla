----------------------------- MODULE MCPackager -----------------------------
(***************************************************************************)
(* Instantiates Packager for TLC: a release, an RC and a nightly version,  *)
(* and --distros lists that select one unit, several units of one family,  *)
(* units of both families, and every unit.                                 *)
(***************************************************************************)
EXTENDS Packager

Stable == <<"3", ".", "2", ".", "1">>
Rc == <<"3", ".", "3", ".", "0", "-", "r", "c", "1">>
Nightly == <<"3", ".", "3", ".", "0", "-">>

MCVersions == {Stable, Nightly}

\* the --distros lists: none (every build_os), one, two of one distro, and
\* one of each family
MCDistroArgs == {<<>>, <<"debian71">>, <<"rhel70", "rhel62">>, <<"ubuntu1404", "suse11">>}

\* --arches not given, or given as the one default architecture
MCArchArgsDefault == {<<>>}
MCArchArgsRepeated == {<<>>, <<"x86_64">>}

OneArch == <<"x86_64">>
TwoArches == <<"x86_64", "i686">>

=============================================================================
