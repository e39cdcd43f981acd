------------------------------ MODULE Distro --------------------------------
(***************************************************************************)
(* The Distro class of buildscripts/packager.py: per distribution family,  *)
(* the build_os tarball labels, the architecture names, and the layout of  *)
(* the repository tree a package is published into.  The code dispatches   *)
(* on regular expressions over the distro name; over the five names of     *)
(* DISTROS they reduce to the two sets Debianoid and Rpmoid below.         *)
(***************************************************************************)
EXTENDS VersionSpec

\* Made up names for the flavors of distribution we package for (line 48)
DISTROS == <<"suse", "debian", "redhat", "ubuntu", "amazon">>

\* re.search("^(debian|ubuntu)", n) and re.search("^(suse|...|amazon)", n)
Debianoid == {"debian", "ubuntu"}
Rpmoid == {"suse", "centos", "redhat", "fedora", "amazon"}

Family(n) == IF n \in Debianoid THEN "deb" ELSE "rpm"

\* the architectures for which arch.endswith("86") holds
Arch86 == {"i386", "i686"}

ArchName(n, arch) ==
  IF n \in Debianoid THEN IF arch \in Arch86 THEN "i386" ELSE "amd64"
  ELSE IF arch \in Arch86 THEN "i686" ELSE "x86_64"

\* build_os(): the tarball labels built for each distro
BuildOS(n) ==
  CASE n = "suse"                          -> <<"suse11">>
    [] n \in {"redhat", "fedora", "centos"} -> <<"rhel70", "rhel62", "rhel55">>
    [] n = "amazon"                        -> <<"amazon">>
    [] n = "ubuntu"                        -> <<"ubuntu1204", "ubuntu1404">>
    [] n = "debian"                        -> <<"debian71">>

\* repo_os_version(): "suse11" -> "11" and "rhel62" -> "6" are the regular
\* expression substitutions of the code applied to the labels of BuildOS
RepoOSVersion(n, b) ==
  CASE n = "suse"   -> [suse11 |-> "11"][b]
    [] n = "redhat" -> [rhel70 |-> "7", rhel62 |-> "6", rhel55 |-> "5"][b]
    [] n = "amazon" -> "2013.03"
    [] n = "ubuntu" -> [ubuntu1204 |-> "precise", ubuntu1404 |-> "trusty"][b]
    [] n = "debian" -> [debian71 |-> "wheezy"][b]

\* repo_component(); the code raises for the RPM distros, which never ask
RepoComponent(n) == IF n = "ubuntu" THEN "multiverse" ELSE "main"

\* release_dist(): the %dist macro of the RPM build
ReleaseDist(n, b) ==
  IF n = "amazon" THEN "amzn1"
  ELSE [rhel70 |-> "el7", rhel62 |-> "el6", rhel55 |-> "el5", suse11 |-> "suse11"][b]

Testing == <<"t", "e", "s", "t", "i", "n", "g">>

\* repodir(): the directory the package files of a unit are copied into,
\* as the record of the path components the code formats into it
Repodir(n, arch, b, ver) ==
  [tool   |-> IF n \in Debianoid THEN "apt"
              ELSE IF n = "suse" THEN "zypper" ELSE "yum",
   distro |-> n,
   osver  |-> RepoOSVersion(n, b),
   branch |-> IF IsPreRelease(ver) THEN Testing ELSE Branch(ver),
   comp   |-> IF n \in Debianoid THEN RepoComponent(n) ELSE "RPMS",
   arch   |-> ArchName(n, arch)]

=============================================================================
