\* DEFAULT_ARCHES with i686 beside x86_64 (archname() maps both), so that an
\* apt suite is re-published and re-signed within a run; -a given or not;
\* one failing tool and one silent (backtick) failure.
CONSTANTS
  DEFAULT_ARCHES <- TwoArches
  Versions <- MCVersions
  DistroArgs <- MCDistroArgs
  ArchArgs <- MCArchArgsRepeated
  MaxToolFailures = 1
  MaxSilentFailures = 1

SPECIFICATION Spec

INVARIANT NoForeignPackages
INVARIANT SignatureCurrent
INVARIANT PublishedRepoConsistentNoSilent

\* main() returns or raises: the program stops
CHECK_DEADLOCK FALSE
