CONSTANTS
  DEFAULT_ARCHES <- OneArch
  Versions <- MCVersions
  DistroArgs <- MCDistroArgs
  ArchArgs <- MCArchArgsDefault
  MaxToolFailures = 0
  MaxSilentFailures = 1

SPECIFICATION Spec

INVARIANT PublishedRepoConsistent

\* main() returns or raises: the program stops
CHECK_DEADLOCK FALSE
