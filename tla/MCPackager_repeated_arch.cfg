CONSTANTS
  DEFAULT_ARCHES <- OneArch
  Versions <- MCVersions
  DistroArgs <- MCDistroArgs
  ArchArgs <- MCArchArgsRepeated
  MaxToolFailures = 0
  MaxSilentFailures = 0

SPECIFICATION Spec

INVARIANT NoAbortWithoutFailure

\* main() returns or raises: the program stops
CHECK_DEADLOCK FALSE
