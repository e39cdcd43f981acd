CONSTANTS
  DEFAULT_ARCHES <- OneArch
  Versions <- MCVersions
  DistroArgs <- MCDistroArgs
  ArchArgs <- MCArchArgsDefault
  MaxToolFailures = 1
  MaxSilentFailures = 0

SPECIFICATION Spec

INVARIANT FailureIsolation

\* main() returns or raises: the program stops
CHECK_DEADLOCK FALSE
