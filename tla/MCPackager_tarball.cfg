CONSTANTS
  DEFAULT_ARCHES <- OneArch
  Versions <- MCVersions
  DistroArgs <- MCDistroArgs
  ArchArgs <- MCArchArgsDefault
  MaxToolFailures = 0
  MaxSilentFailures = 0

SPECIFICATION Spec

INVARIANT LocalTarballSingleUnit

\* main() returns or raises: the program stops
CHECK_DEADLOCK FALSE
