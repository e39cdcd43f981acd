\* One run is enough: a file whose last line includes a mongo header.
CONSTANTS
  Files <- MCFiles
  Sources <- MCSources
  Contents <- MCContents
  MaxRuns = 1
  MaxInterrupts = 0
SPECIFICATION Spec
INVARIANTS Balanced
CHECK_DEADLOCK FALSE
