\* Three runs over three files; either source may be undecodable until the
\* developer re-encodes it between runs; one of the runs may be stopped with
\* Ctrl-C at any point.
CONSTANTS
  Files <- MCFiles
  Sources <- MCSources
  Contents <- MCContents
  MaxRuns = 3
  MaxInterrupts = 1
SPECIFICATION Spec
INVARIANTS PopMatched IncludesCovered CodeKept
PROPERTIES RunReachesFirstBad
\* the developer stops running the script
CHECK_DEADLOCK FALSE
