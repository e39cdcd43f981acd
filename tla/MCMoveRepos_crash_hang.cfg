\* Two calls, the first of which may be interrupted between two steps.
CONSTANTS
  MaxRuns = 2
  MaxCrashes = 1
  MaxCpFailures = 0
SPECIFICATION Spec
PROPERTIES Termination
CHECK_DEADLOCK FALSE
