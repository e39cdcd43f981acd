\* Three calls on one day; one may see cp fail and one may be interrupted
\* between any two of its steps.
CONSTANTS
  MaxRuns = 3
  MaxCrashes = 1
  MaxCpFailures = 1
SPECIFICATION Spec
INVARIANTS DstComplete RollbackDistinct
\* after the last call the script is not run again
CHECK_DEADLOCK FALSE
