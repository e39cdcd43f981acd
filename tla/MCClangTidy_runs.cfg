\* Four runs of the script on one project (generated, or with the analysis
\* already turned on by the IDE), with clang-checks.txt edited between runs.
CONSTANTS
  Projects <- MCProjects
  Fragments <- MCFragments
  Checks <- MCChecks
  MaxRuns = 4
SPECIFICATION Spec
INVARIANTS TypeOK EnableOnce
PROPERTIES ProjectKept ImplementsConfig RerunIdempotent
\* the build stops running the script
CHECK_DEADLOCK FALSE
