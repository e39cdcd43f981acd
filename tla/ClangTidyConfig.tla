-------------------------- MODULE ClangTidyConfig ---------------------------
(***************************************************************************)
(* What enableVisualStudioClangTidy.py promises the build, stated over    *)
(* what MSBuild reads from the project and nothing else: whether clang-    *)
(* tidy analysis is enabled and which ClangTidyChecks value is in effect.  *)
(* A run that prints "Finished" leaves the analysis enabled with the       *)
(* checks of clang-checks.txt; a run that raises changes neither.  Once    *)
(* enabled, the analysis is never turned off again.                        *)
(***************************************************************************)
EXTENDS Naturals

CONSTANTS
  Checks,     \* what clang-checks.txt may hold
  NoChecks,   \* no ClangTidyChecks value in the project
  MaxRuns     \* times the script is run

VARIABLES
  enabled,    \* the project has <EnableClangTidyCodeAnalysis>
  checks,     \* the ClangTidyChecks value MSBuild uses
  outcome,    \* how the last run ended
  runs        \* runs so far

Init ==
  /\ enabled \in BOOLEAN
  /\ checks \in Checks \cup {NoChecks}
  /\ outcome = "none" /\ runs = 0

\* a run that ends with "Finished": enabled, with this run's checks
Configure(c) ==
  /\ runs < MaxRuns /\ runs' = runs + 1
  /\ enabled' = TRUE /\ checks' = c
  /\ outcome' = "finished"

\* a run that raises: what MSBuild reads is as before
Fail ==
  /\ runs < MaxRuns /\ runs' = runs + 1
  /\ outcome' = "raised"
  /\ UNCHANGED <<enabled, checks>>

Next == (\E c \in Checks : Configure(c)) \/ Fail

Spec == Init /\ [][Next]_<<enabled, checks, outcome, runs>>

=============================================================================
