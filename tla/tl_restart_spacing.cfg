SPECIFICATION Spec
CONSTANTS
  Files <- SpacingFile
  MaxFiles = 1
  NtMaxChoices = {4, 9}
  Intervals <- AtEnd
  TimeSteps = {1}
  Durations = {0}
  WtBound = 0
  Inpdt0 = FALSE
  Italin = FALSE
  TimeLimited = FALSE
  SolverMayStop = FALSE
  RemoveMayFail = FALSE
  Iecaux = TRUE
  MaxRuns = 2
INVARIANTS
  SpacedInAnyRun
