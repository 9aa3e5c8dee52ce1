SPECIFICATION FairSpec
CONSTANTS
  Files <- RunFiles
  MaxFiles = 2
  NtMaxChoices = {0, 3}
  Intervals <- Varied
  TimeSteps = {2}
  Durations = {0, 2}
  WtBound = 3
  Inpdt0 = FALSE
  Italin = TRUE
  TimeLimited = TRUE
  SolverMayStop = TRUE
  RemoveMayFail = TRUE
  Iecaux = TRUE
  MaxRuns = 2
INVARIANTS
  TypeOK
  WithinLimit
  ForcedServed
  SpacedInFreshRun
  FinalCheckpoint
  FlushNotMissed
  ProgressKept
PROPERTIES
  LimitNeverExtends
  Terminates
