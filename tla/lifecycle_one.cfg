SPECIFICATION FairSpec
CONSTANTS
  a1 = a1
  Attempts = {a1}
  None = None
  Boundary = TRUE
  MaxCrashes = 1
  MaxFailures = 1
  MaxForced = 1
INVARIANTS
  TypeOK
  DoneIsComplete
  SavedIsCurrent
  NoNeedlessRuns
  FinishedRunIsComplete
  WorksUnderLease
PROPERTIES
  RunEnds
  EveryAttemptDone
  EveryResultSaved
  DoneIsFinal
