SPECIFICATION RestoreSpec
CONSTANTS
  a1 = a1
  Attempts = {a1}
  None = None
  Boundary = FALSE
  MaxCrashes = 1
  MaxFailures = 1
  MaxForced = 1
  MaxRestores = 2
INVARIANTS
  SnapshotIsWhole
  RestoredIsWhole
PROPERTY SavedSurvives
