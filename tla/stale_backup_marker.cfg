SPECIFICATION Spec
CONSTANTS
  a1 = a1
  Attempts = {a1}
  None = None
  Boundary = FALSE
  MaxCrashes = 1
  MaxFailures = 0
  MaxForced = 1
PROPERTY SweepOnlyAfterBackup
