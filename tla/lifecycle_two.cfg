SPECIFICATION Spec
CONSTANTS
  a1 = a1
  a2 = a2
  Attempts = {a1, a2}
  None = None
  Boundary = FALSE
  MaxCrashes = 1
  MaxFailures = 1
  MaxForced = 0
SYMMETRY Symmetry
PROPERTIES
  SweepSparesUnsaved
  KeepsPromise
