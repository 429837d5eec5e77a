SPECIFICATION Spec
CHECK_DEADLOCK FALSE
CONSTANTS
  d1 = d1
  d2 = d2
  a1 = a1
  a2 = a2
  Drivers = {d1, d2}
  Attempts = {a1, a2}
  None = None
  Config <- MCConfig
  Options <- MCOptions
  Listed = {}
  Stale = 1
  MaxTime = 2
  MaxStarts = 2
  MaxEdits = 1
SYMMETRY Symmetry
INVARIANTS
  TypeOK
  SnapshotServes
  LeaseExcludes
  CacheInUseStays
