SPECIFICATION Spec
CHECK_DEADLOCK FALSE
CONSTANTS
  t1 = t1
  t2 = t2
  Tasks = {t1, t2}
  None = None
  Wave = {t1}
  Outcomes <- MCOutcomes
  MaxPage = 3
  MaxTotal = 3
  MaxForced = 1
  MaxPrunes = 1
  MaxCommands = 4
INVARIANTS
  TypeOK
  ListIsWholeDataset
  FirstBundleIsClean
  FinalCoversFirst
  VerifiedBundleIsWhole
PROPERTY
  RunsOnWholeTree
