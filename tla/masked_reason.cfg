SPECIFICATION Spec
CHECK_DEADLOCK FALSE
CONSTANTS
  t1 = t1
  t2 = t2
  Tasks = {t1, t2}
  None = None
  Wave = {t1}
  Outcomes <- MCOutcomes
  MaxPage = 2
  MaxTotal = 2
  MaxForced = 0
  MaxPrunes = 0
  MaxCommands = 3
INVARIANT MissingMeansMissing
