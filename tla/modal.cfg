SPECIFICATION Spec
CONSTANTS
  a1 = a1
  a2 = a2
  Attempts = {a1, a2}
  None = None
  Workers = 2
  MaxTries = 2
  MaxCrashes = 1
  MaxFailures = 1
  MaxForced = 1
INVARIANTS
  TypeOK
  OneBudgetPerAttempt
  RecordsSettled
  FinishedSummaryIsTrue
  LateOutcomeSaved
  SomeoneGoesOn
PROPERTIES
  OutcomeIsFinal
  RunWindsDown
SYMMETRY Permutation
