SPECIFICATION Spec
CONSTANTS
  Edits = {fix}
  NewFiles = {helper, plan}
  Plans = {plan}
  ToolEvents <- MCToolEvents
  StepEvents <- MCOneStep
  Binaries <- MCBinaries
  Fds = {3, 4}
  Targets = {"work", "device"}
  MaxTasks = 2
  MaxOps = 4
  MaxSplits = 1
  MaxCrashes = 1
  MaxFailures = 1
  fix = fix
  helper = helper
  plan = plan
INVARIANTS
  TypeOK
  PatchIsNetChange
  ToolsAttributed
  ProofIsTruthful
