SPECIFICATION Spec
CONSTANTS
  Edits = {fix}
  NewFiles = {helper, plan}
  Plans = {plan}
  ToolEvents <- MCToolEvents
  StepEvents <- MCStepEvents
  Binaries <- MCBinaries
  Fds = {3, 4}
  Targets = {"work", "elsewhere"}
  MaxTasks = 1
  MaxOps = 4
  MaxSplits = 0
  MaxCrashes = 0
  MaxFailures = 0
  fix = fix
  helper = helper
  plan = plan
INVARIANT OutsideWritesReported
