\* Validated definitions and others, two goroutines below every filter.
CONSTANTS
  CounterRange = 2
  MaxBranches = 3
  NoSchema = NoSchema
  WorkersGiven = TRUE
  Workflows <- Definitions
  Inputs <- InputXY
  Replies <- Answers
  Handlers <- Workers
  Shown <- Printed
  Evaluate <- MCEvaluate
  StrictModes = {TRUE, FALSE}
SPECIFICATION FairSpec
INVARIANTS
  TypeOK
  AtMostOnce
  BranchIsolation
  OneTracePerLeaf
  SoundVerdict
  ParentsUpToSplit
  StrictKeepsForms
  CheckedRunsFailAtWorkers
PROPERTIES
  Termination
  ImplementsWorkflowRun
  SettledForGood
CHECK_DEADLOCK FALSE
