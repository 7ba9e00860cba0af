\* Every order of answers, well-formed or not.
CONSTANTS
  MaxBranches = 2
  Absent = Absent
  Workflows <- Definitions
  Inputs <- MCInputs
  Outcomes <- MCOutcomes
  WorkerURLs <- TwoWorkers
  Announced <- MCAnnounced
  Evaluate <- MCEvaluate
  StrictModes = {TRUE, FALSE}
SPECIFICATION FairSpec
INVARIANTS
  TypeOK
  TracesInBranchOrder
  SoundVerdict
  BranchIsolation
PROPERTIES
  NothingAfterTheVerdict
  ImplementsWorkflowRun
  Termination
CHECK_DEADLOCK FALSE
