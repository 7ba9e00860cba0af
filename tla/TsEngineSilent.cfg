\* No worker is obliged to answer.
CONSTANTS
  MaxBranches = 2
  Absent = Absent
  Workflows <- Single
  Inputs <- OneInput
  Outcomes <- Plain
  WorkerURLs <- TwoWorkers
  Announced <- MCAnnounced
  Evaluate <- MCEvaluate
  StrictModes = {TRUE, FALSE}
SPECIFICATION LoopSpec
PROPERTIES
  Termination
CHECK_DEADLOCK FALSE
