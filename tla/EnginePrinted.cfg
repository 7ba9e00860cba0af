\* Strict mode when two different values print alike.
CONSTANTS
  CounterRange = 2
  MaxBranches = 3
  NoSchema = NoSchema
  WorkersGiven = TRUE
  Workflows <- Chains
  Inputs <- InputX
  Replies <- Printing
  Handlers <- Workers
  Shown <- Printed
  Evaluate <- MCEvaluate
  StrictModes = {TRUE}
SPECIFICATION Spec
INVARIANTS
  StrictNeverOverwrites
CHECK_DEADLOCK FALSE
