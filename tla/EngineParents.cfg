\* The parent list at the depth where branches share an array.
CONSTANTS
  CounterRange = 2
  MaxBranches = 3
  NoSchema = NoSchema
  WorkersGiven = TRUE
  Workflows <- Deep
  Inputs <- InputX
  Replies <- Echoes
  Handlers <- Workers
  Shown <- Plain
  Evaluate <- MCEvaluate
  StrictModes = {FALSE}
SPECIFICATION Spec
INVARIANTS
  ParentsAreAncestors
CHECK_DEADLOCK FALSE
