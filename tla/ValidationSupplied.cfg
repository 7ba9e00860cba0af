\* Declared reads against what the engine merges.
CONSTANTS
  Workflows <- Definitions
  Schemas <- FlowSchemas
  NoSchema = NoSchema
  Respelled <- MCRespelled
  Readable <- MCReadable
  NullWords = {"", "null"}
SPECIFICATION Spec
INVARIANTS
  ReadsAreSupplied
CHECK_DEADLOCK FALSE
