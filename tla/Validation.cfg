\* Every small definition, and every declaration of one field on a tree.
CONSTANTS
  Workflows <- Definitions
  Schemas <- FlowSchemas
  NoSchema = NoSchema
  Respelled <- MCRespelled
  Readable <- MCReadable
  NullWords = {"", "null"}
SPECIFICATION Spec
INVARIANTS
  AcceptsExactlyTrees
  CyclesAreReported
  ReadsAreAncestral
  PreviewIsValidated
  BoxesApart
CHECK_DEADLOCK FALSE
