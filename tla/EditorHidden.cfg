\* Ids are not kept unique.
CONSTANTS
  Examples <- MCExamples
  Handlers <- MCHandlers
  TypedIds = {"b", "x"}
  Numbered <- MCNumbered
  MaxNodes = 4
  MaxBranches = 2
  MaxEdits = 4
SPECIFICATION Spec
INVARIANTS
  NoNodeHidden
