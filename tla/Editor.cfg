\* Four changes, each of the definition or of a draft.
CONSTANTS
  Examples <- MCExamples
  Handlers <- MCHandlers
  TypedIds = {"b", "x"}
  Numbered <- MCNumbered
  MaxNodes = 4
  MaxBranches = 2
  MaxEdits = 4
SPECIFICATION Spec
INVARIANTS
  TypeOK
  StartDefined
PROPERTIES
  GesturesKeepAcyclic
  AddedIsReachable
  ReferencesKept
