\* Two implementations of the condition language.
CONSTANTS
  Conditions <- MCConditions
  RowLists <- MCRowLists
  Payloads <- MCPayloads
  ParseFloat <- MCParseFloat
  Number <- MCNumber
  Blank = {"", " "}
  Bytes <- MCBytes
  Units <- MCUnits
  Rendered <- MCRendered
  ParsedInside <- MCParsedInside
  EvaluatedInside <- MCEvaluatedInside
  Keys <- MCKeys
  Resolved <- MCResolved
  Infinite = {"1e400"}
  Inherited = {"toString"}
SPECIFICATION Spec
INVARIANTS
  EnginesAgree
  ComparatorsAreOneOrder
  TopLevelIsOr
  PreviewMeansTheSame
CHECK_DEADLOCK FALSE
