\* One id, resolved by two goroutines while workers are discovered.
CONSTANTS
  CounterRange = 5
  NodeId = {"enrich"}
  Announcements <- Answers
  WorkerURLs <- ThreeWorkers
  Resolver = {r1, r2}
  NilPointer = NilPointer
  MaxPicks = 3
SYMMETRY Symmetry
SPECIFICATION Spec
INVARIANTS
  TypeOK
  NilCounterNeverUsed
  EvenSpread
  ReportMatchesRegistry
PROPERTIES
  RotationSurvivesDiscovery
CHECK_DEADLOCK FALSE
