\* Two requests for the same text compete for the engine and share its result.
SPECIFICATION Safe
CONSTANTS
  Requests = {r1, r2}
  SlotCap = 1
  ChunkPieces <- OneByOne
  MaxItem = 2
  Segments <- WholeRequest
  Disturbed = {r1, r2}
SYMMETRY Interchangeable
INVARIANTS
  EngineOwned
  NeverStranded
  ResultsWhole
PROPERTIES
  ImplementsLease
CHECK_DEADLOCK FALSE
