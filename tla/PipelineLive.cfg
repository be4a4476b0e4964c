\* Teardown is bounded although native calls may never return; when they do, every
\* request ends and the engine is freed.
SPECIFICATION Spec
CONSTANTS
  Requests = {r1, r2}
  SlotCap = 1
  ChunkPieces <- OnePiece
  MaxItem = 1
  Segments <- WholeRequest
  Disturbed = {r1}
PROPERTIES
  EverythingEnds
CHECK_DEADLOCK FALSE
