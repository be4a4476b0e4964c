\* One request, whole or a segment of a stream, over a queue shorter than its audio.
SPECIFICATION Safe
CONSTANTS
  Requests = {r1}
  SlotCap = 2
  ChunkPieces <- Uneven
  MaxItem = 3
  Segments <- AnySegment
  Disturbed = {r1}
INVARIANTS
  SlotSafety
  DeliveryExact
  EverythingClosed
PROPERTIES
  NoAudioAfterAbort
CHECK_DEADLOCK FALSE
