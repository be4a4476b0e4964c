\* Two remote clients and the health check share one slot and its reserve.
SPECIFICATION Spec
CONSTANTS
  Remote = {r1, r2}
  Local = {h}
  SttClients = {r1, h}
  TtsClients = {r2}
  Drain = Drain
  Free = Free
  MaximumConnections = 1
  LocalReserve = 1
  AudioLimit = 2
  BudgetMaximum = 2
  ChunkSizes = {2}
  Workers = 1
  TokenLimited = TRUE
INVARIANTS
  SlotsKept
  SharesExact
PROPERTIES
  EnginesLeased
  ShutdownOrdered
  
CHECK_DEADLOCK FALSE
