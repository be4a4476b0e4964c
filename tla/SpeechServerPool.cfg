\* The executor of const.py, four threads, and an engine that splits texts by tokens.
SPECIFICATION Spec
CONSTANTS
  Remote = {r1, r2, r3, r4, r5}
  Local = {h}
  SttClients = {}
  TtsClients = {r1, r2, r3, r4, r5}
  Drain = Drain
  Free = Free
  MaximumConnections = 5
  LocalReserve = 1
  AudioLimit = 2
  BudgetMaximum = 2
  ChunkSizes = {2}
  Workers = 4
  TokenLimited = TRUE
INVARIANTS
  PoolNeverExceeded
CHECK_DEADLOCK FALSE
