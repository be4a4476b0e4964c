\* Two syntheses, the first of which may leave its worker behind, and close().
SPECIFICATION Spec
CONSTANTS
  Runs = {u1, u2}
  NoRun = NoRun
  QueueCap = 1
  FirstTarget = 1
  CapTarget = 2
  MinFrames = 1
  MaxFrames = 4
INVARIANTS
  ContextSafe
  EndsTruly
PROPERTIES
  NoCallWithoutContext
  NothingLeftBehind
CHECK_DEADLOCK FALSE
