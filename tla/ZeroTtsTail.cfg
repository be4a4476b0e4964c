\* The last slices of a worker that ends between two looks at it.
SPECIFICATION Safe
CONSTANTS
  Runs = {u1, u2}
  NoRun = NoRun
  QueueCap = 2
  FirstTarget = 1
  CapTarget = 2
  MinFrames = 0
  MaxFrames = 3
INVARIANTS
  EverySliceConsumed
CHECK_DEADLOCK FALSE
