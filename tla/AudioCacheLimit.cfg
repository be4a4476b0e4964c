\* The containment that the tests state, with results whose size varies.
SPECIFICATION Spec
CONSTANTS
  a = a
  b = b
  c = c
  Keys = {a, b, c}
  Worlds <- VaryingOnly
  MemEntries = 2
  MemBytes = 5
  MemItem = 4
  MaxEntries = 32
  MaxBytes = 5
  DiskItem = 3
  Directories <- EmptyOnly
  PruneFraction = 16
  MaxTemps = 1
INVARIANTS
  AggregateWithinLimit
CHECK_DEADLOCK FALSE
