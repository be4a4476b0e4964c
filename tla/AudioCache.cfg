\* Results of one size or of several, with and without failures.
SPECIFICATION Spec
CONSTANTS
  a = a
  b = b
  c = c
  Keys = {a, b, c}
  Worlds <- AllWorlds
  MemEntries = 2
  MemBytes = 5
  MemItem = 4
  MaxEntries = 2
  MaxBytes = 5
  DiskItem = 3
  Directories <- OtherLimits
  PruneFraction = 1
  MaxTemps = 1
INVARIANTS
  TotalsExact
  TiersAgree
  OvershootBounded
PROPERTIES
  PruningHeals
CHECK_DEADLOCK FALSE
