\* Two containers over one volume, with the mishaps that fit in three starts.
SPECIFICATION StoreSpec
CONSTANTS
  Servers = {c1, c2}
  Pids = {1, 2}
  Versions = {1, 2}
  MaxStarts = 3
  MaxMishaps = 2
INVARIANTS
  FilesTrue
PROPERTIES
  WorkKept
  StartsEnd
CHECK_DEADLOCK FALSE
