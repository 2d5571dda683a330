SPECIFICATION Spec
CONSTANTS
  a = a
  m = m
  n = n
  i = i
  x = x
  y = y
  z = z
  Txns = {x, y}
  Parts = {a, m, n, i}
  Readers = {}
  Initial = {a}
  Truncates = {x}
  Killable = {x}
  MaxCrashes = 1
  MaxFaults = 0
  MaxCSN = 37
  LateOutdated = FALSE
  Covers <- MCCovers
  Writes <- MCWrites
CHECK_DEADLOCK FALSE
CONSTRAINT Explored
INVARIANTS
  SnapshotIsKept
  ActivePartsAreDisjoint
  FileNamesTheRemover
  ActivePartsAreTheLatest
  PartsCanBeLoaded
  PurgedCSNsAreInParts
  StoredCSNsAreTrue
