SPECIFICATION Spec
CONSTANTS
  a = a
  m = m
  n = n
  i = i
  x = x
  y = y
  z = z
  Txns = {x, y, z}
  Parts = {a, m}
  Readers = {z}
  Initial = {a}
  Truncates = {y}
  Killable = {}
  MaxCrashes = 0
  MaxFaults = 0
  MaxCSN = 34
  LateOutdated = FALSE
  Covers <- MCCovers
  Writes <- MCWrites
CHECK_DEADLOCK FALSE
INVARIANTS
  ReadsAreSnapshotReads
  NoOutdatedLookup
