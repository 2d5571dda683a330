SPECIFICATION Spec
CONSTANTS
  a = a
  m = m
  n = n
  i = i
  x = x
  y = y
  z = z
  Txns = {x, y}
  Parts = {a, m, n}
  Readers = {}
  Initial = {a}
  Truncates = {}
  Killable = {}
  MaxCrashes = 1
  MaxFaults = 0
  MaxCSN = 37
  LateOutdated = TRUE
  Covers <- MCCovers
  Writes <- MCWrites
CHECK_DEADLOCK FALSE
INVARIANTS
  PurgedCSNsAreInParts
