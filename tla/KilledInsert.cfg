SPECIFICATION Spec
CONSTANTS
  a = a
  m = m
  n = n
  i = i
  x = x
  y = y
  z = z
  Txns = {x, y}
  Parts = {a, m, n}
  Readers = {}
  Initial = {a}
  Truncates = {}
  Killable = {x}
  MaxCrashes = 0
  MaxFaults = 0
  MaxCSN = 36
  LateOutdated = FALSE
  Covers <- MCCovers
  Writes <- MCWrites
CHECK_DEADLOCK FALSE
INVARIANTS
  PurgedCSNsAreInParts
