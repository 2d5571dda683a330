SPECIFICATION FairSpec
CONSTANTS
  a = a
  m = m
  n = n
  i = i
  x = x
  y = y
  z = z
  Txns = {x, y}
  Parts = {a, m}
  Readers = {}
  Initial = {a}
  Truncates = {y}
  Killable = {x}
  MaxCrashes = 0
  MaxFaults = 2
  MaxCSN = 36
  LateOutdated = FALSE
  Covers <- MCCovers
  Writes <- MCWrites
CHECK_DEADLOCK FALSE
INVARIANTS
  CommittedIsNotRolledBack
PROPERTIES
  TransactionsAreIsolated
  UnknownStateIsFinalized
  CommitsArePublished
