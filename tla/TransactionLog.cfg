SPECIFICATION LogSpec
CONSTANTS
  Txns = {x, y, z}
  MaxCSN = 35
  MaxFaults = 1
SYMMETRY MCSymmetry
CHECK_DEADLOCK FALSE
INVARIANTS
  LogTypeOK
  TIDsAreUnique
  TailIsBehindSnapshots
  LookupsAreRight
  UnknownStateIsDecided
