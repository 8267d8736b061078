SPECIFICATION Spec
CONSTANTS
  k1 = k1
  k2 = k2
  Keys = {k1, k2}
  MaxWriteTry = 3
  MaxSaves = 3
  MaxFailures = 3
  MaxCrashes = 2
SYMMETRY SymKeys
INVARIANT TypeOK
PROPERTY FlushOrder
CHECK_DEADLOCK FALSE
