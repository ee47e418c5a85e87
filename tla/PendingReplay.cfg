SPECIFICATION Spec
CONSTANTS
  plain1 = plain1
  plain2 = plain2
  secret1 = secret1
  Calls <- AllCalls
  Volatile <- Secret
  MaxDeaths = 2
  MaxFaults = 1
  MaxTears = 1
SYMMETRY Symmetry
INVARIANT ExecutesOnce
CHECK_DEADLOCK FALSE
