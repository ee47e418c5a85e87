SPECIFICATION Spec
CONSTANTS
  plain1 = plain1
  plain2 = plain2
  secret1 = secret1
  Calls <- AllCalls
  Volatile <- Secret
  MaxDeaths = 2
  MaxFaults = 1
  MaxTears = 2
SYMMETRY Symmetry
INVARIANTS
  TypeOK
  OneOutcome
  PromisePerTear
PROPERTIES
  VolatileRunsAtHome
CHECK_DEADLOCK FALSE
