SPECIFICATION Spec
CONSTANTS
  api1 = api1
  api2 = api2
  event1 = event1
  gate1 = gate1
  audit2 = audit2
  effects1 = effects1
  event2 = event2
  nobody = nobody
  Processes <- TwoProcesses
  Writers <- TwoKinds
  Home <- Homes
  Role <- RolesOf
  Nobody = nobody
  PoolSize = 2
  MaxRecords = 2
  MaxAborts = 0
INVARIANT EffectIsLinear
CHECK_DEADLOCK FALSE
