SPECIFICATION FairSpec
CONSTANTS
  api1 = api1
  api2 = api2
  event1 = event1
  gate1 = gate1
  audit2 = audit2
  effects1 = effects1
  event2 = event2
  nobody = nobody
  Processes <- TwoProcesses
  Writers <- MixedKinds
  Home <- Homes
  Role <- RolesOf
  Nobody = nobody
  PoolSize = 1
  MaxRecords = 2
  MaxAborts = 2
INVARIANTS
  TypeOK
  EveryLinkStands
  NoCircularWait
PROPERTIES
  Gate6OnlyGrows
  EveryAppendEnds
CHECK_DEADLOCK FALSE
