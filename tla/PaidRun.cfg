SPECIFICATION FairSpec
CONSTANTS
  c1 = c1
  a1 = a1
  i1 = i1
  None = None
  Buckets <- FourBuckets
  Cap <- SomeCalls
  Reserve = 2
  MaxCost = 3
  Prices <- FreeOrDear
  CalibrationJobs <- OneCalibration
  R2Jobs <- OneR2
  R3Jobs <- OneR3
  MaxTurns = 1
  MaxTries = 2
  MaxAttempts = 2
  MaxJobs = 2
  ReducedJobs = 1
  TerminalMax = 2
  AtRiskMax = 2
  BadMax = 2
  CrashMax = 2
  MaxFaults = 1
  MaxDeaths = 1
  MaxRevives = 1
INVARIANTS
  TypeOK
  CapsHold
  LedgerCoversBill
  PaidAfterApproval
  NothingAggregatedEarly
  CompletedIsNotPaidAgain
  HaltedSpendsNothing
  ExhaustedHasACause
PROPERTIES
  TerminalStays
  BurstHalts
  RunEnds
CHECK_DEADLOCK FALSE
