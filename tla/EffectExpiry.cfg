SPECIFICATION Spec
CONSTANTS
  e1 = e1
  e2 = e2
  k1 = k1
  k2 = k2
  alice = alice
  dora = dora
  w1 = w1
  w2 = w2
  api0 = api0
  noOne = noOne
  none = none
  Effects <- OneEffect
  Compensatable <- OneEffect
  Keys <- OneKey
  Subjects <- TwoSubjects
  Workers <- OneWorker
  Api = api0
  NoOne = noOne
  None = none
  Delays <- OneDelay
  ListLimit = 1
  MaxRenewals = 1
  MaxFaults = 1
  MaxCrashes = 1
INVARIANT ExpiryIsRecorded
