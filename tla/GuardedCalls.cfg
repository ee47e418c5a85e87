SPECIFICATION GuardFairSpec
CONSTANTS
  c1 = c1
  t1 = t1
  noToken = noToken
  noSha = noSha
  Callers <- OneCaller
  Tokens <- OneToken
  NoToken = noToken
  TTL = 1
  MaxClock = 2
  MaxAccepts = 2
  Calls <- TwoCalls
  OwnIds <- TenantIds
  BaseRules <- BaselineRules
  BaseCap <- ToolCap
  BaseMatches <- SecretOnly
  BuiltIn <- SecretOnly
  SourceTaint <- Taints
  Unresolved <- SecretOnly
  RedDecision = 2
  Editions <- AllKinds
  Backends <- BothBackends
  NoSha = noSha
  MaxEdits = 2
INVARIANTS
  GuardTypeOK
  NothingBelowFloor
  SettledMeansInForce
PROPERTY EditsTakeEffect
CHECK_DEADLOCK FALSE
