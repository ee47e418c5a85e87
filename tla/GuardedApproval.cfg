SPECIFICATION GuardSpec
CONSTANTS
  c1 = c1
  t1 = t1
  noToken = noToken
  noSha = noSha
  Callers <- OneCaller
  Tokens <- OneToken
  NoToken = noToken
  TTL = 2
  MaxClock = 3
  MaxAccepts = 2
  Calls <- TwoCalls
  OwnIds <- TenantIds
  BaseRules <- BaselineRules
  BaseCap <- ToolCap
  BaseMatches <- SecretOnly
  BuiltIn <- SecretOnly
  SourceTaint <- Taints
  Unresolved <- SecretOnly
  RedDecision = 2
  Editions <- TwoAsking
  Backends <- PythonBackend
  NoSha = noSha
  MaxEdits = 1
INVARIANT ApprovedUnderThatPolicy
CHECK_DEADLOCK FALSE
