SPECIFICATION Spec
CONSTANTS
  c1 = c1
  c2 = c2
  c3 = c3
  t1 = t1
  t2 = t2
  noToken = noToken
  Callers <- ThreeCallers
  Tokens <- TwoTokens
  NoToken = noToken
  TTL = 2
  MaxClock = 4
  MaxAccepts = 2
SYMMETRY Symmetry
INVARIANT OnceEver
CHECK_DEADLOCK FALSE
