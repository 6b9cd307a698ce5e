SPECIFICATION Spec
CONSTANTS
  k1 = k1
  k2 = k2
  q1 = q1
  q2 = q2
  q3 = q3
  None = None
  Keys <- TwoKeys
  Tokens <- SomeTokens
  Requests <- ThreeRequests
  StaleAfter = 2
  Timeout = 1
  Skew = 1
  MaxTime = 4
SYMMETRY Symmetry
INVARIANTS
  AccessInv
PROPERTIES
  AcceptedKeyIsRecent
  AcceptedIsHardlyExpired
  SettledKeyIsFound
