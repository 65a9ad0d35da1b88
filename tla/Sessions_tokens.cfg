CONSTANTS
  u1 = u1
  d1 = d1
  d2 = d2
  t1 = t1
  t2 = t2
  t3 = t3
  t4 = t4
  p1 = p1
  p2 = p2
  Null = Null
  User <- OneUser
  Device <- TwoDevices
  Token <- FourTokens
  Proc <- TwoProcs
  Hazard = {"crash", "parallel_use"}
SPECIFICATION Spec
SYMMETRY Symmetry
INVARIANT TypeOK
INVARIANT SessionsAreOne
INVARIANT SessionsAreKept
INVARIANT ResetsAreKept
INVARIANT ResetsAreOnce
INVARIANT OneSessionPerDevice
\* Tokens are finitely many: when all were issued, requests that need one stop.
CHECK_DEADLOCK FALSE
