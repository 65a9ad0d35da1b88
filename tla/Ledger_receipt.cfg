CONSTANTS
  w1 = w1
  w2 = w2
  r1 = r1
  r2 = r2
  r3 = r3
  h1 = h1
  h2 = h2
  Null = Null
  Wallet <- TwoWallets
  Req <- TwoReqs
  Handler <- OneHandler
  Amount = {1}
  Fee = 2
  TokenCarriesId = TRUE
  Hazard = {}
SPECIFICATION Spec
INVARIANT NoOverdraft
SYMMETRY Symmetry
\* Requests are finitely many: when all are served and answered, nothing is left to do.
CHECK_DEADLOCK FALSE
