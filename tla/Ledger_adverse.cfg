CONSTANTS
  w1 = w1
  w2 = w2
  r1 = r1
  r2 = r2
  r3 = r3
  h1 = h1
  h2 = h2
  Null = Null
  Wallet <- OneWallet
  Req <- TwoReqs
  Handler <- TwoHandlers
  Amount = {2}
  Fee = 1
  TokenCarriesId = TRUE
  Hazard <- AllHazards
SPECIFICATION Spec
INVARIANT SettledBacked
INVARIANT RowsMatchRequests
PROPERTY AppendOnly
SYMMETRY Symmetry
\* Requests are finitely many: when all are served and answered, nothing is left to do.
CHECK_DEADLOCK FALSE
