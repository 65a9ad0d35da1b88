CONSTANTS
  w1 = w1
  w2 = w2
  r1 = r1
  r2 = r2
  r3 = r3
  h1 = h1
  h2 = h2
  Null = Null
  Wallet <- TwoWallets
  Req <- ThreeReqs
  Handler <- OneHandler
  Amount <- AnyAmounts
  Fee = 2
  TokenCarriesId = TRUE
  Hazard = {}
  d1 = d1
  e1 = e1
  e2 = e2
  e3 = e3
  u1 = u1
  u2 = u2
  a1 = a1
  n1 = n1
  Nobody = Nobody
  Deal <- OneDeal
  Size = {10}
  Rate <- TwoRates
  Price = {1, 2}
  MaxEdits = 1
  MaxTries = 2
  Errand <- ThreeErrands
  Owner <- TwoOwners
  Target <- OneTarget
  Label <- OneLabel
  c1 = c1
  c2 = c2
  b1 = b1
  b2 = b2
  NoBearer = NoBearer
  NoKey = NoKey
  Currency = {"EUR"}
  Applicant = {"alice"}
  Bearer <- TwoBearers
  Lifetime = 1
  Horizon = 2
  Asker <- TwoAskers
SPECIFICATION PaidSpec
SYMMETRY Symmetry
INVARIANT TypeOK
INVARIANT ChecksHold
INVARIANT Reconciled
INVARIANT QuotedIsCharged
INVARIANT BeneficiaryOnce
INVARIANT TokensAreFresh
\* Requests are finitely many: when all are served and answered, nothing is left to do.
CHECK_DEADLOCK FALSE
