CONSTANTS
  o1 = o1
  o2 = o2
  w1 = w1
  e1 = e1
  e2 = e2
  Null = Null
  Order <- OneOrder
  Wallet <- OneWallet
  Exec <- TwoExecs
  Amount = {1, 2}
  Price = 1
  Fee = 1
  Funds = 7
  MaxFaults = 0
  Hazard = {}
SPECIFICATION Spec
INVARIANT CardsReconciled
\* Orders are finitely many: when all are resolved, nothing is left to do.
CHECK_DEADLOCK FALSE
