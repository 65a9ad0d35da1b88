CONSTANTS
  o1 = o1
  o2 = o2
  w1 = w1
  e1 = e1
  e2 = e2
  Null = Null
  Order <- TwoOrders
  Wallet <- OneWallet
  Exec <- TwoExecs
  Amount <- AnyTopups
  Price = 1
  Fee = 1
  Funds = 7
  MaxFaults = 3
  Hazard <- AllButParallel
  c1 = c1
  c2 = c2
  u1 = u1
  u2 = u2
  h1 = h1
  h2 = h2
  h3 = h3
  j1 = j1
  j2 = j2
  t1 = t1
  t2 = t2
  n1 = n1
  n2 = n2
  NoHolder = NoHolder
  NoCustomer = NoCustomer
  NoPin = NoPin
  NoClient = NoClient
  Plastic <- TwoCards
  Linked <- OneLinked
  MaxFlight = 2
  Customer <- TwoCustomers
  Holder <- ThreeHolders
  Client <- OneClient
  Job <- TwoJobs
  Jwt <- TwoJwts
  Pin <- TwoPins
  JwtCarriesId = TRUE
SPECIFICATION DeskSpec
INVARIANT CardsSafe
INVARIANT FaultsBoundDamage
INVARIANT OverdraftBounded
INVARIANT BlockIsLast
INVARIANT VerifiedIsVerified
INVARIANT PinIsKept
PROPERTY OrderResolved
PROPERTY ClosedStaysOut
\* Orders are finitely many: when all are resolved, nothing is left to do.
CHECK_DEADLOCK FALSE
