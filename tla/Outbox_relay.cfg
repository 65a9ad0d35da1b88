CONSTANTS
  e1 = e1
  e2 = e2
  t1 = t1
  t2 = t2
  Row <- TwoRows
  Poison <- OnePoison
  Tick <- TwoTicks
  BatchSize = 2
  SmallBatch = 1
  MaxCrash = 1
  MaxLog = 2
  Hazard <- AllHazards
SPECIFICATION RelaySpec
INVARIANT OutboxSafe
INVARIANT SentImpliesPublished
INVARIANT CommittedIsConsumed
PROPERTY RelayDelivers
\* Rows are finitely many: when all are handled, nothing is left to do.
CHECK_DEADLOCK FALSE
