\* Two workers, two old purchases to backfill, and one new purchase or billed attempt.
SPECIFICATION FairSpec
CONSTANTS
  w1 = w1  w2 = w2  x1 = x1  x2 = x2  p1 = p1  a1 = a1  a2 = a2  l1 = l1  l2 = l2
  Workers = {w1, w2}
  PlanWindows = {x1}
  Purchases = {p1}
  Attempts = {a1, a2}
  Legacy = {l1, l2}
  Revenue <- MCRevenue
  UpstreamCost <- MCUpstreamCost
  Tranche <- MCTranche
  Price = 2
  BatchSize = 2
  BackfillSize = 1
  MaxBatches = 1
  MaxDeals = 1
  MaxFaults = 1
CHECK_DEADLOCK FALSE
INVARIANTS
  RefundedNeverPaid
  BackfillNeverBlocked
PROPERTIES
  ImplementsPayout
  EndedIsClosed
