\* A Stripe, a manual and a legacy top-up; the first two of one user.
SPECIFICATION FairSpec
CONSTANTS
  t1 = t1  t2 = t2  t3 = t3  u1 = u1  u2 = u2  p1 = p1  p2 = p2  r1 = r1
  Topups = {t1, t2, t3}
  Users = {u1, u2}
  Mode <- MCMode
  Payer <- MCPayer
  Amount = 2
  Refs = {r1}
  Procs = {p1}
  MaxRedeliveries = 1
  MaxSpend = 2
CHECK_DEADLOCK FALSE
INVARIANTS
  TopupIsWorthOnce
PROPERTIES
  PaidTopupIsSettled
