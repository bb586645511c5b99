\* One order paid through Stripe and one out of the balance, two web processes.
SPECIFICATION Spec
CONSTANTS
  o1 = o1  o2 = o2  u1 = u1  u2 = u2  p1 = p1  p2 = p2
  Orders = {o1, o2}
  Users = {u1, u2}
  Buyer <- MCBuyer
  Balance = {o2}
  MaxCards = 3
  Procs = {p1, p2}
  Funds = 1
  MaxRedeliveries = 1
  Setups <- MCSetups
SYMMETRY ProcSymmetry
CHECK_DEADLOCK FALSE
INVARIANTS
  OneCardPerPayment
  AcknowledgedPaymentIsFulfilled
  OneUsePerPurchase
  RevenueFollowsUse
