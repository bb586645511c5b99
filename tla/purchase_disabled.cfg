\* A plan is disabled while one of its orders waits for the payment.
SPECIFICATION Spec
CONSTANTS
  o1 = o1  o2 = o2  u1 = u1  u2 = u2  p1 = p1  p2 = p2
  Orders = {o1}
  Users = {u1}
  Buyer <- MCBuyer
  Balance = {}
  MaxCards = 1
  Procs = {p1}
  Funds = 1
  MaxRedeliveries = 0
  Setups <- ReviseSetups
SYMMETRY ProcSymmetry
CHECK_DEADLOCK FALSE
INVARIANTS
  DisabledPlanIsUnused
