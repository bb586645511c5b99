\* A purchase is reversed while its card is being used.
SPECIFICATION Spec
CONSTANTS
  o1 = o1  o2 = o2  u1 = u1  u2 = u2  p1 = p1  p2 = p2
  Orders = {o1}
  Users = {u1}
  Buyer <- MCBuyer
  Balance = {}
  MaxCards = 1
  Procs = {p1, p2}
  Funds = 1
  MaxRedeliveries = 0
  Setups <- ReverseSetups
SYMMETRY ProcSymmetry
CHECK_DEADLOCK FALSE
INVARIANTS
  ReversedHasNoEntitlement
