\* Two cards of one plan are used at the same time.
SPECIFICATION Spec
CONSTANTS
  o1 = o1  o2 = o2  u1 = u1  u2 = u2  p1 = p1  p2 = p2
  Orders = {o1, o2}
  Users = {u1}
  Buyer <- MCBuyer
  Balance = {o2}
  MaxCards = 2
  Procs = {p1, p2}
  Funds = 1
  MaxRedeliveries = 0
  Setups <- PlainSetups
SYMMETRY ProcSymmetry
CHECK_DEADLOCK FALSE
INVARIANTS
  NoOverlappingSubscriptions
