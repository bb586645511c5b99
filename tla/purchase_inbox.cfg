\* A failing delivery of an event races a delivery that succeeds.
SPECIFICATION Spec
CONSTANTS
  o1 = o1  o2 = o2  u1 = u1  u2 = u2  p1 = p1  p2 = p2
  Orders = {o1, o2}
  Users = {u1}
  Buyer <- MCBuyer
  Balance = {o2}
  MaxCards = 2
  Procs = {p1, p2}
  Funds = 1
  MaxRedeliveries = 0
  Setups <- UseNowSetups
SYMMETRY ProcSymmetry
CHECK_DEADLOCK FALSE
PROPERTIES
  InboxIsFinal
