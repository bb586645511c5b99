\* A node that answers two authorizations out of order.
SPECIFICATION FairSpec
CONSTANTS
  n1 = n1  n2 = n2  c1 = c1  c2 = c2
  NodeSocks = {n1, n2}
  ClientSocks = {c1, c2}
  HighWater = 1
  Absolute = 3
  MaxQueued = 2
  Setups <- LateSetups
CHECK_DEADLOCK FALSE
PROPERTIES
  LateAnswerIsIgnored
