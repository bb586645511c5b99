\* Two clients, a reconnecting device, a full queue and a revocation.
SPECIFICATION FairSpec
CONSTANTS
  n1 = n1  n2 = n2  c1 = c1  c2 = c2
  NodeSocks = {n1, n2}
  ClientSocks = {c1, c2}
  HighWater = 1
  Absolute = 3
  MaxQueued = 2
  Setups <- MCSetups
CHECK_DEADLOCK FALSE
INVARIANTS
  FramesReachTheirClient
  RegisteredIsConnected
PROPERTIES
  QueueDrains
  RevokedIsDisconnected
