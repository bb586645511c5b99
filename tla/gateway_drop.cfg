\* The client leaves before the first event of the stream is read.
SPECIFICATION GSpec
CONSTANTS
  o1 = o1  r1 = r1  r2 = r2  s1 = s1  u0 = u0  u1 = u1
  Requests = {r1}
  Owners = {o1}
  OwnerOf <- OneOwner
  MaxAttempts = 2
  Sources = {s1}
  Source <- OneSource
  PaygoSources = {s1}
  Contract <- EachContract
  Evidence <- GatewayEvidence
  FailureReasons = {}
  ErrorCodes = {"e1"}
  Usages = {u0, u1}
  ZeroUsage = u0
  ChargeUnits <- Charges
  Maxima = {2}
  InitialBalance = 4
  ConcurrencyLimit = 2
  PlanLimit <- Limits
  KeyLimit = 9
  LeaseTtl = 1
  MaxTime = 1
  Enforced = TRUE
  MaxFaults = 0
  MaxOpen = 1
CHECK_DEADLOCK FALSE
INVARIANTS
  CancelledIsFinalized
