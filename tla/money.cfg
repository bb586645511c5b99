\* Three protected pay-as-you-go requests, or two beside a claimless one, on one account.
SPECIFICATION Spec
CONSTANTS
  o1 = o1  o2 = o2  r1 = r1  r2 = r2  r3 = r3  r4 = r4  s1 = s1  u0 = u0  u1 = u1  u2 = u2
  Requests = {r1, r2, r3, r4}
  Owners = {o1}
  MaxAttempts = 1
  Sources = {s1}
  Source <- OneSource
  PaygoSources = {s1}
  Contract <- MixedContract
  Evidence <- EvidenceOne
  FailureReasons = {"auth_unavailable"}
  ErrorCodes = {"e1"}
  Usages = {u0, u2}
  ZeroUsage = u0
  ChargeUnits <- ChargesAbove
  Maxima = {1, 3}
  InitialBalance = 3
  ConcurrencyLimit = 2
  PlanLimit <- LimitsMoney
  KeyLimit = 9
  LeaseTtl = 1
  MaxTime = 0
CONSTRAINT BoundedRun
SYMMETRY RequestSymmetry
INVARIANTS
  ChargedOnce
  PlanBudgetRespected
PROPERTIES
  DeficitOnlyFromUncoveredCharge
