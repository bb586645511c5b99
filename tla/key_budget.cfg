\* Two protected requests of one API key, on a plan whose only limit is the key budget.
SPECIFICATION Spec
CONSTANTS
  o1 = o1  o2 = o2  r1 = r1  r2 = r2  r3 = r3  r4 = r4  s1 = s1  u0 = u0  u1 = u1  u2 = u2
  Requests = {r1, r2}
  Owners = {o1}
  MaxAttempts = 1
  Sources = {s1}
  Source <- OneSource
  PaygoSources = {}
  Contract <- AllProtected
  Evidence <- EvidenceOne
  FailureReasons = {"auth_unavailable"}
  ErrorCodes = {"e1"}
  Usages = {u0, u2}
  ZeroUsage = u0
  ChargeUnits <- ChargesAbove
  Maxima = {1, 2}
  InitialBalance = 4
  ConcurrencyLimit = 2
  PlanLimit <- LimitsWide
  KeyLimit = 3
  LeaseTtl = 1
  MaxTime = 1
SYMMETRY RequestSymmetry
INVARIANT KeyBudgetRespected
