\* One protected pay-as-you-go request, or one claimless one, and two gateways taking over from each other.
SPECIFICATION Spec
CONSTANTS
  o1 = o1  o2 = o2  r1 = r1  r2 = r2  r3 = r3  r4 = r4  s1 = s1  u0 = u0  u1 = u1  u2 = u2
  Requests = {r1, r4}
  Owners = {o1, o2}
  MaxAttempts = 2
  Sources = {s1}
  Source <- OneSource
  PaygoSources = {s1}
  Contract <- MixedContract
  Evidence <- EvidenceAll
  FailureReasons = {"auth_unavailable"}
  ErrorCodes = {"e1"}
  Usages = {u0, u1}
  ZeroUsage = u0
  ChargeUnits <- ChargesTwo
  Maxima = {2}
  InitialBalance = 4
  ConcurrencyLimit = 2
  PlanLimit <- LimitsWide
  KeyLimit = 4
  LeaseTtl = 1
  MaxTime = 2
CONSTRAINT OneRequest
SYMMETRY OwnerSymmetry
INVARIANTS
  TypeOK
  OccupationMatchesAttempt
  UnresolvedIsSettleable
  AtMostOnceDispatch
  VerdictIsLastAttempts
PROPERTIES
  EvidenceNeverRewritten
