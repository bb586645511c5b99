\* Two requests submit the same payment reference for two top-ups.
SPECIFICATION Spec
CONSTANTS
  t1 = t1  t2 = t2  t3 = t3  u1 = u1  u2 = u2  p1 = p1  p2 = p2  r1 = r1
  Topups = {t1, t2}
  Users = {u1}
  Mode <- MCManual
  Payer <- MCOnePayer
  Amount = 2
  Refs = {r1}
  Procs = {p1, p2}
  MaxRedeliveries = 0
  MaxSpend = 0
CHECK_DEADLOCK FALSE
INVARIANTS
  ReferenceIsUnique
