\* The gateway dies while it writes a capture without a stream.
SPECIFICATION Spec
CONSTANTS
  r1 = r1  r2 = r2  t1 = t1  t2 = t2
  Requests = {r1, r2}
  Tasks = {t1, t2}
  Setups <- TornSetups
CHECK_DEADLOCK FALSE
INVARIANTS
  CanonicalIsWhole
