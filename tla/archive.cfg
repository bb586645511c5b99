\* Four setups: a month that must get archived, and two tasks in each other's way.
SPECIFICATION FairSpec
CONSTANTS
  r1 = r1  r2 = r2  t1 = t1  t2 = t2
  Requests = {r1, r2}
  Tasks = {t1, t2}
  Setups <- MCSetups
CHECK_DEADLOCK FALSE
INVARIANTS
  NoCaptureLost
  WrittenIsReadable
PROPERTIES
  MonthIsArchived
  HotIsPurged
