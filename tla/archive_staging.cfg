\* The gateway is restarted within two hours of a crash.
SPECIFICATION FairSpec
CONSTANTS
  r1 = r1  r2 = r2  t1 = t1  t2 = t2
  Requests = {r1, r2}
  Tasks = {t1, t2}
  Setups <- RestartSetups
CHECK_DEADLOCK FALSE
PROPERTIES
  LeftoverStagingRemoved
