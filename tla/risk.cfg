\* Gateways whose instants may be one tick old, across two budget windows.
SPECIFICATION Spec
CONSTANTS
  i1 = i1  i2 = i2  i3 = i3  i4 = i4
  Ids = {i1, i2, i3}
  Units = {1, 2}
  ActualUnits = {0, 1, 3}
  StartsLimit = 2
  StartsWindow = 3
  InFlightLimit = 2
  BudgetWindow = 3
  LeaseTtl = 2
  UnitsLimit = 4
  MaxDelay = 1
  MaxTime = 4
SYMMETRY IdSymmetry
CHECK_DEADLOCK FALSE
INVARIANTS
  ExposureLimited
  StartsLimitedInWindow
PROPERTIES
  CurrentExposureKept
