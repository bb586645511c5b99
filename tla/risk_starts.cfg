\* Prompt gateways: the starts limit around a window roll.
SPECIFICATION Spec
CONSTANTS
  i1 = i1  i2 = i2  i3 = i3  i4 = i4
  Ids = {i1, i2, i3}
  Units = {1}
  ActualUnits = {1}
  StartsLimit = 2
  StartsWindow = 2
  InFlightLimit = 3
  BudgetWindow = 4
  LeaseTtl = 2
  UnitsLimit = 4
  MaxDelay = 0
  MaxTime = 4
CHECK_DEADLOCK FALSE
INVARIANT StartsLimited
