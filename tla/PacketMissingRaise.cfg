SPECIFICATION Spec
CONSTANTS
  Times = {0, 1, 2, 3, 4, 5}
  Second = 2
  MaxEvents = 6
CHECK_DEADLOCK FALSE
INVARIANT
  AlwaysReturns
