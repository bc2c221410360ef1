SPECIFICATION Spec
CONSTANTS
  MaxStarts = 2
  MaxFaults = 1
INVARIANT ServesWithColumns
CHECK_DEADLOCK FALSE
