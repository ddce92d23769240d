SPECIFICATION Spec
CONSTANTS
  Child = {1, 2}
  TunCount = 1
  Faults = {"spawn"}
INVARIANT TunAccounted
CHECK_DEADLOCK FALSE
