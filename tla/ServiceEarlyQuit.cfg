SPECIFICATION Spec
CONSTANTS
  Child = {1, 2}
  TunCount = 1
  Faults = {"connect_early"}
INVARIANT QuitWaitsForChild
CHECK_DEADLOCK FALSE
