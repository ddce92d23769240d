SPECIFICATION Spec
CONSTANTS
  MaxRoutes = 1
  PrefixLengths = {24}
  Faults = {}
INVARIANT IncludesMeanSplit
CHECK_DEADLOCK FALSE
