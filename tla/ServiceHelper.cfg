SPECIFICATION Spec
CONSTANTS
  MaxRoutes = 2
  PrefixLengths = {24}
  Faults = {"dbus"}
INVARIANTS TypeOK NoHalfConfig CompletedMeansStarted RoutesFaithful DnsWhole
CHECK_DEADLOCK FALSE
