SPECIFICATION Spec
CONSTANTS
  Child = {1, 2}
  TunCount = 2
  Faults = {"sigterm", "no_user", "tun_open", "tun_setup", "unlink"}
INVARIANTS TypeOK QuitWaitsForChild KillOnlyAsked ReportedIffUnexpected TunAccounted
PROPERTIES NeverCutsLiveVpn ImplementsSession
CHECK_DEADLOCK FALSE
