SPECIFICATION FairSpec
CONSTANTS
  Child = {1, 2}
  TunCount = 1
  Faults = {"connect_early", "tun_setup", "spawn", "stdin", "unlink", "tun_destroy"}
INVARIANTS SignalsOwnChild
PROPERTIES DisconnectEnds StuckLaunchEnds QuitPendingQuits
CHECK_DEADLOCK FALSE
