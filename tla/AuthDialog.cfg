SPECIFICATION FairSpec
CONSTANTS
  Json = 2
  Capacity = 1
  Faults = {"version", "spawn", "poll", "read", "wait"}
INVARIANTS TypeOK NoSecretAfterStop SecretIsWhole ReapsGpauth SignalsOwnGpauth
PROPERTIES ImplementsSignOn StopEnds NeverBlocksGpauth OrphanDies
CHECK_DEADLOCK FALSE
