SPECIFICATION Spec
CONSTANTS
    Service = {s1, s2, s3}
    Child = {1, 2, 3}
    TunCount = 1
    Faults = {"sigterm", "crash", "litter", "spawn"}
SYMMETRY Symmetry
INVARIANTS TypeOK TunsAccounted OneHolder
CHECK_DEADLOCK FALSE
