SPECIFICATION Spec
CONSTANTS
    Service = {s1, s2}
    Child = {1, 2}
    TunCount = 2
    Faults = {}
PROPERTIES OtherVpnsRemain
CHECK_DEADLOCK FALSE
