SPECIFICATION Spec
CONSTANTS
    Processes = {1, 2}
    Slots = {1, 2}
    Home <- MCHome
    Ttl = 1
    Ttl2 = 1
    StatusInterval = 1
    Writes = 2
    MaxWire = 1
    Faults = 2
INVARIANT Invalidated
PROPERTY EventuallyFresh
CHECK_DEADLOCK FALSE
