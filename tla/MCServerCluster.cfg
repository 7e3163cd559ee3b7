SPECIFICATION ClusterSpec
CONSTANTS
    MaxProcesses = 2
    CrashCount = 1
    CrashInterval = 2
    CrashTimeout = 1
    CrashDelay = 4
    Faults = 3
    Signals = 2
INVARIANTS
    Strength
    StartsAreThrottled
    OneAtATime
PROPERTIES
    
    RestartReachesAll
    ShutdownEnds
    
CHECK_DEADLOCK FALSE
