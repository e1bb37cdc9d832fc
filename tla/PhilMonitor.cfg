SPECIFICATION FairSpec
CONSTANTS
    N = 4
    TIMES = 1
    Nobody = nobody
    Mutex = mutex
    NextSem = next
INVARIANTS
    WokenMayEat
PROPERTIES
    IsDining
    UsesMonitor
    AllQuit
