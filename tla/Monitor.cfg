SPECIFICATION FairSpec
CONSTANTS
    Threads = {a, b, c}
    Nobody = nobody
    Conds = {x, y}
    Mutex = mutex
    NextSem = next
INVARIANTS
    OneActive
    CountersExact
PROPERTIES
    IsHoareMonitor
    SignallerReturns
    EntrantGetsIn
CHECK_DEADLOCK FALSE
