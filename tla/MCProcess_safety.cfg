SPECIFICATION Spec
CONSTANTS
    Idle = idle
    InitProc = init
    Procs = {idle, init, a, b, c}
    AnyChild = any
    Killable = {a, b, c}
    MaxTimeSlice = 1
    MaxSleep = 1
    StdinSize = 1
SYMMETRY Symmetry
INVARIANTS
    TypeOK
    RunQueueExact
    PositionsConsistent
    NoLostWakeup
    ParentsAlive
    DescendFromInit
    LinkedFramesAlive
    ShutdownClean
PROPERTIES
    DeadStayDead
