SPECIFICATION FairSpec
CONSTANTS
    Idle = idle
    InitProc = init
    Procs = {idle, init, a, b}
    AnyChild = any
    Killable = {a, b}
    MaxTimeSlice = 1
    MaxSleep = 1
    StdinSize = 1
PROPERTIES
    KilledExit
