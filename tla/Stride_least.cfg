SPECIFICATION Spec
CONSTANTS
    Procs = {init, a, b}
    Idle = idle
    InitProc = init
    NULL = null
    SignBit = 4
    Priorities = {2}
INVARIANTS
    RootIsLeast
