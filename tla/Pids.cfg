SPECIFICATION PidsFairSpec
CONSTANTS
    MAX_PID = 7
    MAX_PROCESS = 6
INVARIANTS
    PidsUnique
    CacheSound
PROPERTIES
    GetPidReturns
