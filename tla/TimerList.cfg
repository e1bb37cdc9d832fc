SPECIFICATION Spec
CONSTANTS
    Procs = {a, b, c, d}
    MaxSleep = 4
INVARIANTS
    HeadHasTime
    TimersMatchSleepers
PROPERTIES
    KeepsPromise
