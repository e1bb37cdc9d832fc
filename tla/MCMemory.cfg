SPECIFICATION MSpec
CONSTANTS
    p1 = p1
    p2 = p2
    NPage = 16
    Procs = {p1, p2}
    First = p1
    VPages <- MCVPages
    AreaOf <- MCAreaOf
    TableOf <- MCTableOf
    StackArea = 3
    Eager <- MCEager
    CheckArea = 3
    CheckFrames = 2
    Values <- MCValues
    FileValue = 0
INVARIANTS
    PagesAccounted
    NothingLeftBehind
    SwappableMapped
    FreeListExact
PROPERTIES
    ImplementsAddressSpaces
VIEW
    Followed
CHECK_DEADLOCK FALSE
