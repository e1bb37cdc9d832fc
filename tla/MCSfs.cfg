SPECIFICATION Spec
CONSTANTS
    f1 = f1
    f2 = f2
    h1 = h1
    h2 = h2
    Files = {f1, f2}
    Handles = {h1, h2}
    NBlock = 4
    NDirect = 1
    NEntry = 2
    BlkSize = 2
    MaxSize = 8
    Lengths <- MCLengths
    Positions <- MCPositions
    Nil = Nil
INVARIANTS
    BlocksAccounted
    ClosedOnDisk
    AssertsHold
SYMMETRY Symmetric
CHECK_DEADLOCK FALSE
