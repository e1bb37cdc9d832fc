SPECIFICATION Spec
CONSTANTS
    p1 = p1
    p2 = p2
    Procs = {p1, p2}
    First = p1
    NFd = 3
    Programs = {sh}
    sh = sh
    Stdin = Stdin
    Root = Root
    None = None
    MaxLost = 1
INVARIANTS
    InodesExact
CHECK_DEADLOCK FALSE
