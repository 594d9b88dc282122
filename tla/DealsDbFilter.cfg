CONSTANTS
    Procs = {p1, p2}
    Deals = {d1, d2, d3}
    NoDeal = NoDeal
    NoProc = NoProc
    PageCount = 2
    PageSize = 1
    DEALS_EXPIRES = 1
    REMOVE_AT_ONCE = 1
    REMOVE_DELAY_SEC = 1
    MemoryLevels = {"fine", "low"}
    Operations = {"add"}
    StartTime = 1
    MaxTime = 3
    MaxOps = 0
    MaxWork = 6
SPECIFICATION Spec
INVARIANT PassedDealsKeepData
SYMMETRY Symmetry
