CONSTANTS
    Procs = {p1, p2}
    Deals = {d1, d2, d3}
    NoDeal = NoDeal
    NoProc = NoProc
    PageCount = 2
    PageSize = 1
    DEALS_EXPIRES = 1
    REMOVE_AT_ONCE = 1
    REMOVE_DELAY_SEC = 0
    MemoryLevels = {"fine", "low"}
    Operations = {"add", "search", "truncate"}
    StartTime = 1
    MaxTime = 2
    MaxOps = 2
    MaxWork = 6
SPECIFICATION Spec
INVARIANTS
    TypeOK
    SameSecondDealsKeepData
    SearchIsComplete
    OnlyLateCopiesOverwrite
SYMMETRY Symmetry
