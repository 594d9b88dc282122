CONSTANTS
    Procs = {p1, p2}
    Pages = {o1, o2, o3, o4, o5, o6}
    NoPage = NoPage
    EmptyFile = EmptyFile
    NoRecord = NoRecord
    WAIT_FOR_LOCK_SEC = 1
    table_max_pages = 2
    max_elements_in_page = 2
    record_expire_seconds = 1
    Lifetimes = {0}
    Counts = {2, 3}
    REMOVE_AT_ONCE = 1
    REMOVE_DELAY_SEC = 2
    CHECK_INTERVAL_SEC = 1
    Operations = {"add", "scan", "clean"}
    MemoryLevels = {"fine", "low", "out"}
    Faults = {"lock", "ftruncate", "mmap"}
    StartTime = 1
    MaxTime = 2
    MaxOps = 2
    MaxDeaths = 1
SPECIFICATION Spec
INVARIANTS
    LockMatchesSteps
    ClaimsDisjoint
PROPERTIES
    NoRecordLostEarly
    OperationsEnd
