CONSTANTS
    Procs = {p1, p2}
    Pages = {o1, o2, o3, o4, o5, o6}
    NoPage = NoPage
    EmptyFile = EmptyFile
    NoRecord = NoRecord
    WAIT_FOR_LOCK_SEC = 0
    table_max_pages = 2
    max_elements_in_page = 2
    record_expire_seconds = 1
    Lifetimes = {0}
    Counts = {1, 2}
    REMOVE_AT_ONCE = 1
    REMOVE_DELAY_SEC = 2
    CHECK_INTERVAL_SEC = 1
    Operations = {"add", "scan", "clean"}
    MemoryLevels = {"fine", "low"}
    Faults = {}
    StartTime = 1
    MaxTime = 4
    MaxOps = 3
    MaxDeaths = 0
SPECIFICATION Spec
INVARIANTS
    TypeOK
    ClaimsDisjoint
    RowOutlivesItsRecords
    UsedRowsFirst
PROPERTIES
    NoRecordLostEarly
SYMMETRY ProcSymmetry
