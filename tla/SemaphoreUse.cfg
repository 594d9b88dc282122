CONSTANTS
    Procs = {p1, p2, p3}
    WAIT_FOR_LOCK_SEC = 2
SPECIFICATION Spec
INVARIANTS
    TypeOK
    MutualExclusion
    PostsBalance
PROPERTIES
    EnterReturns
