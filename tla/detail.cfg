SPECIFICATION Spec
CONSTANTS
    Callers = {c1, c2}
    Apis = {a1, a2}
    CacheTTL = 2
    LocalTTL = 2
    MaxTime = 4
    MaxChanges = 1
    MaxReads = 3
    MaxFailures = 1
SYMMETRY Symmetry
INVARIANTS LockExclusive StalenessBounded ReadsAccounted
CHECK_DEADLOCK FALSE
