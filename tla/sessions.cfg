SPECIFICATION Spec
CONSTANTS
    Ops = {o1, o2}
    Names = {ann, bea}
    Lifetime = 2
    MaxOps = 4
    MaxTime = 3
    MaxFailures = 1
    MaxLosses = 1
SYMMETRY Symmetry
INVARIANTS TypeOK CacheAgrees RevokedRefreshIsDead OldPasswordIsOut
CHECK_DEADLOCK FALSE
