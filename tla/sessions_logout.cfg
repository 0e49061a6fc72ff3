SPECIFICATION Spec
CONSTANTS
    Ops = {o1, o2}
    Names = {ann, bea}
    Lifetime = 2
    MaxOps = 3
    MaxTime = 1
    MaxFailures = 0
    MaxLosses = 0
SYMMETRY Symmetry
INVARIANTS LoggedOutIsOut
CHECK_DEADLOCK FALSE
