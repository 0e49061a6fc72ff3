SPECIFICATION Spec
CONSTANTS
    Videos = {1, 2}
    Apis = {a1, a2}
    Rebuilders = {}
    Cap = 1
    Limit = 1
    Unconfirmed = TRUE
    MaxFailures = 1
    MaxLosses = 1
SYMMETRY Symmetry
INVARIANTS TypeOK NothingForgotten
CHECK_DEADLOCK FALSE
