SPECIFICATION FairSpec
CONSTANTS
    Videos = {1, 2, 3}
    Apis = {a1}
    Rebuilders = {a1}
    Cap = 2
    Limit = 2
    Unconfirmed = TRUE
    MaxFailures = 1
    MaxLosses = 0
INVARIANTS NoHoleAboveWatermark StaysUntilSurpassed
PROPERTIES RelayImplemented
CHECK_DEADLOCK FALSE
