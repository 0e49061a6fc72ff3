SPECIFICATION Spec
CONSTANTS
    Users = {u1, u2}
    Videos = {v1, v2}
    Stored = {v1}
    Clients = {c1, c2}
    Workers = {w1, w2}
    Prefetch = 1
    MaxCalls = 4
    MaxFailures = 1
    LikePublish = {"queued", "refused"}
    HeatPublish = {"refused"}
    RedisUp = FALSE
    MaxCopies = 0
SYMMETRY Symmetry
INVARIANTS TypeOK LikesAccounting NeverUndercounts
CHECK_DEADLOCK FALSE
