SPECIFICATION FairSpec
CONSTANTS
    Users = {u1, u2}
    Videos = {v1, v2}
    Stored = {v1}
    Clients = {c1, c2}
    Workers = {w1}
    Prefetch = 2
    MaxCalls = 3
    MaxFailures = 2
    LikePublish = {"queued", "dropped"}
    HeatPublish = {"queued"}
    RedisUp = FALSE
    MaxCopies = 0
INVARIANTS LastEventWins
PROPERTIES EventsLand
CHECK_DEADLOCK FALSE
