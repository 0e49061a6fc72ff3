SPECIFICATION Spec
CONSTANTS
    Users = {u1, u2}
    Videos = {v1, v2}
    Stored = {v1}
    Clients = {c1, c2}
    Workers = {w1}
    Prefetch = 2
    MaxCalls = 4
    MaxFailures = 0
    LikePublish = {"queued", "refused"}
    HeatPublish = {"queued", "refused"}
    RedisUp = TRUE
    MaxCopies = 2
CONSTRAINT BrokerSteady
SYMMETRY Symmetry
INVARIANTS SettledCountsExact FeedItemFollows HeatFollowsLikes
CHECK_DEADLOCK FALSE
