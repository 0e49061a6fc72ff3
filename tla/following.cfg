SPECIFICATION Spec
CONSTANTS
    Callers = {c1, c2}
    Vloggers = {v1}
    Publish = {"queued", "refused", "dropped"}
    MaxCalls = 3
    MaxFeeds = 3
    MaxFailures = 2
    PageTTL = 1
    MaxTime = 3
CONSTRAINT Apart
INVARIANTS EdgeFollowsLast PageIsRecent
CHECK_DEADLOCK FALSE
