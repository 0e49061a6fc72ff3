SPECIFICATION FairSpec
CONSTANTS
    Callers = {c1, c2}
    CommentPublish = {"queued", "refused", "dropped"}
    HeatPublish = {"queued", "refused"}
    MaxCalls = 3
    MaxFailures = 1
INVARIANTS TypeOK NoUnexplainedCopies PopularityAccounts AcceptedIsKept StaleListExplained
PROPERTIES AcceptedAppears
CHECK_DEADLOCK FALSE
