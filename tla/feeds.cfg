SPECIFICATION Spec
CONSTANTS
    Videos = {1, 2, 3, 4}
    At <- CreationTimes
    Second = 3
    Top = 5
    Kinds = {"latest", "likes", "following"}
    Limit = 2
    Cap = 2
    MaxPageFaults = 1
    MaxFlushes = 1
    MaxLikes = 2
    MaxOthers = 1
    Ranked = {1, 2}
    Clients = {c1, c2}
    Changes = {1}
    Span = 2
    WindowTTL = 3
    SnapshotTTL = 1
    PageSize = 1
    MaxMinute = 2
    MaxHeat = 2
    MaxPages = 3
    MaxRankFaults = 2
SYMMETRY Symmetry
INVARIANTS TypeOK NoRepeats NoGaps HeatCounted RankingComplete RankPaged
CHECK_DEADLOCK FALSE
