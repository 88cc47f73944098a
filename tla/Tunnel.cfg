SPECIFICATION FairSpec
CONSTANTS
    Streams = {"s1", "s2", "s3"}
    PoolSize = 2
    MaxBackoff = 60
    MaxFails = 8
    MaxKills = 1
INVARIANTS
    TypeOK
    BackoffSchedule
    SilentOnlyWhenGone
    RunsToEnd
PROPERTIES
    ServedBesideOne
    Reconnects
CHECK_DEADLOCK FALSE
