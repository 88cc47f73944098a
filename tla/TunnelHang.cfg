SPECIFICATION FairSpec
CONSTANTS
    Streams = {"s1"}
    PoolSize = 1
    MaxBackoff = 60
    MaxFails = 8
    MaxKills = 0
PROPERTIES
    ReconnectsRegardless
CHECK_DEADLOCK FALSE
