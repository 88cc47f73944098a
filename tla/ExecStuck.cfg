SPECIFICATION FairSpec
CONSTANTS
    Streams <- MCStreams
    Policies <- MCPolicies
    Bin <- MCBin
    CapRequests = {1}
    MaxOutput = 2
    TimeRequests = {1}
    MaxTimeout = 2
    PipeCap = 2
    Chunk = 2
    Plans <- MCPlans
    IoMayFail = FALSE
PROPERTIES
    TimeoutBinds
CHECK_DEADLOCK FALSE
