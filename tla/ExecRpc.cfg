SPECIFICATION FairSpec
CONSTANTS
    Streams <- MCStreams
    Policies <- MCPolicies
    Bin <- MCBin
    CapRequests = {0, 9}
    MaxOutput = 2
    TimeRequests = {0, 2}
    MaxTimeout = 1
    PipeCap = 2
    Chunk = 2
    Plans <- MCPlans
    IoMayFail = TRUE
INVARIANTS
    TypeOK
    OutputExact
    AnswerIsFinal
    TruthfulEnd
    AuditedBeforeAnswer
PROPERTIES
    NoOutputStall
    Answers
CHECK_DEADLOCK FALSE
