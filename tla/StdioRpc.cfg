SPECIFICATION FairSpec
CONSTANTS
    Scripts <- MCScripts
    Requests <- MCRequests
    Chunk = 12
    InRoom = 12
    OutRoom = 1
INVARIANTS
    TypeOK
PROPERTIES
    ServesTheStream
    Finishes
CHECK_DEADLOCK FALSE
