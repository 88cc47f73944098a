SPECIFICATION Spec
CONSTANTS
    Tasks <- MCEditTasks
    Paths <- MCPaths
    Dirs <- MCDirs
    DirOf <- MCDirOf
    Op <- MCEditOp
    Target <- MCEditTarget
    MaxBytes <- MCEditMaxBytes
    MaxRead = 8
    Size <- MCSize
    Grain = 1
    Policies <- MCPolicies
    InitDirs <- MCInitDirs
    InitClock = 1
    IoKinds = {}
    AuditMayFail = FALSE
    MayCrash = FALSE
    MaxEdits = 0
INVARIANTS
    NoLostUpdate
CHECK_DEADLOCK FALSE
