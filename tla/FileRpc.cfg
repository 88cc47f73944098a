SPECIFICATION Spec
CONSTANTS
    Tasks <- MCTasks
    Paths <- MCPaths
    Dirs <- MCDirs
    DirOf <- MCDirOf
    Op <- MCOp
    Target <- MCTarget
    MaxBytes <- MCMaxBytes
    MaxRead = 8
    Size <- MCSize
    Grain = 1
    Policies <- MCPolicies
    InitDirs <- MCInitDirs
    InitClock = 1
    IoKinds = {"PermissionDenied"}
    AuditMayFail = FALSE
    MayCrash = TRUE
    MaxEdits = 1
INVARIANTS
    TypeOK
    EditReplacesWhatWasRead
    OversizeIsStale
    ReplacingNeverHides
    AckIsOwnUnlessRaced
    AuditedBeforeAnswer
    NoStrayTemps
PROPERTIES
    ReadOnlyNeverChanges
    ImplementsStore
CHECK_DEADLOCK FALSE
