SPECIFICATION DaemonSpec
CONSTANTS
    Commands <- MCCommands
    Kind <- MCKind
    Mode <- MCMode
    Policies <- MCPolicies
    Clouds = {"A", "B"}
    Urls <- MCUrls
    Systems <- MCSystems
    Overlap = FALSE
    MaxStops = 2
INVARIANTS
    DaemonTypeOK
    StartsAsInstalled
    PairedIsUsable
    PolicyKept
    KeyKept
    EnrolReachesCloud
CHECK_DEADLOCK FALSE
