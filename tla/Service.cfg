SPECIFICATION Spec
CONSTANTS
    Exes = {"old", "new"}
    MaxFails = 2
INVARIANTS
    UninstalledIsGone
    StoppedStaysDown
PROPERTIES
    InstalledIsNext
