SPECIFICATION Spec
CONSTANTS
    e1 = e1
    e2 = e2
    e3 = e3
    e4 = e4
    Entries <- MCFour
    Width = 2
    DayLength = 2
    MaxTime = 3
    MaxFails = 1
SYMMETRY Interchangeable
INVARIANTS
    AckedIsFiled
    HiddenOnlyByAnother
    ListsMostRecent
CHECK_DEADLOCK FALSE
