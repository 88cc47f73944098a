SPECIFICATION Spec
CONSTANTS
    Writers = {w1, w2}
    Blocks = 2
    Old = old
INVARIANTS
    TypeOK
    NeverTorn
    FailedLeavesNoTrace
CHECK_DEADLOCK FALSE
