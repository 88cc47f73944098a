SPECIFICATION Spec
CONSTANTS
    Writers = {w1, w2}
    Blocks = 1
    Old = old
PROPERTIES
    AckedStays
CHECK_DEADLOCK FALSE
