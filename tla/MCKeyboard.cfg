SPECIFICATION Spec
CONSTANTS
    KEYBOARD_QUEUE_SIZE = 4
    NUL = "NUL"
    Keys <- MCKeys
    normal_map <- MCNormal
    shifted_map <- MCShifted
INVARIANTS
    TypeOK
    HeadStable
    NoStuckShift
PROPERTIES
    ImplementsFifo
    LossOnlyWhenFull
