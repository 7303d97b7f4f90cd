CONSTANTS
    Size = 3
    MaxSpan = 4
    MaxRead = 2
    MaxBytes = 6

SPECIFICATION Spec

INVARIANT
    LiveTells

CHECK_DEADLOCK FALSE
