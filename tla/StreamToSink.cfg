SPECIFICATION LoopSpec
CONSTANTS
    Size = 10
    Paces = {3, 4, 5}
    HasIrq = TRUE
    MaxRewinds = 1
    MaxBytes = 17
    MaxPushed = 32
    MaxEarly = 2
INVARIANTS
    LineIsLevel
    FileIsCapture
PROPERTIES
    Drains
\* The simulation ends.
CHECK_DEADLOCK FALSE
