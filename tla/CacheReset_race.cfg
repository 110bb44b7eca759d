SPECIFICATION ResetSpec
CONSTANTS
    NumCpus = 1
    MaxResets = 1
    MaxBacking = 1
INVARIANTS ControlsMatch
\* SST stops for good when a reset meets an open transaction.
CHECK_DEADLOCK FALSE
