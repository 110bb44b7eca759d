SPECIFICATION FairResetSpec
CONSTANTS
    NumCpus = 2
    MaxResets = 2
    MaxBacking = 2
INVARIANTS OnlyTheWindow
PROPERTIES Progress
\* SST stops for good when a reset meets an open transaction.
CHECK_DEADLOCK FALSE
