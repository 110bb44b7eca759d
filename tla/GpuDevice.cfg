SPECIFICATION FairSpec
CONSTANTS
    Requesters = {r1, r2}
    None = None
    Kernels = {TRUE, FALSE}
    KernelLatency = 0
    Latencies = {0, 1, 2}
    MaxPending = 2
    InChunks = 4
    OutChunks = 3
    Window = 2
    MaxSubmits = 5
INVARIANTS TypeOK IdleMeansDone CompletionsCounted ResultBeforeSignal
PROPERTIES Retires
\* A doorbell during an operation, or a second blocking one, is a fatal error
\* of the simulation.
CHECK_DEADLOCK FALSE
