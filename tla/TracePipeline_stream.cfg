SPECIFICATION Spec
CHECK_DEADLOCK FALSE
CONSTANTS
    N = 1
    Programs <- MCMixed
    Slots = 3
    Latency <- MemLatency
    RunMax = 2
    RingSize = 2
    MaxQueue = 2
    MaxIssue = 3
    MaxPending = 2
    Limits = {0}
    Accounting = {"precise","delayed"}
    Access <- MCAccess
    Regions <- MCRegions
    FilterUnmatched = TRUE
    SingleThread = TRUE
    PollPeriod = 2
    Exits = {"ok"}
    Alphabet = {"int","mem","doorbell"}
    MaxLen = 4
INVARIANT TypeOK
INVARIANT Stream
INVARIANT PacketFirst
