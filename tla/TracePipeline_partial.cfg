SPECIFICATION Spec
CHECK_DEADLOCK FALSE
CONSTANTS
    N = 1
    Programs <- MCPrograms
    Slots = 2
    Latency <- NoLatency
    RunMax = 2
    RingSize = 2
    MaxQueue = 2
    MaxIssue = 2
    MaxPending = 2
    Limits = {1}
    Accounting = {"precise"}
    Access <- MCAccess
    Regions <- MCRegions
    FilterUnmatched = TRUE
    SingleThread = TRUE
    PollPeriod = 2
    Exits = {"ok"}
    Alphabet = {"int","mem","doorbell"}
    MaxLen = 3
INVARIANT NeverPartial
