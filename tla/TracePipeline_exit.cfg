SPECIFICATION FairSpec
CHECK_DEADLOCK FALSE
CONSTANTS
    N = 2
    Programs <- MCUneven
    Slots = 2
    Latency <- NoLatency
    RunMax = 2
    RingSize = 1
    MaxQueue = 1
    MaxIssue = 1
    MaxPending = 2
    Limits = {0, 1}
    Accounting = {"precise"}
    Access <- MCAccess
    Regions <- MCRegions
    FilterUnmatched = TRUE
    SingleThread = TRUE
    PollPeriod = 2
    Exits = {"ok","failed","vanish","early","refused"}
    Alphabet = {"mem","doorbell","finisher"}
    MaxLen = 2
INVARIANT TrueVerdict
PROPERTY Ends
