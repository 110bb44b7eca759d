SPECIFICATION Spec
CONSTANTS
    Top = 16
    Lines = {0, 1, 2, 3, 4, 8}
    DataCap = 5
    B = 4
    Page = 4
    AbiTop = 32
    MaxRanges = 2
    VcpuCount = 2
    Jobs <- MCJobs
    HostPage = 2
    RegionBytes = 4
    MaxRegions = 2
    GuestTop = 16
    HeaderBytes = 1
    SharedOff = 3
    StorageOff = 2
    Setups <- MCSetups
INVARIANTS
    Covers
    RefusedExactly
    RangesSound
    OneView
    AttachesExactly
PROPERTY
    ActsLikeIsa
CHECK_DEADLOCK FALSE
