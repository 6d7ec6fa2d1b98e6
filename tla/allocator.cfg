SPECIFICATION Spec
CONSTANTS
    SizeT = 4096
    Granularity = 512
    PageSize = 512
    MmapThreshold = 420
    TrimThreshold = 600
    ReleaseRate = 2
    HalfMask = 64
    MstateSize = 64
    AddrEnd = 2048
    Capacity = 1536
    Requests = {24, 430}
    Resizes = {250, 700}
    CallocRequests <- MCCalloc
    Preludes <- MCPreludes
    MaxLive = 2
INVARIANTS
    HeapWellFormed
    BlocksDisjoint
    BestFit
    NeverAborts
CHECK_DEADLOCK FALSE
