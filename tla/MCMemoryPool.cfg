CONSTANTS
    NumDevs = 2
    TotalSizeMb <- MCTotalSizeMb
    SegmentSizeMb = 2
    VmId = {0, 1}
    MbArg <- MCMbArg
SPECIFICATION PoolSpec
INVARIANTS
    PoolTypeOK
    UsedSegmentsExact
PROPERTIES
    OneVmPerCall
