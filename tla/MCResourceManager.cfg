CONSTANTS
    NumDevs = 2
    TotalSizeMb <- MemTotalSizeMb
    SegmentSizeMb = 2
    VmId = {0, 1, 2}
    MbArg <- MemMbArg
    MAX_NUM_VM = 2
    MaxMemdev = 2
SPECIFICATION Spec
INVARIANTS
    TypeOK
    VmTableConsistent
    AgentsMatchRunning
    InternalAssertionsHold
    MemoryAccounted
PROPERTIES
    LeaseSpec
CHECK_DEADLOCK FALSE
