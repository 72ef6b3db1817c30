CONSTANTS
    NumDevs = 2
    TotalSizeMb <- CliTotalSizeMb
    SegmentSizeMb = 2
    VmId = {0}
    MbArg = {}
    MAX_NUM_VM = 2
    MaxMemdev = 3
    Cli = {p1, p2}
    Tier <- CliTier
    CreateRequest <- CliCreate
    AttachRequest <- CliAttach
    PlanNode = {1, 2, 3}
    PlanMb = {0, 2, 3, 4}
    Taken = {}
    ListedVms = 0
SPECIFICATION CliSpec
INVARIANTS
    CliTypeOK
    QemuMemoryIsHeld
    NothingLeaked
    OneCreatorPerVm
    PlanFoundIfAny
SYMMETRY CliSymmetry
CHECK_DEADLOCK FALSE
