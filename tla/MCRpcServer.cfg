CONSTANTS
    MAX_DEVICES = 2
    Client = {c1, c2, c3}
    NoClient = NoClient
    Query = {"get-vms"}
    Update = {"destroy-vm"}
    Args = {"vid=1", "vid=2"}
    Garbage = "garbage"
    Backlog = 0
    ArchAmd = FALSE
    ConfigFile <- ConfigFiles
SPECIFICATION FairSpec
INVARIANTS
    TypeOK
    PoolAsConfigured
PROPERTIES
    ServiceSpec
    EveryRequestAnswered
CHECK_DEADLOCK FALSE
