CONSTANTS
    MAX_DEVICES = 2
    Client = {c1}
    NoClient = NoClient
    Query = {"get-vms"}
    Update = {"destroy-vm"}
    Args = {"vid=1", "vid=2"}
    Garbage = "garbage"
    Backlog = 0
    ArchAmd = FALSE
    ConfigFile <- MinimalFiles
SPECIFICATION Spec
PROPERTIES
    DevicesSuffice
CHECK_DEADLOCK FALSE
