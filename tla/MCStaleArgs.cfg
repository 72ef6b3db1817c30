CONSTANTS
    MAX_DEVICES = 2
    Client = {c1, c2}
    NoClient = NoClient
    Query = {"get-vms"}
    Update = {"destroy-vm"}
    Args = {"vid=1", "vid=2"}
    Garbage = "garbage"
    Backlog = 0
    ArchAmd = FALSE
    ConfigFile <- ServingFiles
SPECIFICATION Spec
PROPERTIES
    OwnArguments
CHECK_DEADLOCK FALSE
