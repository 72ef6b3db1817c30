CONSTANTS
    MemId <- MCMemId
    BootMem <- MCBootMem
    Offset <- MCOffset
    MaxEvents = 2
SPECIFICATION Spec
INVARIANT ResponseTellsSuccess
CHECK_DEADLOCK FALSE
