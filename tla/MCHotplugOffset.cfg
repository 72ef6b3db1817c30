CONSTANTS
    MemId <- MCMemId
    BootMem <- MCBootMem
    Offset <- MCOffset
    MaxEvents = 2
SPECIFICATION Spec
INVARIANT AttachedMemoryIsItsOwn
CHECK_DEADLOCK FALSE
