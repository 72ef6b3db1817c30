CONSTANTS
    MemId <- MCMemId
    BootMem <- MCBootMem
    Offset <- MCOffset
    MaxEvents = 2
SPECIFICATION FairSpec
INVARIANTS TypeOK NoLeftovers
PROPERTIES AttachSuccessMeansPlugged DetachSuccessMeansGone RequestsAnswered
\* After SIGPIPE the manager is gone.
CHECK_DEADLOCK FALSE
