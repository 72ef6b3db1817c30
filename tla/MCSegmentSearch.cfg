CONSTANTS
    MaxSegments = 7
    MaxRequest = 8
SPECIFICATION FairSpec
INVARIANTS
    TypeOK
    ReadsInBounds
    FindsFirstFit
PROPERTIES
    Terminates
CHECK_DEADLOCK FALSE
