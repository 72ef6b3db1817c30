CONSTANTS
    MAX_NUM_VM = 2
SPECIFICATION FairSpec
INVARIANTS
    TypeOK
    NeverBothStarved
    ShutdownLeavesOnlyTheCut
PROPERTIES
    MonitorOnlyRacesStop
    ShutdownJoins
    AnotherAnswerComes
CHECK_DEADLOCK FALSE
