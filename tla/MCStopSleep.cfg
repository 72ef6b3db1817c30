CONSTANTS
    MAX_NUM_VM = 2
SPECIFICATION Spec
PROPERTIES
    IterationEndsBeforeClose
CHECK_DEADLOCK FALSE
