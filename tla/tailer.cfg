SPECIFICATION FairSpec
CONSTANTS
    Capacity = 1
    Mishaps = {"rotate", "read", "store", "stop", "crash"}
    MaxLines = 3
    MaxMishaps = 2
INVARIANTS
    TypeOK
    SavedIsStored
    NoGap
    StoredInOrder
PROPERTIES
    EveryLineStored
    StopEnds
CHECK_DEADLOCK FALSE
