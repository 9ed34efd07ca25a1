SPECIFICATION Spec
CONSTANTS
    Capacity = 1
    Mishaps = {"store"}
    MaxLines = 3
    MaxMishaps = 1
INVARIANTS
    SavedOnlyPastStored
CHECK_DEADLOCK FALSE
