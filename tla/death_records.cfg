SPECIFICATION DeathSpec
CONSTANTS
    Keys = {}
    NoKey = NoKey
    Trusted = {}
    Initialised = TRUE
    Faults = {"seal", "short", "head"}
    MaxRecords = 4
    MaxFaults = 1
    MaxCrashes = 1
    TailCells = 1
    MaxStarts = 2
INVARIANTS
    RecordsTrue
    ChainVerifies
    LogVerdictRight
CHECK_DEADLOCK FALSE
