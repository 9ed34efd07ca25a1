SPECIFICATION EnforcerSpec
CONSTANTS
    Keys = {}
    NoKey = NoKey
    Trusted = {}
    Initialised = TRUE
    Faults = {"seal", "head"}
    MaxRecords = 4
    MaxFaults = 1
    MaxCrashes = 2
    EventCapacity = 1
INVARIANTS
    NoRecordSkipped
    DeliveredInOrder
PROPERTIES
    EveryRecordDelivered
    RestartCompletes
