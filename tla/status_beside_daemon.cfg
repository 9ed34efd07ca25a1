SPECIFICATION StatusSpec
CONSTANTS
    Keys = {k1}
    NoKey = NoKey
    Trusted = {k1}
    Initialised = TRUE
    Faults = {}
    MaxRecords = 3
    MaxFaults = 0
    MaxCrashes = 0
    BesideDaemon = TRUE
INVARIANTS
    AckedDurable
