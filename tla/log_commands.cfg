SPECIFICATION CommandsSpec
CONSTANTS
    Keys = {k1}
    NoKey = NoKey
    Trusted = {k1}
    Initialised = FALSE
    Faults = {"seal", "short", "head"}
    MaxRecords = 3
    MaxFaults = 1
    MaxCrashes = 1
    Pins = {k1}
    ReadOnlyAttempts = 2
    ExportAttempts = 2
    MaxExports = 2
    BesideDaemon = FALSE
INVARIANTS
    TypeOK
    ReadersNeverFail
    VerifiedStays
    ExportVerifies
    AckedDurable
    NothingDestroyed
    StatusVerdictRight
