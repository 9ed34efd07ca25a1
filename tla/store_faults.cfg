SPECIFICATION Spec
CONSTANTS
    Keys = {k1, k2, k3}
    NoKey = NoKey
    Trusted = {k1}
    Initialised = TRUE
    Faults = {"seal", "short", "head"}
    MaxRecords = 4
    MaxFaults = 3
    MaxCrashes = 2
SYMMETRY Symmetry
INVARIANTS
    HeadCoversLog
    AckedDurable
    NothingDestroyed
    RefusesOnlyUncoverable
    SeqIncreasing
    SignerPinned
PROPERTIES
    ImplementsAppendOnlyLog
