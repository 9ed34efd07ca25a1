SPECIFICATION PDSpec
CONSTANTS
    Keys = {}
    NoKey = NoKey
    Trusted = {}
    Initialised = TRUE
    Faults = {"seal", "short", "head"}
    MaxRecords = 4
    MaxFaults = 1
    MaxCrashes = 1
    Nodes = {n1, n2}
    Cases = {c1}
    NoCase = NoCase
    MaxItems = 2
SYMMETRY Symmetry
INVARIANTS
    CatalogMatchesLog
    HoldProtects
    BundlesStand
CHECK_DEADLOCK FALSE
