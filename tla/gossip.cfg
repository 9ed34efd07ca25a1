SPECIFICATION Spec
CONSTANTS
    Nodes = {n1, n2}
    MissedThreshold = 3
    DeathThreshold = 4
    LogSeqs = {3}
    MaxRounds = 6
    MaxLosses = 1
    MaxCopies = 1
    MaxReports = 1
    MaxDowns = 1
    MaxRestarts = 1
SYMMETRY Symmetry
INVARIANTS
    DeadPeerNoticed
    SteadyPeerAlive
CHECK_DEADLOCK FALSE
