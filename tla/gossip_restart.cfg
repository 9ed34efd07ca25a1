SPECIFICATION Spec
CONSTANTS
    Nodes = {n1, n2}
    MissedThreshold = 2
    DeathThreshold = 3
    LogSeqs = {}
    MaxRounds = 9
    MaxLosses = 0
    MaxCopies = 0
    MaxReports = 0
    MaxDowns = 1
    MaxRestarts = 1
INVARIANTS
    LivePeerAlive
CHECK_DEADLOCK FALSE
