SPECIFICATION FairSpec
CONSTANTS
    Mishaps = {"append", "follower", "kill"}
    maxPushRetries = 3
    EscalateAfter = 2
    MaxPushes = 2
    Capacity = 1
    MaxFiles = 2
    MaxReceipts = 2
    Setups = {{"mirror"}, {"pipelock"}, {"disk"}}
    MaxStarts = 2
INVARIANTS
    DowntimeRight
    ReceiptsRecorded
    MirrorEventsRight
PROPERTIES
    StopCompletes
CHECK_DEADLOCK FALSE
