SPECIFICATION FairSpec
CONSTANTS
    Things = {file}
    Values = {genesis, v1, v2}
    Genesis = genesis
    Keys = {own, op1}
    Own = own
    Dev = FALSE
    Mishaps = {"append", "remove", "readlog", "readspool", "operators", "damage", "resubmit"}
    MaxRequests = 2
    MaxMishaps = 1
    MaxKills = 1
INVARIANTS
    ApprovalsMatchLog
    OperatorsApprove
PROPERTIES
    RequestRecorded
    DriftReported
