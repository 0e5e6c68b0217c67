SPECIFICATION OpenedLiveSpec
CONSTANTS
    Query <- Living
    Owner = {o1}
    MaxJobs = 2
    MaxSubscriptions = 2
    MaxQueuedBytes = 2
    MaxRequestBytes = 2
    MaxAsks = 3
    Events = {"exit"}
    Withdrawals = {"one"}
    MaxEpoch = 2
    MaxRevision = 3
    MaxGen = 0
PROPERTIES EveryAskAnswered AnalysisAnnounced
CHECK_DEADLOCK FALSE
