SPECIFICATION Spec
CONSTANTS
    Query <- Openings
    Owner = {o1}
    MaxJobs = 2
    MaxSubscriptions = 2
    MaxQueuedBytes = 2
    MaxRequestBytes = 2
    MaxAsks = 2
    Events = {"exit", "fatal", "progress", "full", "malformed", "error"}
    Withdrawals = {"one"}
    MaxEpoch = 3
    MaxRevision = 2
    MaxGen = 0
INVARIANTS AnsweredOnce AvailableIsCurrent
CHECK_DEADLOCK FALSE
