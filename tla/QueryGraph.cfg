SPECIFICATION OpenedSpec
CONSTANTS
    Query <- Graphs
    Owner = {o1}
    MaxJobs = 2
    MaxSubscriptions = 3
    MaxQueuedBytes = 3
    MaxRequestBytes = 2
    MaxAsks = 4
    Events = {}
    Withdrawals = {"one", "owner", "reads"}
    MaxEpoch = 1
    MaxRevision = 2
    MaxGen = 1
INVARIANTS TablesAgree GraphIsOneSnapshot
PROPERTIES OneRequestAtATime
CHECK_DEADLOCK FALSE
