SPECIFICATION OpenedSpec
CONSTANTS
    Query <- Reads
    Owner = {o1}
    MaxJobs = 3
    MaxSubscriptions = 4
    MaxQueuedBytes = 3
    MaxRequestBytes = 2
    MaxAsks = 5
    Events = {"heartbeat", "late"}
    Withdrawals = {}
    MaxEpoch = 1
    MaxRevision = 2
    MaxGen = 1
INVARIANTS ReadsSeeCommands ReadsSeeListing CommandsStayHome
CHECK_DEADLOCK FALSE
