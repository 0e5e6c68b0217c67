SPECIFICATION Spec
CONSTANTS
    Actions = {"quit", "close", "restart", "open"}
    Events = {"exit", "marker", "fails", "unwritten", "unread", "another", "pack", "bookmark"}
    MaxEdits = 2
    MaxCommands = 2
    MaxLeaves = 2
    MaxSaves = 1
INVARIANTS PendingWritesExact CleanMeansSaved NothingLostUnasked AnotherKept
CHECK_DEADLOCK FALSE
