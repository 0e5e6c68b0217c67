SPECIFICATION LiveSpec
CONSTANTS
    Actions = {"quit", "close", "restart", "open"}
    Events = {"exit", "marker", "fails", "unwritten", "unread", "another", "pack", "bookmark"}
    MaxEdits = 2
    MaxCommands = 2
    MaxLeaves = 1
    MaxSaves = 1
PROPERTIES TransitionEnds
CHECK_DEADLOCK FALSE
