SPECIFICATION Spec
CONSTANTS
    Actions = {"quit", "restart"}
    Events = {"exit", "overtake"}
    MaxEdits = 2
    MaxCommands = 2
    MaxLeaves = 2
    MaxSaves = 1
INVARIANTS
    PausedOnlyWhilePending
CHECK_DEADLOCK FALSE
