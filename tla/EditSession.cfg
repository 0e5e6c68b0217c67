CONSTANTS
    Table <- MCTable
    Rank <- MCRank
    Rows <- MCRows
    Command <- MCCommand
    Input = {build}
    Key = {1}
    Value = {0, 1}
    Absent = 0
    Annotations = "annotations"
    Eager = {"items"}
    ByteBudget = FALSE
    MaxCommands = 2
    MaxFaults = 1
    NoDoc = NoDoc
    NoJournal = NoJournal
    NoStore = NoStore
    NoState = NoState
SPECIFICATION SessionSpec
INVARIANTS SessionTypeOK UndoDescribesSession UndoDescribesFiles CleanSessionIsCommitted
PROPERTIES SyncKeepsNotes
