CONSTANTS
    Table <- MCTable
    Rank <- MCRank
    Rows = {0, 1}
    Command = {edit}
    Input = {build1, build2}
    ByteBudget = TRUE
    MaxCommands = 1
    MaxFaults = 2
    NoDoc = NoDoc
    NoJournal = NoJournal
    NoStore = NoStore
    NoState = NoState
SPECIFICATION MCSpec
INVARIANTS CursorInBounds FilesConsistent
PROPERTIES AckedCommitIsDurable NothingOverwrittenUnjournaled ImplementsEditStore
