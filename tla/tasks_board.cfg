SPECIFICATION Spec
CONSTANTS
    NoRow = NoRow
    NoUser = NoUser
    NoTask = NoTask
    Unwritten = Unwritten
    Unset = Unset
    Null = Null
    Requests = {r1, r2}
    UserIds <- MCUserIds
    TaskIds <- MCTaskIds
    Titles <- MCTitles
    Calls <- BoardCalls
    Changes <- BoardChanges
    InitialUsers <- MCUsers
    InitialTasks <- MCTasks
    Faults = {"connection", "crash"}
SYMMETRY Symmetry
INVARIANTS TypeOK NoOrphans TaskLocks
PROPERTIES OwnerOrAdmin PatchesKeptApart ImplementsBoard
