SPECIFICATION FairSpec
CONSTANTS
    NoRow = NoRow
    NoUser = NoUser
    NoTask = NoTask
    Unwritten = Unwritten
    Unset = Unset
    Null = Null
    Requests = {r1, r2}
    UserIds <- MCUserIds
    TaskIds <- MCTaskIds
    Titles <- MCTitles
    Calls <- RemovalCalls
    Changes = {}
    InitialUsers <- MCUsers
    InitialTasks <- MCTasks
    Faults = {}
PROPERTIES TasksAnswered ServerErrorJustified TaskConflictJustified
