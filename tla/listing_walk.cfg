SPECIFICATION Spec
CONSTANTS
    UserIds <- MCUserIds
    TaskIds <- MCTaskIds
    OwnerId <- MCOwnerId
    Created <- MCCreated
    Marks <- MCMarks
    Queries <- MCQueries
    UserChoices <- MCUserChoices
    TaskChoices <- MCTaskChoices
    InitialUsers <- MCUsers
    InitialTasks <- MCTasks
    MaxMoves = 2
    NoRow = NoRow
    NoUser = NoUser
    NoQuery = NoQuery
    Any = Any
INVARIANTS
    TypeOK
    NothingLost
    NothingRepeated
    OwnerlessGone
