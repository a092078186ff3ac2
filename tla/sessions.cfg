SPECIFICATION Spec
CONSTANTS
    NoAccount = NoAccount
    NoToken = NoToken
    Requests = {r1, r2}
    Ids <- MCIds
    AccessLife = 0
    RefreshLife = 1
INVARIANTS TypeOK GivenTokensDie
PROPERTIES JudgedInTime LockedOut
