SPECIFICATION FairSpec
CONSTANTS
    NoRow = NoRow
    NoUser = NoUser
    Unset = Unset
    Null = Null
    Requests = {r1, r2}
    UserIds <- MCUserIds
    Emails <- MCEmails
    Names <- MCNames
    Lower <- MCLower
    Passwords <- MCPasswords
    Digests <- MCDigests
    Unhashable <- MCUnhashable
    Digest <- MCDigest
    Dummy = "dummy"
    Index1 = "email"
    Index2 = "username"
    Calls <- UpdateCalls
    InitialUsers <- TwoAdmins
    Faults = {"connection", "crash"}
PROPERTIES
    Answered LastAdminLostInRaces ColumnIsolation ReportsCommittedRow NoResurrection
    ImplementsDirectory
