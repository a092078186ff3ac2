SPECIFICATION Spec
CONSTANTS
    NoRow = NoRow
    NoUser = NoUser
    Unset = Unset
    Null = Null
    Requests = {r1, r2, r3}
    UserIds <- MCUserIds
    Emails <- MCEmails
    Names <- MCNames
    Lower <- MCLower
    Passwords <- MCPasswords
    Digests <- MCDigests
    Unhashable <- MCUnhashable
    Digest <- MCDigest
    Dummy = "dummy"
    Index1 = "username"
    Index2 = "email"
    Calls <- NamingCalls
    InitialUsers <- OneAdmin
    Faults = {}
SYMMETRY Symmetry
INVARIANTS TypeOK UniqueKeys TransactionInv
PROPERTIES RegisterErrorJustified ConflictJustified
