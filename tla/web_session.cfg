SPECIFICATION FairSpec
CONSTANTS
    Accounts <- MCAccounts
    Admins <- MCAdmins
    Slots <- MCSlots
    NoUser = "nobody"
    NoCall = NoCall
INVARIANTS
    TypeOK
    RowsOfShownAccount
    IdentityAgrees
PROPERTY
    FormsRecover
