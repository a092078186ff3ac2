SPECIFICATION FairSpec
CONSTANTS
    NoRequest = NoRequest
    NoCall = NoCall
    Requests = {r1, r2, r3}
    Calls <- MCCalls
    PoolSize = 1
    MaxOverflow = 1
INVARIANT PoolInv
PROPERTIES AnswersJustified Served
