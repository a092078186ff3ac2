SPECIFICATION FairSpec
CONSTANTS
    Workers = {w1, w2}
    Seeds = {s1}
    Classes <- MCClasses
    Imported <- MCImported
    References <- MCReferences
    MaxCrashes = 1
INVARIANTS TypeOK WholeClasses ServesWithTables
PROPERTIES FailsOnlyInRaces WorkersServe
