SPECIFICATION Spec
CONSTANTS
    Workers = {w1}
    Seeds = {s1}
    Classes <- MCClasses
    Imported <- MCImported
    References <- MCReferences
    MaxCrashes = 0
INVARIANT SeedCanQuery
