SPECIFICATION Spec
CONSTANTS
    Workers = {w1, w2}
    Seeds = {}
    Classes <- MCClasses
    Imported <- MCImported
    References <- MCReferences
    MaxCrashes = 0
INVARIANT WorkersStartTogether
