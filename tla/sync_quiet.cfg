SPECIFICATION Spec
CONSTANTS
    folder = folder
    inside = inside
    beside = beside
    Root = root
    Path = {folder, inside, beside}
    Parent <- MCParent
    Above <- MCAbove
    Res = 2
    Skew <- MCSkew
    Start = 4
    MaxTime = 7
    Excluded = {}
    Edits = {"write", "mkdir", "socket"}
    Quiet = TRUE
    Faults = TRUE
INVARIANTS
    TypeOK
    Converged
    SkippedIsDelivered
PROPERTIES
    NewestWins
    RaisesOnlyOnConflict
