SPECIFICATION Spec
CONSTANTS
    folder = folder
    inside = inside
    beside = beside
    Root = root
    Path = {folder, inside, beside}
    Parent <- MCParent
    Above <- MCAbove
    Res = 2
    Skew = 1
    Start = 4
    MaxTime = 6
    Excluded = {beside}
    Edits = {"write"}
    Quiet = TRUE
    Faults = FALSE
INVARIANTS
    ExcludedNotFetched
