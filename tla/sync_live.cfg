SPECIFICATION Spec
CONSTANTS
    folder = folder
    inside = inside
    beside = beside
    Root = root
    Path = {folder, inside, beside}
    Parent <- MCParent
    Above <- MCAbove
    Res = 2
    Skew = 1
    Start = 4
    MaxTime = 7
    Excluded = {beside}
    Edits = {"write", "mkdir", "remove"}
    Quiet = FALSE
    Faults = TRUE
INVARIANTS
    StampNotNewer
    ExcludedStaysLocal
PROPERTIES
    OneWay
    ShallowScope
    SyncReturns
