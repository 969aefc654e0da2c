SPECIFICATION Spec
CONSTANTS
    folder = folder
    inside = inside
    beside = beside
    Root = root
    Path = {folder, inside, beside}
    Parent <- MCParent
    Above <- MCAbove
    Res = 2
    Skew = 1
    Start = 4
    MaxTime = 7
    Excluded = {}
    Edits = {"write"}
    Quiet = TRUE
    Faults = TRUE
INVARIANTS
    ResumesTransfer
