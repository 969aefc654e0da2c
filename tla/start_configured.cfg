SPECIFICATION Spec
CONSTANTS
    s1 = s1
    s2 = s2
    h = h
    l = l
    Session = {s1, s2}
    Home = {h}
    Label = {l}
    HomeOf <- MCHomeOf
    LabelOf <- MCLabelOf
    Options <- FilesOnly
    Talking = {}
    Faults = {}
    Window = 1
    Nobody = nobody
INVARIANTS
    Configured
CHECK_DEADLOCK FALSE
