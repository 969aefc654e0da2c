SPECIFICATION Spec
CONSTANTS
    s1 = s1
    s2 = s2
    h = h
    l = l
    Session = {s1}
    Home = {h}
    Label = {l}
    HomeOf <- MCHomeOf
    LabelOf <- MCLabelOf
    Options <- AnyOptions
    Talking = {s1}
    Faults = {"interrupt", "kill", "disconnect"}
    Window = 2
    Nobody = nobody
PROPERTIES
    SyncsAfterKernel
    NoOrphans
    EndsWithKernel
CHECK_DEADLOCK FALSE
