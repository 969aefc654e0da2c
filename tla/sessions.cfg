SPECIFICATION Spec
CONSTANTS
    c1 = c1
    c2 = c2
    c3 = c3
    h1 = h1
    h2 = h2
    h3 = h3
    t1 = t1
    t2 = t2
    Client = {c1, c2, c3}
    Host = {h1, h2, h3}
    Tunnel = {t1, t2}
    Nobody = nobody
    Dialog = TRUE
    Entry = {"sync", "start", "install", "library"}
    Routes <- MCRoutes
    Keys = {"none", "plain", "locked"}
INVARIANTS
    TypeOK
    FollowsRoute
    UnlocksKeyOnce
    NoOrphanConnection
    JumpOutlives
    BlindOnlyAfterRefusal
    EntryReleases
    ExitCodeOfSync
SYMMETRY Alike
CHECK_DEADLOCK FALSE
