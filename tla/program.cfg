SPECIFICATION Spec
CONSTANTS
    p1 = p1
    p2 = p2
    Process = {p1, p2}
    Folder = {"kernel"}
    Path <- MCPath
    UserDir = "user"
    FolderOf <- MCFolderOf
    Lines <- MCLines
    Disks <- MCDisks
    Tag <- MCTag
    PlusTag = {"2.0+cuda"}
    HasDigit = {"v2", "1.0", "2.0+cuda"}
    Packages <- MCPackages
    MaxCommit = 3
INVARIANTS
    TypeOK
    InstalledIsLasting
    TornOnlyByInterruption
    StartsAsInstalled
    ReportsOwnCode
    DistinctVersions
    LaterIsNewer
    InstalledImports
    SetupSettles
    ArchiveReportsCommit
SYMMETRY Sym
CHECK_DEADLOCK FALSE
