SPECIFICATION FairSpec
CONSTANTS
    Number = {n1}
    Project = {p}
    NoProject = NoProject
    Null = Null
    Other = {}
    Addr = {a}
    Chain = {c1}
    Lookup = {l1, l2}
    User = User
    None = None
    HasKey = TRUE
INVARIANTS UpgradeIsSound RowsKept CacheIsTable
PROPERTIES UserAbiStands VerifiedIsFound
CHECK_DEADLOCK FALSE
