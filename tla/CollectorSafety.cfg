SPECIFICATION Spec
CONSTANTS
    Hosts = {h1, h2}
    MaxId = 2
    MaxVersion = 0
    MaxFaults = 1
    MaxRestarts = 0
    MayHang = FALSE
    NoRow = NoRow
    NoSnapshot = NoSnapshot
    NoHost = NoHost
SYMMETRY HostSymmetry
INVARIANTS
    TypeOK
    OneCollectPerMachine
    OwnReportsUnlessReissued
    StatusMatchesInventory
