SPECIFICATION Spec
CONSTANTS
    Hosts = {h1, h2}
    MaxId = 1
    MaxVersion = 1
    MaxFaults = 0
    MaxRestarts = 0
    MayHang = FALSE
    NoRow = NoRow
    NoSnapshot = NoSnapshot
    NoHost = NoHost
INVARIANT
    OwnReports
