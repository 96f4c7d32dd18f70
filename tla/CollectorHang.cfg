SPECIFICATION FairSpec
CONSTANTS
    Hosts = {h1, h2}
    MaxId = 1
    MaxVersion = 0
    MaxFaults = 1
    MaxRestarts = 0
    MayHang = TRUE
    NoRow = NoRow
    NoSnapshot = NoSnapshot
    NoHost = NoHost
PROPERTY
    PollingGoesOn
