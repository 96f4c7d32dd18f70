SPECIFICATION FairSpec
CONSTANTS
    Hosts = {h1, h2}
    MaxId = 1
    MaxVersion = 1
    MaxFaults = 1
    MaxRestarts = 1
    MayHang = FALSE
    NoRow = NoRow
    NoSnapshot = NoSnapshot
    NoHost = NoHost
PROPERTIES
    CollectsEnd
    EventuallyCurrent
    EventuallyOffline
