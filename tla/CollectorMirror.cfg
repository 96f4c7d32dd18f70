SPECIFICATION Spec
CONSTANTS
    Hosts = {h1, h2}
    MaxId = 1
    MaxVersion = 2
    MaxFaults = 1
    MaxRestarts = 1
    MayHang = TRUE
    NoRow = NoRow
    NoSnapshot = NoSnapshot
    NoHost = NoHost
PROPERTY
    MirrorSpec
