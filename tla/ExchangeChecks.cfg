\* One machine, a registry of six tags that changes once, two generated keys.
SPECIFICATION Spec
CONSTANTS
    Rows = {machine}
    Machine = machine
    EnvKeys = {envKey}
    MaxKeys = 2
    Unset = Unset
    Invalid = Invalid
    Absent = Absent
    Short = Short
    Down = Down
    NoSeal = NoSeal
    Tags = {"1.8", "v1.8.0", "1.9", "1.10", "2.0-rc", "latest"}
    Parts <- MCParts
    Dotted = {"reg.example", "docker.io", "index.docker.io", "registry-1.docker.io"}
    Images <- MCImages
    Digests = {"sha256:a", "sha256:b"}
    PageSize = 3
    MaxChanges = 1
    Gone = Gone
    NoTag = NoTag
    NoDigest = NoDigest
    NoImage = NoImage
    Catalogs <- MCCatalogs
    MaxReports = 2
    Copiers = {stdout, stderr}
    MaxOutput = 2
    Networks <- MCNetworks
SYMMETRY CopierSymmetry
INVARIANTS
    TypeOK
    CredentialsReadable
    SectionsAreOwn
    OfferIsNewest
    AsksOwnRepository
    DigestIsOfOffer
    VerdictHolds
    OneReport
    QuietAfterReturn
    CompleteIsLast
