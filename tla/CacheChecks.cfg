SPECIFICATION Spec
CONSTANTS
    Containers = {c1, c2}
    Images = {v1, latest}
    Semantic = {v1}
    Requests = {r1, r2}
    MaxVersion = 2
    Poll = Poll
    NoRow = NoRow
    NoImage = NoImage
SYMMETRY Symmetry
INVARIANTS
    TypeOK
    VerdictIsOwn
    RefreshIsForcing
    DoneIsShown
