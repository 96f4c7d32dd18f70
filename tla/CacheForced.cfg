SPECIFICATION Spec
CONSTANTS
    Containers = {c1}
    Images = {v1, latest}
    Semantic = {v1}
    Requests = {r1, r2}
    MaxVersion = 1
    Poll = Poll
    NoRow = NoRow
    NoImage = NoImage
SYMMETRY Symmetry
INVARIANT
    RefreshForcesChecks
