SPECIFICATION Spec
CONSTANTS
    Containers = {c1, c2}
    Images = {latest}
    Semantic = {}
    Requests = {r1, r2}
    MaxVersion = 2
    Poll = Poll
    NoRow = NoRow
    NoImage = NoImage
SYMMETRY Symmetry
INVARIANT
    InventoryIsRefreshed
