\* Two containers that come and go, one operation, one failure.
SPECIFICATION FairSpec
CONSTANTS
    N = 2
    MaxChanges = 1
    MaxOps = 1
    MaxFaults = 1
    MaxAsks = 2
INVARIANTS
    TypeOK
    OperationIsShown
    RefreshForgets
PROPERTIES
    RowsAreOwn
    PageSettles
