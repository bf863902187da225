SPECIFICATION Spec
CONSTANTS
    Getter = {g1, g2}
    File = {f1, f2}
    Limit = 3
    Nodes = {1, 2}
    MaxCopies = 1
    MaxCrash = 1
    Proc = {p1, p2}
    Segment = {1, 12}
    Page = {0, 1}
    MaxTries = 2
    DataEnd = 5
    MaxSegments = 4
SYMMETRY Symmetric
CHECK_DEADLOCK FALSE
INVARIANTS
    DiskWithinLimit
    PendingIsFetched
    HeldHasData
    ReadIsCommitted
    QueryIsRight
PROPERTIES
    ImplementsStorage
