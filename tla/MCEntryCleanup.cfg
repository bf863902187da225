CONSTANTS
    Id = {root, e1}
    Name = {a, b}
    Root = root
    Reader = {}
    NoId = NoId
    MaxVersion = 4
    MaxSize = 0
    HardLinks = TRUE
    QueueCap = 1
    MaxFaults = 1
SPECIFICATION Spec
INVARIANTS
    
    DestroyedHasNoData
PROPERTIES
    OrphanIsDestroyed
