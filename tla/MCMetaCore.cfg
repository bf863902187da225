SPECIFICATION MCSpec
CONSTANTS
    Root = root
    NoId = NoId
    Id = {root, e1, e2}
    Name = {a, b}
    Reader = {r1}
    MaxVersion = 3
    MaxSize = 1
    NoObj = NoObj
    CoreVersion = 4
    Symlink = {}
    Slot = {1, 2, 3, 4, 5}
    Proc = {p1, p2}
    Op = {"create", "remove", "mirror", "move", "update", "clean"}
    Screened = TRUE
    MaxDepth = 1
    MaxOps = 3
SYMMETRY Symmetric
CHECK_DEADLOCK FALSE
INVARIANTS
    RefCountMatchesLinks
PROPERTIES
    GroupUnlinkIsFinal
    StoreSpec
