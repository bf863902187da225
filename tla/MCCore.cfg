SPECIFICATION Spec
CONSTANTS
    Root = root
    NoId = NoId
    NoObj = NoObj
    Id = {root, e1, e2, e3}
    Symlink = {e3}
    Name = {a, b}
    Reader = {1, 2, 3, 4, 5}
    Proc = {p1}
    Op = {"stat", "create", "remove", "mirror", "move", "update", "open", "append", "flush", "clean"}
    Screened = TRUE
    MaxVersion = 4
    MaxSize = 0
    MaxDepth = 2
    MaxOps = 4
SYMMETRY Symmetry
INVARIANTS
    IdleCachesAreCurrent
    IdleLinkedIsReachable
