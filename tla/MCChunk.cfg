SPECIFICATION MCSpec
CONSTANTS
    Reader = {r1, r2}
    Size = 4
    PageLen = 2
    ChunkPages = 2
    InitRanges <- MCInitRanges
    WriteRanges <- MCWriteRanges
    QueueCap = 1
    Setting <- MCSetting
    Client = {c1}
    Writers = {c1}
    Ranges <- Ends
    Chunks = 1
    CommitLimit = 5
    MaxWrites = 2
    MaxFlushes = 1
    MaxFaults = 1
    Cancels = FALSE
SYMMETRY Symmetric
CHECK_DEADLOCK FALSE
INVARIANTS
    
    
    UnheldPageIsTracked
    
    SyncedIsStored
