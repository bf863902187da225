SPECIFICATION FairSpec
CONSTANTS
    Client = {c1}
    Writers = {c1}
    Ranges <- Ends
    Chunks = 1
    PageLen = 2
    ChunkPages = 2
    CommitLimit = 5
    MaxWrites = 2
    MaxFlushes = 1
    MaxFaults = 0
    Cancels = TRUE
CHECK_DEADLOCK FALSE
PROPERTIES
    WriteAtReturns
