SPECIFICATION FairSpec
CONSTANTS
    Job = {j1}
    Worker = {w1, w2}
    Client = {c1, c2}
    NoJob = NoJob
    First = "n1"
    Node = {"n1", "n2"}
    Successor <- Branching
    MaxRequests = 2
    MaxFaults = 1
CHECK_DEADLOCK FALSE
INVARIANTS
    OneWorkerPerJob
    EndIsTrue
PROPERTIES
    FinishedStaysFinished
    RunningEnds
