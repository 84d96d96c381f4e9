SPECIFICATION MCFairSpec
CONSTANTS
    Stores = {s1}
    PDs = {p1, p2}
    NoPod = NoPod
    MaxRuns = 1
    MaxBatches = 2
PROPERTIES
    RunEnds
