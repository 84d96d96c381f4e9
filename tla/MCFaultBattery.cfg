SPECIFICATION MCSpec
CONSTANTS
    Stores = {s1}
    PDs = {p1, p2}
    NoPod = NoPod
    MaxRuns = 2
    MaxBatches = 1
INVARIANTS
    PassIsEarned
    OracleComplete
    BatteryInv
PROPERTIES
    LedgerSpec
