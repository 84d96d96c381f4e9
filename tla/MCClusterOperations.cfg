SPECIFICATION MCSpec
CONSTANTS
    Slots = {s1, s2}
    MaxBatches = 2
INVARIANTS
    LateBatches
    ColdStartWasCold
    LeftAloneOnEvidence
    OperationsInv
PROPERTIES
    LedgerSpec
