SPECIFICATION MCSpec
CONSTANTS
    Names = {n1, n2}
    Duplicates = 1
    Workers = {w1, w2}
    Sizes = {2}
    MaxRounds = 2
SYMMETRY Symmetry
INVARIANTS
    PoolInv
    MismatchExplained
