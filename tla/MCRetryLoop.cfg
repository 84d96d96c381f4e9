\* The constant of the source: NODE_MAX_RETRYING_TIMES = 10.
SPECIFICATION MCSpec
CONSTANT MaxRetries = 10
INVARIANTS
    LoopInv
    DeadlineBudget
    InterruptNotSwallowed
PROPERTIES
    NoAttemptAfterInterrupt
    CallEnds
    PromiseSpec
