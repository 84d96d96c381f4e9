SPECIFICATION MCFairSpec
CONSTANTS
    Kinds <- AllKinds
    MaxScenarios = 1
    MaxSamples = 2
    MaxBatches <- Rounds
    Signals <- OwnSignal
INVARIANTS
    OutageWasReal
    OnlyLastBatchForgotten
    WatchInv
PROPERTIES
    ScenarioEnds
