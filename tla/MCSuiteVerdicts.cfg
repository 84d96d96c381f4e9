\* Two runs of any section; answers: one id, the same id twice, an error.
SPECIFICATION MCSpec
CONSTANTS
    Backends = {"rocksdb", "hstore"}
    Titles <- MCTitles
    Order <- MCOrder
    Steps <- MCSteps
    Selections <- MCSelections
    Answers <- MCAnswers
    Gold <- MCGold
    Fresh <- MCFresh
    MaxPages = 2
    MaxRuns = 2
INVARIANTS
    TypeOK
    InlineAgrees
    CleanMeansSame
    UnionIsComplete
    RunsStayIdempotent
