\* Histories of five executions of which the window keeps four: two branches and none,
\* every kind of row, commits revisited in any order.
CONSTANTS
    WindowExecutions = 4
    MinObservations = 2
    AlphaNum = 3
    AlphaDen = 10
    RateNum = 3
    RateDen = 10
    PassStreak = 1
    FailStreak = 2
    MainBranch = "main"
    MaxRows = 5
    MaxOdd = 1
    Shas = {1, 2, 3, 4}
    Kinds = {"pass", "fail", "skip", "platform", "rerun"}
    Branches = {"main", "dev", ""}
    Attempts = {1}
    Unrelated = {TRUE, FALSE}
SPECIFICATION Spec
INVARIANTS
    DivergenceWins
    RegressionIsOneTransition
    DivergenceRateIsWeightedShare
    FlakyIsBacked
    CrossCommitEvidenceIsWeak
PROPERTIES
    SkipsCarryNoEvidence
    CleanCommitNeverRaisesRate
CHECK_DEADLOCK FALSE
