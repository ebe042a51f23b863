SPECIFICATION Spec
CONSTANTS
    WindowExecutions = 3
    MinObservations = 2
    AlphaNum = 1
    AlphaDen = 2
    RateNum = 1
    RateDen = 4
    PassStreak = 2
    FailStreak = 1
    MainBranch = "main"
    QuarantineNum = 1
    QuarantineDen = 4
    QuarantineMinObservations = 2
    RecentLimit = 2
    Tests = {t1}
    Procs = {p1}
    Kinds = {"pass", "fail", "skip", "rerun", "infra"}
    Causes = {"UNKNOWN", "REAL_REGRESSION"}
    TtlDays = 1
    CleanRuns = 2
    MaxRuns = 3
    MaxRows = 1
INVARIANTS
    OpenedOnEvidence
    ClosedForAReason
