SPECIFICATION FairSpec
CONSTANTS
    WindowExecutions = 6
    MinObservations = 2
    AlphaNum = 1
    AlphaDen = 2
    RateNum = 1
    RateDen = 4
    PassStreak = 2
    FailStreak = 1
    MainBranch = "main"
    QuarantineNum = 1
    QuarantineDen = 4
    QuarantineMinObservations = 2
    RecentLimit = 4
    Tests = {t1}
    Procs = {p1, p2}
    Kinds = {"pass", "fail"}
    Causes = {"UNKNOWN"}
    TtlDays = 1
    CleanRuns = 1
    MaxRuns = 2
    MaxRows = 2
INVARIANTS
    TypeOK
    AtMostOneOpen
PROPERTIES
    ClosedIsFinal
    ImplementsLifecycle
    NoGraveyard
