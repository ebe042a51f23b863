SPECIFICATION MCSpec
CONSTANTS
    None = None
    Children <- MCChildren
    SuiteOutputs <- MCSuiteOutputs
    MaxDepth = 2
    MaxElements = 6
    Names <- MCNames
    OldName = "old"
    Spaced = {"b"}
    Formats = {"git", "plain"}
    Looks = {"text", "header", "marks"}
    NoPath = "none"
    MaxHunks = 2
    MaxSpan = 3
    MaxDistance = 2
    Disappeared = {o1, o2, o3}
    Appeared = {n1, n2}
    MaxTests = 3
    MaxExecutions = 2
    MaxAliases = 2
    MaxMeanwhile = 1
    MaxOpen = 0
    Times = {1, 2}
    Limit = 1
    Since = 2
    Invocations <- MCInvocations
    MaxInvocations = 2
    MaxClock = 1
    Rates = {0, 1}
    MaxCommentRows = 2
    MaxFound = 3
INVARIANTS
    CompleteCasesSurvive
    OutputIsNearest
    FilesAreReported
    CleanFilesAreExact
    AcceptedIsClosest
    HistoriesAreWhole
    EveryTestOnce
    DoubtIsSurfaced
    QuietPassIsExact
    CostHasItsAnswers
    SummaryAddsUp
    NothingWorseIsHidden
CHECK_DEADLOCK FALSE
