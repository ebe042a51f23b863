SPECIFICATION PassSpec
CONSTANTS
    MaxTests = 3
    MaxExecutions = 2
    MaxAliases = 2
    MaxMeanwhile = 0
    MaxOpen = 2
    Times = {1, 2}
    Limit = 1
    Since = 2
PROPERTIES
    QuarantinedUnderOneName
