SPECIFICATION DiffSpec
CONSTANTS
    Names <- MCNames
    OldName = "old"
    Spaced = {}
    Formats = {"git"}
    Looks = {"text", "header", "marks"}
    NoPath = "none"
    MaxHunks = 2
    MaxSpan = 3
INVARIANTS
    ChangedLinesAreExact
CHECK_DEADLOCK FALSE
