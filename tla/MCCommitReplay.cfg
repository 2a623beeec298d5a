SPECIFICATION Spec
CONSTANTS
    d = d
    f = f
    g = g
    o = o
    NoPath = NoPath
    Paths <- FewPaths
    Above <- FoldersOf
    Starts <- SomeStarts
    Payloads <- SomePayloads
    MaxEdits = 1
INVARIANTS PreviewIsWhatHappens RefusalTouchesNothing HistoryIsReported
PROPERTIES OthersAreKept CommitsAreExact
CHECK_DEADLOCK FALSE
