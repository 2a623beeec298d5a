SPECIFICATION FairSpec
CONSTANTS
    deep = deep
    Deep <- OneDeep
    MaxRetries = 3
    MaxAttempts = 3
    MaxActs = 4
INVARIANTS ShowsItsFolder ScanResumes
PROPERTIES ClosedStaysClosed FailedIsRetried
CHECK_DEADLOCK FALSE
