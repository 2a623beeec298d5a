SPECIFICATION Spec
CONSTANTS
    deep = deep
    Deep <- OneDeep
    MaxRetries = 3
    MaxAttempts = 3
    MaxActs = 2
INVARIANT InterruptedRestoreResumes
CHECK_DEADLOCK FALSE
