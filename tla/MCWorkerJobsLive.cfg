SPECIFICATION FairSpec
CONSTANTS
    c1 = c1
    c2 = c2
    c3 = c3
    Conns <- TwoConns
    MaxGitJobs = 1
    MaxScanJobs = 1
    MaxWaiting = 1
PROPERTIES RequestsEnd StoppedDrains
CHECK_DEADLOCK FALSE
