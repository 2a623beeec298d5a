SPECIFICATION Spec
CONSTANTS
    c1 = c1
    c2 = c2
    c3 = c3
    Conns <- ThreeConns
    MaxGitJobs = 2
    MaxScanJobs = 1
    MaxWaiting = 1
SYMMETRY Interchangeable
INVARIANTS CountersAreExact NoJobOutlivesItsRequest FramesAreTrue
CHECK_DEADLOCK FALSE
