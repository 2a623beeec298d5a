SPECIFICATION Spec
CONSTANTS
    file = file
    replay = replay
    Leases <- TwoLeases
    Replays <- OneReplay
    MaxLeases = 1
    InRepo = TRUE
    ResultsFit = FALSE
    MaxEdits = 1
    MaxOthers = 1
INVARIANT LandedWriteIsReported
CHECK_DEADLOCK FALSE
