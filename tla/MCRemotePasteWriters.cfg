SPECIFICATION FairSpec
CONSTANTS
    file = file
    replay = replay
    Leases <- TwoLeases
    Replays <- OneReplay
    MaxLeases = 2
    InRepo = TRUE
    ResultsFit = TRUE
    MaxEdits = 1
    MaxOthers = 1
INVARIANTS ReadyIsUntouched AnswersAreTrue WriteSpendsToken OneWriterPerRepo
           PermitsAreCounted
PROPERTIES NoPasteOverUnseenPaste ImplementsPasteOnce LocksAreReleased
           UnknownSettles
CHECK_DEADLOCK FALSE
