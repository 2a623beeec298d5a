SPECIFICATION FairSpec
CONSTANTS
    Threads <- TwoThreads
    Pools <- BothPools
    MaxConcurrent <- OneSlot
    MaxQueued <- ShortQueues
INVARIANTS SlotsAreCounted TreesWithinBudget NoSignalAfterReap
PROPERTIES LeaksAreReported EveryCallReturns
CHECK_DEADLOCK FALSE
