SPECIFICATION FairSpec
CONSTANTS
    t1 = t1
    t2 = t2
    t3 = t3
    Tabs <- ThreeTabs
    InitialTabs <- TwoTabs
INVARIANTS WaitsForDrains CancelledReadsReturn
PROPERTIES QuitIsDecidedClear WritesKeepTheirTab QuitSettles
CHECK_DEADLOCK FALSE
