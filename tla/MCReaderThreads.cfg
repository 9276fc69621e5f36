\* Three blocks, pipes of two, and two failures: avant_run() is entered three times.
CONSTANTS
    HighWater = 2
    MaxBlocks = 3
    MaxFaults = 2
SPECIFICATION FairSpec
INVARIANTS
    DepthAccounting
    BindsOnce
    InOrder
    AtMostOneLate
PROPERTIES
    MainEnds
\* main returns and the threads end.
CHECK_DEADLOCK FALSE
