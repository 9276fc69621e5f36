\* One failed read: does the program still end?
CONSTANTS
    IsDummy = FALSE
    QueLen = 1
    MaxBlocks = 2
    MaxCommands = 0
    MaxFaults = 1
SPECIFICATION FairSpec
PROPERTIES
    EndsUnlessStranded
\* main returns and the threads end.
CHECK_DEADLOCK FALSE
