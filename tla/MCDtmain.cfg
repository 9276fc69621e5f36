\* One failure, three blocks and two commands, hence up to four sockets a side.
CONSTANTS
    NTasks = 2
    Avants <- MCAvants
    IsDummy = FALSE
    QueLen = 2
    MaxBlocks = 3
    MaxCommands = 2
    MaxFaults = 1
SPECIFICATION DtFairSpec
INVARIANTS
    InitQuiescent
    NoFalseAlarm
    WildOnlyIfOverlooked
    DepthAccounting
    OneFate
PROPERTIES
    OutcomeIsFinal
    ImplementsControl
    StartIsDecided
    DrainedBeforeLeaving
    Implements
    ProgramEnds
\* main returns and the threads end.
CHECK_DEADLOCK FALSE
