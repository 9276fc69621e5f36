\* Two detectors, three blocks; one process is killed and one call fails, which
\* may end another, and there is a third fe to start.
CONSTANTS
    Fronts = {f1, f2}
    PipeLen = 1
    WireLen = 1
    MaxBlocks = 3
    MaxStarts = 3
    MaxKills = 1
    MaxFaults = 1
SPECIFICATION FairSpec
INVARIANTS
    GapOnlyAtRestart
PROPERTIES
    Implements
    Delivered
    FrontEnds
\* The bounds end every behaviour.
CHECK_DEADLOCK FALSE
