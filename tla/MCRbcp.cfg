\* Up to five requests, and just enough ids for them.
CONSTANTS
    SeqLen = 3
    IdLimit = 5
SPECIFICATION FairSpec
INVARIANTS
    InStep
    FewLate
PROPERTIES
    ProgramEnds
\* The program ends.
CHECK_DEADLOCK FALSE
