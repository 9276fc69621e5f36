\* All four copies of the loop, every stream of eight bytes, every division into blocks.
CONSTANTS
    Copies <- MCCopies
    WordLen = 2
    HulMarkLen = 2
    NSpill = 2
    StreamLen = 8
    BlockLens <- MCAnyBlock
SPECIFICATION FairSpec
INVARIANTS
    Contiguous
    AllWritten
    OnlyShortSpillsMissed
    ClosedFiles
PROPERTIES
    LoopEnds
