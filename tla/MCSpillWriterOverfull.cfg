\* be's loop on blocks of three words.
CONSTANTS
    Copies <- MCBe
    WordLen = 2
    HulMarkLen = 2
    NSpill = 2
    StreamLen = 8
    BlockLens <- MCThreeWords
SPECIFICATION Spec
INVARIANTS
    FilesHoldNSpill
