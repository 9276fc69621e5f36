\* A buffer of two bytes, streams of four and five, one failing call.
CONSTANTS
    BufSize = 2
    StreamLen = 4
    Delims <- MCDelims
    MaxLen = 3
    MaxGiven = 5
    MaxFaults = 1
SPECIFICATION Spec
INVARIANTS
    OutputInOrder
    AcceptedNotLost
    InputInOrder
    GcountExact
    EofIsTheEnd
\* The user destroys the object.
CHECK_DEADLOCK FALSE
