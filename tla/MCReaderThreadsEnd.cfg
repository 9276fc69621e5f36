\* No failure: may the connection be gone when avant uses it?
CONSTANTS
    HighWater = 2
    MaxBlocks = 3
    MaxFaults = 0
SPECIFICATION Spec
INVARIANTS
    ConnectionExists
\* main returns and the threads end.
CHECK_DEADLOCK FALSE
