\* Three objects, one failing thread creation.
CONSTANTS
    Thread = {t1, t2, t3}
    NoThread = NoThread
    MaxFaults = 1
SPECIFICATION FairSpec
INVARIANTS
    NoUseAfterDelete
    CountExact
    NoUseAfterDestroy
    JoinedOnce
PROPERTIES
    DestructorEnds
\* The owner need not post or destroy.
CHECK_DEADLOCK FALSE
