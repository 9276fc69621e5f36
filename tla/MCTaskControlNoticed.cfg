\* A failed initialisation must keep main from starting the run.
CONSTANTS
    NTasks = 2
    Avants <- MCAvants
    IsDummy = FALSE
SPECIFICATION Spec
INVARIANTS
    FailureNoticed
\* main returns and the threads end.
CHECK_DEADLOCK FALSE
