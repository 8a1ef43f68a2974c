\* One task; the interleavings of its goroutine with CancelTask, the operator,
\* shutdown and a crash.
CONSTANTS
    t1 = t1
    t2 = t2
    Tasks <- MCOneTask
    MaxCrashes = 1
SPECIFICATION FairSpec
INVARIANTS
    CancelReachesExecution
    TaskAgreesWithRun
    ActiveRowHasOwner
PROPERTIES
    DecidedTaskEnds
CHECK_DEADLOCK FALSE
