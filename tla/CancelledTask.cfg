\* The status a task has after CancelTask returned.
CONSTANTS
    t1 = t1
    t2 = t2
    Tasks <- MCOneTask
    MaxCrashes = 0
SPECIFICATION Spec
INVARIANT CancelledStays
CHECK_DEADLOCK FALSE
