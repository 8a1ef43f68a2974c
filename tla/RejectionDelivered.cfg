\* A blocked tool call polls while the operator rejects.
CONSTANTS
    r1 = r1
    r2 = r2
    h1 = h1
    h2 = h2
    Runs <- MCOneRun
    Handlers <- MCTwoHandlers
    SessionRuns <- MCOneRun
    BackgroundRuns <- MCNone
    MaxEdits = 0
    MaxCrashes = 0
    RepairMayFail = FALSE
SPECIFICATION Spec
INVARIANT RejectionReachesTool
CHECK_DEADLOCK FALSE
