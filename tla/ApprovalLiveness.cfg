\* One background run, which CancelTask may cancel before or after it starts;
\* the process lives.
CONSTANTS
    r1 = r1
    r2 = r2
    h1 = h1
    h2 = h2
    Runs <- MCOneRun
    Handlers <- MCTwoHandlers
    SessionRuns <- MCOneRun
    BackgroundRuns <- MCOneRun
    MaxEdits = 0
    MaxCrashes = 0
    RepairMayFail = FALSE
SPECIFICATION FairSpec
PROPERTIES
    ApprovedRunEnds
    DecisionResumesCall
CHECK_DEADLOCK FALSE
