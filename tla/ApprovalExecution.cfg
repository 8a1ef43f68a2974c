\* One foreground run; two handlers compete to approve, reject or stop it.
CONSTANTS
    r1 = r1
    r2 = r2
    h1 = h1
    h2 = h2
    Runs <- MCOneRun
    Handlers <- MCTwoHandlers
    SessionRuns <- MCOneRun
    BackgroundRuns <- MCNone
    MaxEdits = 1
    MaxCrashes = 1
    RepairMayFail = TRUE
SPECIFICATION Spec
SYMMETRY HandlerSymmetry
INVARIANTS
    TypeOK
    ExecutedOnceAndOnlyIfAuthorized
    DecisionGovernsRun
    BindingHolds
    LiveExecutionsRegistered
    ApprovedCallCarriesResult
    StopSettlesPending
PROPERTIES
    FinalStatusStays
    NothingStartsAfterShutdown
    KeepsPromise
CHECK_DEADLOCK FALSE
