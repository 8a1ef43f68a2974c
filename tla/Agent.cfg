CONSTANTS
    c1 = c1
    c2 = c2
    Calls = {c1, c2}
    Kinds <- MCKinds
    Turns = {1, 2}
    MaxFaults = 1
    Workers = {w1, w2}
    Urls = {"u", "v"}
    MaxRefreshes = 1
    Approvals = {a1}
    MaxRetries = 2
    Slots = 1
    Sems = 1
    Callers = {p1, p2}
    Queries = {"q"}
    WebSlots = 1
    MaxFlights = 2
    MaxSaves = 1
    Readers = {r1}
    MaxRuns = 2
    MaxEvents = 2
    ToolRequests = {m1}
    MaxCommands = 2
    MaxConnects = 1
    MaxCrashes = 1
    Letters = {"[", "p", "e"}
    Markers <- MCMarkers
    MaxText = 4
    MaxChunk = 2
    MaxOutputs = 2
    Buffer = 1
SPECIFICATION Spec
INVARIANTS ToolCallsRecorded ClientsMissNothing OutsideCallsSafe
PROPERTIES ExplanationsSafe AgentWorkEnds
CHECK_DEADLOCK FALSE
