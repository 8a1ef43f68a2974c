CONSTANTS
    Writers = {o1, o2}
    MaxBytes = 3
    MaxLines = 2
    Providers = {p1, p2}
    Requests = {r1, r2}
    Reloaders = {r1}
    MaxWrites = 2
    MaxReloads = 1
    i1 = i1
    i2 = i2
    i3 = i3
    HostIds = {i1, i2, i3}
    HostNames = {"x", "y", "z"}
    long = long
    h1 = h1
    h2 = h2
    HostRequests = {long, h1, h2}
    MaxJumps = 2
    HostRuns = 2
    NameOf <- MCNameOf
    Scope <- MCScope
    PackageSize = 2
    RowIds = {1, 2, 3}
    MaxTime = 2
    PageLimit = 1
    ScanLimit = 2
    Names = {a, b}
    Versions = {1, 2}
    MaxChanges = 2
    MaxCrashes = 1
    MaxBackups = 3
    MaxSize = 1
    MaxRecords = 6
    MaxArchives = 1
    MaxRestarts = 1
    MaxFaults = 1
    Size = 3
    Limit = 2
    ClientLimit = 3
    MaxEntries = 6
    MaxFilters = 2
    PreserveTurns = 2
    HistoryBudget = 4
    MaxRows = 7
    Letters = {"[", "p", "e"}
    MaxText = 4
    MaxChunk = 2
    MaxOutputs = 2
    MaxResults = 3
    MaxContent = 7
    AnswerBytes = 20
    Base = 3
    PerResult = 2
    Slack = 1
    None = None
SPECIFICATION Spec
INVARIANT RemoteEditIsTheApprovedOne
CHECK_DEADLOCK FALSE
