CONSTANTS
    Ops = {o1}
    Requests = 2
    Tunnels = {1, 2}
    Started = {1}
    Conns = {c1}
    Losses = 1
    Callers = {u1, u2, u3}
    Entries = {1, 2}
    Nobody = Nobody
    Shells = {s1, s2}
    Hosts = {h1}
    Clients = {d1}
    MaxActive = 1
    MaxPerHost = 1
    MaxEvents = 2
    MaxFailures = 1
    Batch = 2
    Backlog = 2
    ChannelSize = 1
    PageSize = 1
    Target = 2
    Keys = {"k1", "k2"}
    MaxKeyChanges = 1
    MaxCalls = 2
    None = None
SPECIFICATION Spec
INVARIANTS ReadersMissNothing ConnectionsSafe
PROPERTIES TunnelsSafe ShellsSafe RemoteWorkEnds
CHECK_DEADLOCK FALSE
