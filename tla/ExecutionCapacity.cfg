\* Three operations on two hosts, each a command or a transfer; two global
\* slots and one per host.
CONSTANTS
    o1 = o1
    o2 = o2
    o3 = o3
    Ops <- MCOps
    Hosts <- MCHosts
    GlobalLimit = 2
    HostLimit = 1
SPECIFICATION FairSpec
INVARIANTS
    TypeOK
    SlotsAccounted
    CapacityRespected
PROPERTIES
    WaitingEnds
CHECK_DEADLOCK FALSE
