SPECIFICATION Spec
CONSTANTS
    c1 = c1
    c2 = c2
    h1 = h1
    h2 = h2
    h3 = h3
    i = i
    j = j
    Scans <- MCScans
    Hosts <- MCHosts
    Adapters <- MCAdapters
    Net <- MCNet
    Broadcasting <- MCBroadcasting
    Targets <- MCTargets
    Local = Local
    Backlogs <- MCBacklogs
    MaxTargets = 2
    Free = Free
INVARIANTS
    TypeOK
    PortOwned
    FoundRight
    PortFreeWithLock
PROPERTY
    ScansEnd
