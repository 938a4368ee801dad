SPECIFICATION Spec
CONSTANTS
    d1 = d1
    r1 = r1
    r2 = r2
    a1 = a1
    a2 = a2
    n1 = n1
    x1 = x1
    x2 = x2
    y = y
    s1 = s1
    s2 = s2
    Dialogs <- MCDialogs
    Repairs <- CardsRepairs
    IPs <- CardsIPs
    Names <- MCNames
    Resolve <- MCResolve
    Devices <- MCDevices
    Serial <- MCSerial
    NoSerial = NoSerial
    Timelines <- CardsTimelines
    NoHost = NoHost
    NoUid = NoUid
    MaxOpen = 3
    MaxRemovals = 0
INVARIANT
    ConfiguredHaveNoCard
