SPECIFICATION Spec
CONSTANTS
    a = a
    b = b
    l1 = l1
    l2 = l2
    Entries <- MCEntries
    Ids <- MCEntries
    UniqueId <- MCUniqueId
    Locations = {l1, l2}
    NoLocation = NoLocation
    Snapshots <- OneWay
    NoSnapshot = NoSnapshot
    Free = Free
    MaxSetups <- SourceTwice
    MaxChanges = 1
INVARIANTS
    TypeOK
    CatalogMatchesLifecycle
    LocksHeldByCalls
    ShownOptionsFresh
PROPERTY
    RoutesToPublished
CHECK_DEADLOCK FALSE
