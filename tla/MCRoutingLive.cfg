SPECIFICATION LoadedSpec
CONSTANTS
    a = a
    b = b
    l1 = l1
    l2 = l2
    Entries <- MCEntries
    Ids <- MCEntries
    UniqueId <- MCUniqueId
    Locations = {l1, l2}
    NoLocation = NoLocation
    Snapshots <- BothWays
    NoSnapshot = NoSnapshot
    Free = Free
    MaxSetups <- Once
    MaxChanges = 3
PROPERTY
    SelectsFinish
CHECK_DEADLOCK FALSE
