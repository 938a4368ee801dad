SPECIFICATION Spec
CONSTANTS
    Shapes <- MCShapes
    Legacy <- MCLegacy
    NoData = NoData
    MaxSetups = 2
    MaxChanges = 1
CHECK_DEADLOCK FALSE
INVARIANTS
    TypeOK
    IdsDistinct
    MigrationIdempotent
    RightPort
    AvailabilityFollows
PROPERTIES
    IdsStay
    NewOnlyIfLate
