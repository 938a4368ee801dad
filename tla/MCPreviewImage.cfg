SPECIFICATION Spec
CONSTANTS
    v1 = v1
    v2 = v2
    Viewers <- MCViewers
    NoFrame = NoFrame
    Free = Free
    CacheSeconds = 2
    MaxTime = 6
SYMMETRY Symmetry
INVARIANTS
    TypeOK
    OneFetch
    NoFrameAcrossOutage
PROPERTIES
    AnswersAreRecent
    FetchesThrottled
