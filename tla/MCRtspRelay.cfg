\* Two bytes each way; recv may return both, a send buffer has room for one.
SPECIFICATION FairSpec
CONSTANTS
    Items = 2
    RoomIn = 2
    RoomOut = 1
INVARIANT EofIsTrue
PROPERTIES
    Transparent
    TearsDown
CHECK_DEADLOCK FALSE
