\* Two majors, two functions; every choice of what is installed and exported.
SPECIFICATION FairSpec
CONSTANTS
    MinMajor = 60
    MaxMajor = 61
    Slots = 2
INVARIANTS
    LoadedIsWhole
    NothingDangles
    FailureLeavesNothing
PROPERTY RetrySucceeds
\* Once the table is bound, further calls change nothing.
CHECK_DEADLOCK FALSE
