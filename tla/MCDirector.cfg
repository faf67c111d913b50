\* Two interchangeable streams, stamps up to 3 in any order, a lag of 1, queues of
\* three frames; cfgs, keyframes, errors and reconnections in any order.
SPECIFICATION Spec
CONSTANTS
    Streams = {a, b}
    LEAD = 2
    PRESENT_LAG = 1
    CACHE = 2
    ACCEL = 2
    Elapsed <- MCElapsed
    QueueCap = 3
    MaxRt = 3
    MaxConsumed = 4
    MaxPending = 1
CONSTRAINT Configured
VIEW Relevant
SYMMETRY Interchangeable
INVARIANTS
    TypeOK
    FastIsCovered
    KeyframeFirst
PROPERTIES
    NeverBack
    SlowestLeads
    FrameLock
