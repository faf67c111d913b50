\* Sorted captures of up to four frames, with equal stamps too: intervals of 1, 2 and
\* 3, and <<0, 3, 6>> against itself one later.
SPECIFICATION Spec
CONSTANTS
    Stamps = {0, 1, 3, 4, 6, 7}
    MaxFrames = 4
    Captures <- MCCaptures
    W_US = 3
    Slack = 1
    MinPairs = 3
    None = None
INVARIANTS
    NearestPaired
    SmallShiftMeasured
\* The report is the end.
CHECK_DEADLOCK FALSE
