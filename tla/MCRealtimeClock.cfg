\* One encode thread and the worker; two of the three samples, a period of two
\* wake-ups, counters that wrap at 2.
SPECIFICATION FairSpec
CONSTANTS
    Callers = {enc}
    Worker = worker
    NoOne = noone
    Skew = 100
    Delays <- MCDelays
    Services <- MCServices
    SendTimes <- MCSendTimes
    GoodRtt = 20
    Samples = 2
    Period = 2
    CountMod = 2
INVARIANTS
    MutualExclusion
    NoUseAfterFree
    NothingLeaks
    BestOfRound
PROPERTIES
    SyncedStaysCorrected
    DestroyReturns
    GettersReturn
    KeepsSynchronising
    ImplementsService
