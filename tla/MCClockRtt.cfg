\* realtime-clock.c: rtt_us is the round-trip time.
SPECIFICATION Spec
CONSTANTS
    Callers = {enc}
    Worker = worker
    NoOne = noone
    Skew = 100
    Delays <- MCDelays
    Services <- MCServices
    SendTimes <- MCSendTimes
    GoodRtt = 20
    Samples = 2
    Period = 2
    CountMod = 2
INVARIANT RttCoversTheTrip
