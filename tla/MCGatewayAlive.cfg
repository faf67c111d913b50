\* Two streams, whose cfgs are resent while the cache grows; no serial numbers.
SPECIFICATION FairSpec
CONSTANTS
    Streams = {a, b}
    Conns = {x}
    Watched = a
    NoConn = noconn
    None = none
    Versions <- MCVersions
    Serials = 1
    High = 1
    QueueBound = 1
PROPERTY BroadcastReturns
