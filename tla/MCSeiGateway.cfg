\* One stream and two connections that come and go; write buffers of one message.
SPECIFICATION Spec
CONSTANTS
    Streams = {a}
    Conns = {x, y}
    Watched = a
    NoConn = noconn
    None = none
    Versions <- MCVersions
    Serials = 3
    High = 1
    QueueBound = 1
INVARIANTS
    RegistryTracks
PROPERTY NoGap
