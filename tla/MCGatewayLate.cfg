\* sei_gateway.py: a client that connects late still gets the decoder config.
SPECIFICATION Spec
CONSTANTS
    Streams = {a}
    Conns = {x}
    Watched = a
    NoConn = noconn
    None = none
    Versions <- MCVersions
    Serials = 1
    High = 1
    QueueBound = 1
INVARIANT LateClientConfigured
