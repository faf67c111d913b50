\* sei-payload.h: a stamp marked CLOCK_NTP comes from a synchronised clock.
SPECIFICATION Spec
CONSTANTS
    MCFrames = 4
    Frames = 4
    Cap = 2
    Pts <- MCPts
    Times <- MCTimes
    Absent = absent
    Depth = 3
    SeqMod = 2
    PacketSizes <- MCPacketSizes
    Candidates <- MCCandidates
    SeiSize = 1
    HeaderSize = 2
    InitialBuffer = 3
INVARIANT MarkedIsCorrected
