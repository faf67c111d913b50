\* Four frames through a codec that holds three and a ring of two slots: entries
\* are dropped while their frames are pending; the sequence number wraps;
\* the output buffer must grow for the large packets.
SPECIFICATION Spec
CONSTANTS
    MCFrames = 4
    Frames = 4
    Cap = 2
    Pts <- MCPts
    Times <- MCTimes
    Absent = absent
    Depth = 3
    SeqMod = 2
    PacketSizes <- MCPacketSizes
    Candidates <- MCCandidates
    SeiSize = 1
    HeaderSize = 2
    InitialBuffer = 3
INVARIANTS
    StampOfOwnFrame
    UnmarkedIsLocal
    AssemblyFits
    NothingLeft
PROPERTIES
    SeqCountsPackets
    DefaultsStart
    RingIsQueue
