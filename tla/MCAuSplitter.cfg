\* Two frames; reads of one, five and 64 bytes; a cap that only the longest exceed.
SPECIFICATION Spec
CONSTANTS
    UUID <- MCUUID
    SeqBytes = 2
    TimeBytes = 3
    NoInfo = noinfo
    NotRecognised = notrecognised
    Videos <- MCVideos
    Chunks <- MCChunks
    AuCap = 70
INVARIANTS
    NothingLost
    StampsKept
    HeadersExact
    NoEmulation
    ReadersAgree
    SeiBeforeSlice
CHECK_DEADLOCK FALSE
