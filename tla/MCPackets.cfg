CONSTANTS
    a = a
    b = b
    Nodes <- TwoNodes
    Destinations <- TwoNodes
    Sizes <- Payload
    Broadcast = Broadcast
    SlotTime = 20
    SIFS = 10
    HeaderDuration = 192
    MaxPropagationDelay = 2
    RTSThreshold = 1000
    SeqMod = 65536
    CWMin = 1
    CWMax = 1
    ShortRetryLimit = 2
    LongRetryLimit = 2
    MaxDraw = 1
    ChannelDelay = 1
    BitErrors = FALSE
    MaxPackets = 2
SPECIFICATION MemorySpec
INVARIANTS
    PacketsHaveOneOwner
    FreeListIsSound
    PoolAssertionsHold
