CONSTANTS
    a = a
    b = b
    c = c
    Nodes <- TwoNodes
    Destinations <- TwoNodes
    Sizes <- Payload
    Broadcast = Broadcast
    SlotTime = 20
    SIFS = 10
    HeaderDuration = 192
    MaxPropagationDelay = 2
    RTSThreshold = 3000
    SeqMod = 65536
    CWMin = 1
    CWMax = 3
    ShortRetryLimit = 3
    LongRetryLimit = 3
    MaxDraw = 3
    ChannelDelay = 1
    BitErrors = TRUE
    MaxPackets = 2
SPECIFICATION FairSpec
INVARIANTS
    NeverHalts
PROPERTIES
    LinkSpec
    SourcesAreServed
    Drains
