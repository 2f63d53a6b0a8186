CONSTANTS
    a = a
    b = b
    c = c
    Nodes <- TwoNodes
    Destinations <- TwoNodes
    Sizes <- Payload
    Broadcast = Broadcast
    SlotTime = 20
    SIFS = 10
    HeaderDuration = 192
    MaxPropagationDelay = 2
    RTSThreshold = 3000
    SeqMod = 2
    CWMin = 1
    CWMax = 1
    ShortRetryLimit = 2
    LongRetryLimit = 2
    MaxDraw = 1
    ChannelDelay = 1
    BitErrors = FALSE
    MaxPackets = 3
SPECIFICATION Spec
INVARIANTS
    AtMostOnce
