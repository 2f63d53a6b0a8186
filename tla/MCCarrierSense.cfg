CONSTANTS
    a = a
    b = b
    c = c
    Nodes <- ThreeNodes
    Destinations <- ThreeNodes
    Sizes <- Payload
    Broadcast = Broadcast
    SlotTime = 20
    SIFS = 10
    HeaderDuration = 192
    MaxPropagationDelay = 2
    RTSThreshold = 3000
    SeqMod = 65536
    CWMin = 1
    CWMax = 1
    ShortRetryLimit = 2
    LongRetryLimit = 2
    MaxDraw = 1
    ChannelDelay = 30
    BitErrors = FALSE
    MaxPackets = 1
SPECIFICATION Spec
SYMMETRY Symmetric
INVARIANTS
    EveryFrameIsHeard
