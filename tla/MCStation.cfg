CONSTANTS
    a = a
    b = b
    c = c
    Nodes <- MCNodes
    Destinations <- MCDestinations
    Sizes <- MCSizes
    Gaps <- MCGaps
    Broadcast = Broadcast
    Self = a
    Peers <- MCPeers
    SlotTime = 20
    SIFS = 10
    HeaderDuration = 192
    MaxPropagationDelay = 2
    RTSThreshold = 3000
    SeqMod = 2
    CWMin = 1
    CWMax = 3
    ShortRetryLimit = 2
    LongRetryLimit = 2
    MaxDraw = 1
    MaxArrivals = 3
SPECIFICATION Spec
CHECK_DEADLOCK FALSE
INVARIANTS
    TypeOK
    NeverHalts
    TimersMatchStates
    CarrierSenseFollowsPhy
    BackoffFollowsChannel
    ResponseBeforeContention
PROPERTIES
    AccessRespectsChannel
