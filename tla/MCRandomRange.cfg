CONSTANTS
    m1 = 11
    m2 = 7
    a12 = 9
    a13n = 9
    a21 = 4
    a23n = 4
    InvA1 <- SmallInvA1
    InvA2 <- SmallInvA2
    A1p76 <- SmallA1p76
    A2p76 <- SmallA2p76
    A1p127 <- SmallA1p127
    A2p127 <- SmallA2p127
    two17 = 2
    two53 = 64
    Bits = 13
    Denominator = 8
    MaxInt = 7
    SubJump = 2
    StreamJump = 3
    Seeds <- TwoSeeds
    Jumps <- SomeJumps
    MaxMoves = 20
SPECIFICATION Spec
INVARIANTS
    RandIntInRange
