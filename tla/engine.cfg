SPECIFICATION Spec
CONSTANTS
    Width = 3
    H = 2
    ByteBits = 2
    MsgBytes = 2
    LaneWidth = 3
    HashCircuit <- MCCircuit
    IV <- MCIV
    Seeds <- MCSeeds
    Randomness <- MCRandomness
    MaxDeaths = 1
    MaxLies = 2
INVARIANTS TypeOK InStep Lockstep ReleasedRight
PROPERTIES ImplementsSharedResult Terminates
CHECK_DEADLOCK FALSE
