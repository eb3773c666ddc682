SPECIFICATION Spec
CONSTANTS
    W = 5
    Taps = {0, 2}
    B = 2
    LaneWidth = 1
    Multiplier <- MCMultiplier
    Lambda <- MCLambda
    Inputs <- MCInputs
    Randomness <- MCRandomness
    MaxFlips = 1
INVARIANTS TypeOK InStep OpenedRight CorruptionAborts OnlyCorruptionAborts
PROPERTIES ImplementsSharedResult Terminates
CHECK_DEADLOCK FALSE
