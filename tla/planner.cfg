SPECIFICATION Spec
CONSTANTS
    Width = 3
    Pow2 <- MCPow2
    MaxVid = 17
    ShortRegisters = FALSE
INVARIANTS TypeOK Tiling Retained PadOnce NothingEarly
PROPERTY ImplementsRevocation
CHECK_DEADLOCK FALSE
