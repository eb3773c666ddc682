SPECIFICATION Spec
CONSTANTS
    Width = 3
    Pow2 <- MCPow2
    MaxVid = 16
    ShortRegisters = TRUE
INVARIANTS NeverHalfErased
CHECK_DEADLOCK FALSE
