SPECIFICATION Spec
CONSTANTS
    Width = 3
    Pow2 <- MCPow2
    MaxVid = 16
    ShortRegisters = TRUE
INVARIANTS FullInv
PROPERTY RestoreRepairs
CHECK_DEADLOCK FALSE
