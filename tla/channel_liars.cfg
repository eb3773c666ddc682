SPECIFICATION Spec
CONSTANTS
    Width = 3
    Pow2 <- MCPow2
    Updates = 1
    After = 1
    Package = FALSE
    RestoreOnChange = TRUE
    MaxLiars = 2
    MaxFaults = 0
    MaxRetries = 1
INVARIANTS HandedMatchesPoint OneLiarPoints
