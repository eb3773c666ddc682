SPECIFICATION Spec
CONSTANTS
    Width = 3
    Pow2 <- MCPow2
    Updates = 1
    After = 0
    Package = TRUE
    RestoreOnChange = FALSE
    MaxLiars = 0
    MaxFaults = 1
    MaxRetries = 1
INVARIANTS PackageEvaluatedOnce
