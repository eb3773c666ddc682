SPECIFICATION Spec
CONSTANTS
    Width = 3
    Pow2 <- MCPow2
    Updates = 2
    After = 2
    Package = TRUE
    RestoreOnChange = FALSE
    MaxLiars = 0
    MaxFaults = 2
    MaxRetries = 1
INVARIANTS IInv HonestAccepted AskedAfterNextPoint PackageSpent
PROPERTIES ImplementsRevocation Terminates Completes
