SPECIFICATION Spec
CONSTANTS
    Transports = {"tcp"}
    Evals = 1
    Levels = 2
    MinBatch = 2
    Bucket = 2
    Cut = 1
    Opening = FALSE
    MaxFlips = 0
INVARIANT ExitsCleanly
CHECK_DEADLOCK FALSE
