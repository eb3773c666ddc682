SPECIFICATION Spec
CONSTANTS
    Transports = {"channel"}
    Evals = 1
    Levels = 2
    MinBatch = 2
    Bucket = 2
    Cut = 1
    Opening = FALSE
    MaxFlips = 0
INVARIANT CoinAfterTriples
CHECK_DEADLOCK FALSE
