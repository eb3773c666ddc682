SPECIFICATION Spec
CONSTANTS
    Transports = {"channel", "tcp"}
    Evals = 2
    Levels = 3
    MinBatch = 4
    Bucket = 3
    Cut = 1
    Opening = TRUE
    MaxFlips = 1
INVARIANTS IInv VerifiedRight CorruptionAborts InStep OnlyCorruptionAborts
PROPERTY Terminates
CHECK_DEADLOCK FALSE
