SPECIFICATION Spec
CONSTANTS
    Offered = {"auto"}
    MaxReq = 2
    MaxGen = 2
    MaxCodes = 1
    MaxParked = 1
    QueueCap = 1
    MaxDrain = 0
    EarlyCodes = FALSE
INVARIANTS RestoredMeansRetained
CHECK_DEADLOCK FALSE
