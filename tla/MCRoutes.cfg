SPECIFICATION Spec
CONSTANTS
    Offered = {"auto", "never", "oneshot", "type"}
    MaxReq = 2
    MaxGen = 2
    MaxCodes = 2
    MaxParked = 1
    QueueCap = 1
    MaxDrain = 1
    EarlyCodes = FALSE
INVARIANTS BookServed NoOrphanStream GapsAlternate
PROPERTIES NewWorkAfterBarrier
CHECK_DEADLOCK FALSE
