SPECIFICATION Spec
CONSTANTS
    Offered = {"auto", "single", "type"}
    MaxReq = 1
    MaxGen = 3
    MaxCodes = 1
    MaxParked = 1
    QueueCap = 1
    MaxDrain = 0
    EarlyCodes = FALSE
INVARIANTS NoLateRows
PROPERTIES BarrierCompletes
CHECK_DEADLOCK FALSE
