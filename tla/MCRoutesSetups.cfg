SPECIFICATION Spec
CONSTANTS
    Offered = {"auto", "oneshot"}
    MaxReq = 2
    MaxGen = 1
    MaxCodes = 1
    MaxParked = 1
    QueueCap = 1
    MaxDrain = 0
    EarlyCodes = FALSE
INVARIANTS SetupsRunReady
CHECK_DEADLOCK FALSE
