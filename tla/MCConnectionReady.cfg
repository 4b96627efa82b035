SPECIFICATION Spec
CONSTANTS
    MaxFaults = 1
    MaxNotices = 1
    InboxCap = 2
    MaxBackoff = 1
INVARIANTS ReadyMeansBootstrapped
CHECK_DEADLOCK FALSE
