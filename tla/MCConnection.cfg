SPECIFICATION Spec
CONSTANTS
    MaxFaults = 1
    MaxNotices = 2
    InboxCap = 2
    MaxBackoff = 1
INVARIANTS OneRecoveryPath NoStaleInput BootstrapHonest
PROPERTIES BackoffResetsOnlyWhenStable ImplementsLink
CHECK_DEADLOCK FALSE
