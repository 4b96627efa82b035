SPECIFICATION Spec
CONSTANTS
    MaxFaults = 2
    MaxNotices = 1
    InboxCap = 2
    MaxBackoff = 1
PROPERTIES Recovers CloseReleasesSockets
CHECK_DEADLOCK FALSE
