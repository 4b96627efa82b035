SPECIFICATION Spec
CONSTANTS
    MaxFrames = 4
    FrameLen = 2
    QueueCap = 2
    IncomingCap = 1
    MaxArrivals = 2
    Paced = TRUE
INVARIANTS WriterSound StopOrdered
PROPERTIES StopFinishes WakeupNotLost
CHECK_DEADLOCK FALSE
