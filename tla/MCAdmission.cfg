SPECIFICATION Spec
CONSTANTS
    c1 = c1
    c2 = c2
    Calls = {c1, c2}
    Mixes <- Pairs
    QueueCap = 1
    EventCap = 2
    MaxRows = 2
    MaxLinks = 1
INVARIANTS RemoteHasOwner OutcomesHonest
PROPERTIES NobodyStuck
CHECK_DEADLOCK FALSE
