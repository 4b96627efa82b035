SPECIFICATION PartsSpec
CONSTANTS
    MaxWireOrderID = 4
    ObservableIDs <- MCObservable
    Requests = {r1, r2, r3}
    Keys = {k1, k2}
    ClockCalls = {q1, q2}
    Spacing = 1
    IdenticalSpacing = 3
    ClockSpacing = 2
    MaxTime = 4
    MaxFlaps = 1
    Versions = {208, 210, 212, 214, 215, 219, 225}
    RowCap = 2
    WireCap = 2
INVARIANTS
    LoopsFindCandidates NoLiveCollision
    PaceHonoured SetupsSettle
    ProtoFaithful ClassicFaithful
    RequestFaithful AnswersComplete NoStrayTraffic
PROPERTIES OrderIDsFresh RequestIDNeverAnOrder
CHECK_DEADLOCK FALSE
