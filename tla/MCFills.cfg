SPECIFICATION Spec
CONSTANTS
    Execs = {x1, x2, x3}
    Orders = {1, 2}
    Versions = {1, 2, 3}
    Malformed = 3
    Limits = {1, 2}
    Loads <- OneConsumer
    MaxMessages = 4
    MaxLinks = 2
SYMMETRY Symmetry
INVARIANTS TablesSound ReportsReachOwner ConsumersHonest
CHECK_DEADLOCK FALSE
