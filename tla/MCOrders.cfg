SPECIFICATION Spec
CONSTANTS
    N = 3
    Plans <- Loads
    MaxGen = 2
    EventCap = 2
INVARIANTS RetryIsSafe BracketAccounted ContinuityHonest HandleSound
PROPERTIES ImplementsContract WriteSettles
CHECK_DEADLOCK FALSE
