\* Queues of one place.
SPECIFICATION FairSpec
CONSTANTS
    p1 = p1
    p2 = p2
    Pushers = {p1, p2}
    Setups <- MCSetups
    Size = 2
    WordSize = 4
    HighCap = 1
    NormalCap = 1
    MaxPushes = 2
INVARIANTS
    InOrder
    
    
PROPERTIES
    CleanedUp
    Answered
CHECK_DEADLOCK FALSE
