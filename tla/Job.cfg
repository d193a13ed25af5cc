SPECIFICATION JobSpec
CONSTANTS
    m1 = m1
    m2 = m2
    m3 = m3
    r1 = r1
    r2 = r2
    r3 = r3
    r4 = r4
    r5 = r5
    b1 = b1
    x1 = x1
    s1 = s1
    Feeds <- MCFeeds
    Kind <- MCKind
    ServerOf <- MCServerOf
    Transient = {m3}
    Delayed = {m2}
    Mortal = {m3}
    Servers = {s1}
    Routines = {0, 1}
    RoutineChan = 1
    Batch = 2
    MaxRetries = 3
    MaxFaults = 1
INVARIANTS
    RoomInOrder
    PushedOnce
    MarkedIsHandled
CHECK_DEADLOCK FALSE
