CONSTANTS
    MaxBodySize = 11
    ReadBufSize = 16
    WriteBufSize = 7
    Small = 6
    Medium = 9
    MaxFrames = 2
    MaxPrefix = 3
    Scripts <- MCScripts
    Num = 2
    MaxEntries = 4
    MaxClock = 1
    Delays = {1, 2}
    MaxSequence = 1
    MaxWall = 2
    MaxIds = 5
    Users = {"u1"}
    Unit = 2
    Rate <- MCRate
    Burst <- MCBurst
    EventTypes = {"sale"}
    Envelopes <- MCEnvelopes
    Requesters = {q1, q2}
    MaxRequests = 3
    Callers = {c1, c2, c3}
    Threshold = 2
    MaxRetries = 1
    MaxCalls = 6
    Fleets <- MCFleets
    Regions = {"east", "none"}
    GainNum = 3
    GainDen = 2
    MaxWeight = 1048576
    MaxFetches = 3
    MaxPicks = 3
    Broadcasters = {b1}
SPECIFICATION MCSpec
INVARIANTS  InTime WithinLimits NodesAgree
CHECK_DEADLOCK FALSE
