SPECIFICATION MCSpec
CONSTANTS
    c1 = c1
    c2 = c2
    c3 = c3
    c4 = c4
    phone = phone
    k1 = k1
    k2 = k2
    k3 = k3
    r1 = r1
    Conns = {c1, c2, c3, c4}
    Readers = {r1}
    Logics = {p1, p2}
    GivenDevice <- MCGivenDevice
    Key <- MCKey
    TTL = 2
    CacheTTL = 1
    MaxFaults = 1
    Groups <- MCGroups
    Timely = FALSE
    NoDevice = NoDevice
    None = None
    MaxSeq = 2
    PageLimit = 1
    Pulls = {g1, g2}
    MaxSyncs = 3
INVARIANTS
    Listed
    KeepsSession
    
CHECK_DEADLOCK FALSE
