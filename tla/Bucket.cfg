\* Three Channel objects, two rooms, up to three Room objects.
SPECIFICATION BucketSpec
CONSTANTS
    c1 = c1
    c2 = c2
    c3 = c3
    k1 = k1
    k2 = k2
    k3 = k3
    i1 = i1
    Channels = {c1, c2, c3}
    IPs = {i1}
    Clients <- MCClients
    MaxCount = 5
INVARIANTS
    Reachable
    
SYMMETRY PoolSymmetry
CHECK_DEADLOCK FALSE
