\* Rows with a TTL or without, of a campaign or not.
SPECIFICATION Spec
CONSTANTS
    r1 = r1
    r2 = r2
    r3 = r3
    a1 = a1
    a2 = a2
    k1 = k1
    k2 = k2
    w1 = w1
    w2 = w2
    NoOne = NoOne
    Setups <- MCSetups
    Mortal = {r1, r2}
    Flash = {r2}
    Drops = {r2}
    MaxRetries = 1
INVARIANTS
    Once
    StrandedWasMissed
PROPERTIES
    DeadAfterRetries
    AckedStays
SYMMETRY ActorSymmetry
CHECK_DEADLOCK FALSE
