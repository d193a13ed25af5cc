SPECIFICATION Spec
CONSTANTS
    c1 = c1
    c2 = c2
    c3 = c3
    p1 = p1
    p2 = p2
    p3 = p3
    d1 = d1
    d2 = d2
    m1 = m1
    m2 = m2
    k1 = k1
    Calls = {c1, c2, c3}
    Input <- MCInput
    Publishers = {p1, p2, p3}
    Event <- MCEvent
    Deployments <- MCDeployments
    Bridge = bridge
    QueueSize = 1
    BatchMax = 2
    BridgeBatch = 2
    MaxActive = 3
    MaxFaults = 1
    NoKey = NoKey
    NoDevice = NoDevice
    NoMsg = NoMsg
INVARIANTS
    
    MarkedIsAnswered
    
PROPERTIES
    SatisfiedStays
CHECK_DEADLOCK FALSE
