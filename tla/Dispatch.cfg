\* Two attempts on two routers, with two devices and a fault of any kind,
\* or one device and two.
SPECIFICATION Spec
CONSTANTS
    r1 = r1
    r2 = r2
    t1 = t1
    t2 = t2
    d1 = d1
    d2 = d2
    Routers = {r1, r2}
    Attempts = {t1, t2}
    Home <- MCHome
    Devices = {d1, d2}
    Faults = {"redis", "push", "kafka", "disk", "crash", "lapse"}
    MaxFaults = 2
INVARIANTS
    
    OneAttempt
    SingleSender
    
PROPERTIES
    IsDelivery
CONSTRAINT Small
SYMMETRY MCSymmetry
CHECK_DEADLOCK FALSE
