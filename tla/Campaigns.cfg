SPECIFICATION Spec
CONSTANTS
    t1 = t1
    t2 = t2
    b1 = b1
    Targets = {t1, t2}
    Batches = {b1}
    BatchOf <- MCBatchOf
    Workers = {w1, w2}
    Operators = {o1}
    TargetBatchSize = 1
    Threshold = 1
    MaxOps = 4
    MaxFaults = 1
    NoWorker = NoWorker
    NoBatch = NoBatch
SYMMETRY Symmetry
INVARIANTS
    OnePerTarget
    
    CountedIsMade
    OnlyApproved
CHECK_DEADLOCK FALSE
