\* Two processes, blocks of two numbers, one fault.
SPECIFICATION FairSpec
CONSTANTS
    a1 = a1
    a2 = a2
    c1 = c1
    c2 = c2
    c3 = c3
    Allocators = {a1, a2}
    Callers = {c1, c2, c3}
    Home <- MCHome
    BlockSize = 2
    PrefetchRemaining = 1
    PrefetchPercent = 90
    MaxCalls <- MCCalls
    MaxFaults = 1
INVARIANT Unique
PROPERTIES
    CallsReturn
    IsIssuer
CHECK_DEADLOCK FALSE
