\* The program stops when the bounded calls are used up.
SPECIFICATION FairSpec
CONSTANTS
    t1 = t1
    t2 = t2
    a = a
    b = b
    c = c
    Callers = {t1, t2}
    Peers = {a, b, c}
    NoPeer = NoPeer
    MaxSessions = 2
    MaxCalls <- CallsMC
    MaxRelay = 2
    MaxInbox = 2
    MaxNoise = 1
INVARIANTS EstablishedHasRelay OneSessionAnAllocation
PROPERTIES CallsReturn
CHECK_DEADLOCK FALSE
