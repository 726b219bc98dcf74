\* The program stops when the bounded calls are used up, or a process has died.
SPECIFICATION FairSpec
CONSTANTS
    n1 = n1
    n2 = n2
    t1 = t1
    t2 = t2
    Nodes = {n1, n2}
    Callers = {t1, t2}
    Home <- HomeMC
    MaxPeers = 2
    NoPeer = NoPeer
    MaxCalls <- CallsMC
    MaxInbox = 1
    MaxNoise = 1
INVARIANTS SuccessWasAnswered
PROPERTIES WritesOwnSession CallsReturn
CHECK_DEADLOCK FALSE
