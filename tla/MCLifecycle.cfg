\* The program stops when all commands have been given and no daemon runs.
SPECIFICATION LifeFairSpec
CONSTANTS
    Clients = {1, 2, 3}
    Nobody = Nobody
    Torn = Torn
    Hasty = {2}
    MaxBook = 1
    MaxCrash = 1
CONSTRAINT UpToARace
INVARIANTS OneUnlessRaced ReachableUnlessRaced
PROPERTIES ListenWorks StopStops FileCatchesUp
CHECK_DEADLOCK FALSE
