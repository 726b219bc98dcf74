\* The user need not give a command, and a thread with nothing to do waits.
SPECIFICATION FairSpec
CONSTANTS
  a = a
  b = b
  c = c
  own = own
  Nodes = {a, b, c}
  Alive = {a, b}
  Askers = {a}
  Givers = {b, c}
  Keys = {own}
  Own = own
  Distance <- DistanceMC
  Told <- ToldMC
  Known <- KnownMC
  SearchNodes = 2
  Enough = 2
  Pings = 2
  InFlight = 1
  MaxCommands = 3
INVARIANTS FreshAnswer AckedIsStored
PROPERTIES EndsAtClosest EverySearchEnds
CHECK_DEADLOCK FALSE
