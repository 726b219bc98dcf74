SPECIFICATION FairSpec
CONSTANTS
  Size = 2
  Consumers = {c1, c2}
  Events = {e1, e2}
  NoEvent = NoEvent
  Free = Free
PROPERTIES FifoSpec EveryEventTaken StopEndsTheLoop
