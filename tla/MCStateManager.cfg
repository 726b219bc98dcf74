SPECIFICATION Spec
CONSTANTS
  MaxPeers = 2
  MaxGhosts = 1
  t1 = t1
  t2 = t2
  a = a
  b = b
  c = c
  Threads = {t1, t2}
  PeerStates = {"UNKNOWN", "FRIEND"}
  Ids = {a, b, c}
  NoId = NoId
  Ips = {}
  NoIp = NoIp
  ip = ip
  Ports = {}
  NoPtr = NoPtr
SYMMETRY Symmetry
INVARIANTS GhostCountSound OnlyRemovalInvalidates
PROPERTIES BookSpec
