SPECIFICATION FriendsFairSpec
CONSTANTS
  MaxPeers = 2
  MaxGhosts = 1
  p1 = p1
  p2 = p2
  ip = ip
  Ids = {p1}
  NoId = NoId
  Ips = {ip}
  NoIp = NoIp
  Ports = {9000}
  NoPtr = NoPtr
  Saved <- OneSent
  QueueSize = 2
  Strangers = {}
  MaxCommands = 2
  MaxDatagrams = 0
  MaxTicks = 0
PROPERTIES GhostsDeliveredOnline
CHECK_DEADLOCK FALSE
