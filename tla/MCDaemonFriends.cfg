SPECIFICATION FriendsFairSpec
CONSTANTS
  MaxPeers = 2
  MaxGhosts = 1
  p1 = p1
  p2 = p2
  ip = ip
  Ids = {p1, p2}
  NoId = NoId
  Ips = {ip}
  NoIp = NoIp
  Ports = {9000}
  NoPtr = NoPtr
  Saved <- OneSent
  QueueSize = 2
  Strangers = {p2}
  MaxCommands = 2
  MaxDatagrams = 2
  MaxTicks = 1
PROPERTIES AcceptedHadAsked CommandsAnswered EventsHandled
CHECK_DEADLOCK FALSE
