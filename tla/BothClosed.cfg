CONSTANTS
  o1 = o1  o2 = o2  m1 = m1  p1 = p1  p2 = p2
  owner = owner  mod = mod  part = part
  home = home  cafe = cafe
  NoConn = NoConn
  Nobody = Nobody
  Reaper = Reaper
  Conns = {o1, o2}
  Users = {owner}
  Ips = {home, cafe}
  UserOf <- MCUserOf
  IpOf <- MCIpOf
  OwnerIds = {owner}
  ModeratorIds = {}
  DevMode = FALSE
  MaxParticipants = 3
  MaxRooms = 1
  MaxPerIp = 2
  MaxPerUser = 2
  Events = {"join"}
  Faults = {}
SPECIFICATION Spec
INVARIANTS NewestWins
CHECK_DEADLOCK FALSE
