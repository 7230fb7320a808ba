CONSTANTS
  o1 = o1  o2 = o2  m1 = m1  p1 = p1  p2 = p2
  owner = owner  mod = mod  part = part
  home = home  cafe = cafe
  NoConn = NoConn
  Nobody = Nobody
  Reaper = Reaper
  Conns = {o1, o2, p1}
  Users = {owner, part}
  Ips = {home, cafe}
  UserOf <- MCUserOf
  IpOf <- MCIpOf
  OwnerIds = {owner}
  ModeratorIds = {}
  DevMode = FALSE
  MaxParticipants = 3
  MaxRooms = 3
  MaxPerIp = 2
  MaxPerUser = 2
  Events = {"join", "end"}
  Faults = {}
SPECIFICATION Spec
PROPERTIES WipesEndedOnly
CHECK_DEADLOCK FALSE
