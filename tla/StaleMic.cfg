CONSTANTS
  o1 = o1  o2 = o2  m1 = m1  p1 = p1  p2 = p2
  owner = owner  mod = mod  part = part
  home = home  cafe = cafe
  NoConn = NoConn
  Nobody = Nobody
  Reaper = Reaper
  Conns = {p1, p2}
  Users = {part}
  Ips = {home, cafe}
  UserOf <- MCUserOf
  IpOf <- MCIpOf
  OwnerIds = {}
  ModeratorIds = {}
  DevMode = FALSE
  MaxParticipants = 3
  MaxRooms = 1
  MaxPerIp = 2
  MaxPerUser = 2
  Events = {"join", "mute"}
  Faults = {}
SPECIFICATION Spec
PROPERTIES RetiredIsSilent
CHECK_DEADLOCK FALSE
