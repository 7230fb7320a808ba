CONSTANTS
  o1 = o1  o2 = o2  m1 = m1  p1 = p1  p2 = p2
  owner = owner  mod = mod  part = part
  home = home  cafe = cafe
  NoConn = NoConn
  Nobody = Nobody
  Reaper = Reaper
  Conns = {m1, p1, p2}
  Users = {mod, part}
  Ips = {home, cafe}
  UserOf <- MCUserOf
  IpOf <- MCIpOf
  OwnerIds = {}
  ModeratorIds = {mod}
  DevMode = FALSE
  MaxParticipants = 2
  MaxRooms = 1
  MaxPerIp = 3
  MaxPerUser = 2
  Events = {"join", "leave", "moderate"}
  Faults = {"gone", "expire"}
SPECIFICATION Spec
INVARIANTS TypeOK KickSticks SessionsAgree StrangersDoomed
PROPERTIES RestrictionSticks KeepsMembership
CHECK_DEADLOCK FALSE
