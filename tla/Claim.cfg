CONSTANTS
  o1 = o1  o2 = o2  m1 = m1  p1 = p1  p2 = p2
  owner = owner  mod = mod  part = part
  home = home  cafe = cafe
  NoConn = NoConn
  Nobody = Nobody
  Reaper = Reaper
  Conns = {o1, m1, p1}
  Users = {owner, mod, part}
  Ips = {home, cafe}
  UserOf <- MCUserOf
  IpOf <- MCIpOf
  OwnerIds = {owner}
  ModeratorIds = {mod}
  DevMode = TRUE
  MaxParticipants = 2
  MaxRooms = 1
  MaxPerIp = 3
  MaxPerUser = 2
  Events = {"join", "leave", "mute", "speak", "moderate"}
  Faults = {}
SPECIFICATION Spec
INVARIANTS Ownership OwnerImmune MicSafe Capacity
CHECK_DEADLOCK FALSE
