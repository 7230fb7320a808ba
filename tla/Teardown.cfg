CONSTANTS
  o1 = o1  o2 = o2  m1 = m1  p1 = p1  p2 = p2
  owner = owner  mod = mod  part = part
  home = home  cafe = cafe
  NoConn = NoConn
  Nobody = Nobody
  Reaper = Reaper
  Conns = {o1, p1}
  Users = {owner, part}
  Ips = {home, cafe}
  UserOf <- MCUserOf
  IpOf <- MCIpOf
  OwnerIds = {owner}
  ModeratorIds = {}
  DevMode = FALSE
  MaxParticipants = 2
  MaxRooms = 2
  MaxPerIp = 2
  MaxPerUser = 1
  Events = {"join", "leave", "end"}
  Faults = {"gone", "stale", "sweep"}
SPECIFICATION FairSpec
INVARIANTS NoGhost CountersExact SessionsPlaced
PROPERTIES ResetsEnded TornDown Reopens KeepsMembership
