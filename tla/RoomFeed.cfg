SPECIFICATION Spec
CONSTANTS
  o1 = o1  p1 = p1  p2 = p2
  owner = owner  part = part
  NoConn = NoConn
  Nobody = Nobody
  Reaper = Reaper
  Users = {owner, part}
  Conns = {o1, p1, p2}
  UserOf <- MCUserOf
  OwnerIds = {owner}
  ModeratorIds = {}
  DevMode = FALSE
  MaxParticipants = 3
  HistoryLimit = 1
  Does <- MCDoes
  MaxChanges = 3
  MaxPosts = 2
  MaxBusy = 2
CHECK_DEADLOCK FALSE
INVARIANTS TypeOK Told ChatTold Reachable
