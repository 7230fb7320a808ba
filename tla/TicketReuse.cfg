CONSTANTS
  Users = {u1}
  Handshakes = {h1, h2}
  SessionTTL = 2
  TicketTTL = 1
  LogLimit = 1
  MaxTickets = 2
  MaxTime = 2
  MaxRestarts = 0
SYMMETRY Interchangeable
SPECIFICATION Spec
INVARIANTS SingleUse
CHECK_DEADLOCK FALSE
