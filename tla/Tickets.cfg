CONSTANTS
  Users = {u1}
  Handshakes = {h1, h2}
  SessionTTL = 2
  TicketTTL = 1
  LogLimit = 1
  MaxTickets = 3
  MaxTime = 2
  MaxRestarts = 2
SYMMETRY Interchangeable
SPECIFICATION Spec
INVARIANTS TypeOK OnceWhileValid
CHECK_DEADLOCK FALSE
