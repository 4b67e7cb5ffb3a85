\* Two clients and one UPS that reloads add and delete; the table has room for all but one.
CONSTANTS
  u1 = u1
  u2 = u2
  c1 = c1
  c2 = c2
  c3 = c3
  UPS = {u1}
  NoUps = NoUps
  Clients = {c1, c2}
  MAXCONN = 2
  IDLE = 2
  POLLWAIT = 1
SPECIFICATION Spec
INVARIANTS TypeOK LoginsCounted GoneInTime
PROPERTIES AskersAreHeard
