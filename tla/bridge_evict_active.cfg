SPECIFICATION Spec
CONSTANTS
  c1 = c1
  c2 = c2
  c3 = c3
  Clients = {c1, c2, c3}
  MaxSessions = 1
  MaxCreates = 1
  Disruptions = {}
PROPERTIES
  ActiveNotEvicted
CHECK_DEADLOCK FALSE
