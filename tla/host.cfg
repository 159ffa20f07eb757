SPECIFICATION HostSpec
CONSTANTS
  Clients = {c1, c2, c3}
  MaxSessions = 1
  MaxCreates = 1
  Disruptions = {"deadline", "drop", "upgrade", "leave", "idle", "shutdown"}
  Accounts = {p, q}
  NoAccount = none
  Handlers = {h, i}
  MaxEdits = 2
  Nothing = nothing
  Callers = {c, d}
  Sweep = c
  MaxIssued = 3
  MaxTrouble = 2
  Bodies = {k, l}
  MaxNonce = 3
  Client = c1
  Tasks = {r, s, t}
  Streams = {k}
  Listener = none
  MaxConnections = 2
INVARIANTS
  RunningHoldsSlot
  NoLostWakeup
  SavedIsUsed
  GrantKept
  InstalledRuns
  NothingAfterShutdown
PROPERTIES
  HostGoesOn
CHECK_DEADLOCK FALSE
