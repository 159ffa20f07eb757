SPECIFICATION FairSpec
CONSTANTS
  daemon = daemon
  other = other
  r1 = r1
  r2 = r2
  s1 = s1
  l1 = l1
  Processes = {daemon, other}
  Requests = {r1, r2}
  Fetches = {r2}
  Sweepers = {s1}
  Logins = {l1}
  Proc <- MCProc
  MaxRecent = 1
  MaxIssued = 3
  MaxFaults = 1
INVARIANTS
  NoNeedlessLogin
PROPERTIES
  LoginKept
  QuarantineHolds
  KeptFresh
CHECK_DEADLOCK FALSE
