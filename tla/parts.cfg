SPECIFICATION PartsSpec
CONSTANTS
  a1 = a1  a2 = a2
  Accounts = {a1, a2}
  NoAccount = none
  Nothing = nothing
  u = u  v = v  k = k  l = l
  Edits = {r}
  MaxEdits = 2
  Calls = {w, x, y, z}
  MaxEntries = 2
  TTL = 1
  MaxSeconds = 2
  MaxBinds = 3
  Credits = {c, d}
  Redeemers = {q, s}
  MaxCalls = 2
  Banked = {1, 2}
  Ending = {1}
  MaxIds = 2
  MaxWindows = 2
  MaxFailures = 2
  MaxParticipants = 2
  MaxLogins = 1
  RetryAfter = 2
  MaxClock = 4
  MaxCycle = 1
  MaxStreams = 1
INVARIANTS
  LastEditWins
  AnsweredCallsKeepTheirAccount
  ContextKept
PROPERTIES
  ResetsKept
  ActivatedOnce
  ClaudeContinuity
CONSTRAINT Unexcused
SYMMETRY Symmetry
CHECK_DEADLOCK FALSE
