SPECIFICATION LanesSpec
CONSTANTS
  MaxCreates = 2
  MaxPings = 1
  Room = 1
  Accounts = {a, b}
  Creates <- SomeCreates
  MaxTurns = 2
  MaxQueued = 1
  MaxSends = 3
  MaxSockets = 3
  Calls = {x, y}
  Steers = {s, t}
  MaxControls = 5
  MaxResponses = 3
  Ids = {r}
  Keys = {k}
  None = none
  MaxFrames = 2
INVARIANTS
  NoStaleWrite
  CompletedIsContinuable
  TurnsAnswered
  ChainKept
  BodyEndsBound
PROPERTIES
  OriginalSocket
  LanesGoOn
CHECK_DEADLOCK FALSE
