SPECIFICATION ProxySpec
CONSTANTS
  a1 = a1  a2 = a2  a3 = a3  u = u  v = v  w = w
  Accounts = {a1, a2, a3}
  Members = {a1, a2, a3}
  Managed = {a1, a2}
  NoAccount = NoAccount
  SwitchAt = 1
  RedeemAt = 2
  FullUsage = 3
  AutoRedeem = TRUE
  Orders <- AllOrders
  MaxTrouble = 2
  Pool = {a1, a2}
  Slots = 1
  Few = 2
  MaxEvents = 3
  Nothing = nothing
  Items = {u, v}
  MaxItems = 8
  MaxNew = 3
  Names = {"model", "client_metadata", "thread_id", "previous_response_id", "input", "type", "file_id", "id", "encrypted_content"}
  Contents = {"a", "input_file", "reasoning"}
  MaxDepth = 3
  MaxFiles = 1
  MaxTokens = 11
  Bodies = {u, v, w}
  MemoryLimit = 1
  HardLimit = 3
  GlobalLimit = 4
  MaxEvent = 2
  MaxBytes = 7
  MaxChunk = 3
  Places = {u, v}
  Theirs = {x, y}
  Bases = {a1, a2}
  ShortWindow = short  LongWindow = long
  \* A cycle of the short window ends twice in the time of a run, one of the long
  \* window once.
  ShortPeriod = 6  LongPeriod = 8
  Answers <- AnswerForms
  Tolerance = 2
  MaxDelay = 1
  Default = 1
  Longest = 4
  Avoid = 2
  RetryLimit = 3
  Nap = 3
  FirstNow = 4
  MaxNow = 8
  MaxSent = 2
  Limit = 2
  MaxFrames = 3
  MaxPieces = 2
CONSTRAINT Bounded
SYMMETRY Symmetry
INVARIANTS
  SelectedIsValid
  OneAnswer
  NothingGuessed
  HandshakesStay
  OwnershipSeen
  SpoolBounded
  ChunksDontMatter
  OriginalKept
  QuotaHolds
CHECK_DEADLOCK FALSE
