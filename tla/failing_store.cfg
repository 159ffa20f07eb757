SPECIFICATION FairSpec
CONSTANTS
  Unasked = Unasked
  a1 = a1  a2 = a2
  r1 = r1  r2 = r2  r3 = r3
  cohort = cohort
  MaxTrouble = 0
  Accounts = {a1, a2}
  Members = {a1, a2}
  Managed = {}
  NoAccount = NoAccount
  SwitchAt = 1
  RedeemAt = 1
  FullUsage = 1
  AutoRedeem = FALSE
  Orders <- NoOrders
  Requests = {r1, r2}
  SoftKeys = {cohort}
  NoKey = NoKey
  NoBinding = NoBinding
  Unreadable = Unreadable
  StoreMayFail = TRUE
  Inputs <- AnchorInputs
  Answers = {"turn"}
  ReportedUsage = {}
  Disruptions = {"auth", "expire", "gone", "restart"}
  MaxSlots = 1
  MaxEpoch = 1
INVARIANTS
  AnchoredSends
  ExposedTurnsHaveOwners
CHECK_DEADLOCK FALSE
PROPERTIES
  RequestsEnd
