SPECIFICATION Spec
CONSTANTS
  Unasked = Unasked
  a1 = a1  a2 = a2
  r1 = r1  r2 = r2  r3 = r3
  cohort = cohort
  MaxTrouble = 3
  Accounts = {a1, a2}
  Members = {a1, a2}
  Managed = {a1}
  NoAccount = NoAccount
  SwitchAt = 1
  RedeemAt = 1
  FullUsage = 1
  AutoRedeem = FALSE
  Orders <- NoOrders
  Requests = {r1}
  SoftKeys = {cohort}
  NoKey = NoKey
  NoBinding = NoBinding
  Unreadable = Unreadable
  StoreMayFail = FALSE
  Inputs <- RetryInputs
  Answers = {"success", "unauthorized"}
  ReportedUsage = {}
  Disruptions = {"quota"}
  MaxSlots = 1
  MaxEpoch = 0
CONSTRAINT Bounded
INVARIANT UnauthorizedNeverCrosses
CHECK_DEADLOCK FALSE
