SPECIFICATION Spec
CONSTANTS
  Unasked = Unasked
  a1 = a1  a2 = a2
  r1 = r1  r2 = r2  r3 = r3
  cohort = cohort
  MaxTrouble = 0
  Accounts = {a1, a2}
  Members = {a1, a2}
  Managed = {}
  NoAccount = NoAccount
  SwitchAt = 1
  RedeemAt = 1
  FullUsage = 1
  AutoRedeem = FALSE
  Orders <- NoOrders
  Requests = {r1, r2, r3}
  SoftKeys = {cohort}
  NoKey = NoKey
  NoBinding = NoBinding
  Unreadable = Unreadable
  StoreMayFail = FALSE
  Inputs <- ContinuityInputs
  Answers = {"turn", "gateway"}
  ReportedUsage = {}
  Disruptions = {"auth", "authRetry"}
  MaxSlots = 2
  MaxEpoch = 1
INVARIANTS
  FencedDispatch
PROPERTIES
  CohortsStay
  PromiseKept

CONSTRAINT Scenario
SYMMETRY Symmetry
CHECK_DEADLOCK FALSE
