SPECIFICATION Spec
CONSTANTS
  a1 = a1 a2 = a2 b1 = b1
  NoApproval = NoApproval
  Businesses = {b1}
  Approvals = {a1, a2}
  BizOf <- MCOneBusiness
  MaybeManual = {b1}
  LiveBiz = {b1}
  MaxIndex = 0
  FollowupLimit = 1
  DailyLimit = 1
  Overrides = {"site_ready"}
  Stages = {}
  MaxFaults = 1
  MaxRequeues = 1
  MaxSwitches = 0
  Ageing <- MCAllAge
INVARIANTS  DeliveredMeansMoved BudgetHeld
CHECK_DEADLOCK FALSE
