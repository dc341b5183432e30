SPECIFICATION FairSpec
CONSTANTS
  a1 = a1 a2 = a2 b1 = b1
  NoApproval = NoApproval
  Businesses = {b1}
  Approvals = {a1}
  BizOf <- MCOneBusiness
  MaybeManual = {}
  LiveBiz = {b1}
  MaxIndex = 1
  FollowupLimit = 1
  DailyLimit = 2
  Overrides = {}
  Stages = {"meeting"}
  MaxFaults = 1
  MaxRequeues = 1
  MaxSwitches = 1
  Ageing <- MCNoneAges
INVARIANTS SentOnce DepartureOnRecord StoppedStaysSilent
PROPERTIES ReservationSettles
CHECK_DEADLOCK FALSE
