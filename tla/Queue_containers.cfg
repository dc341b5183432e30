SPECIFICATION FairSpec
CONSTANTS
  k1 = k1 k2 = k2 r1 = r1 r2 = r2 r3 = r3 w1 = w1 w2 = w2 w3 = w3 b1 = b1
  NoJob = NoJob
  Keys = {k1, k2}
  Runs = {r1, r3}
  Workers = {w1, w2, w3}
  Businesses = {b1}
  Archivable = {}
  KeyOf <- MCKeyOf
  BizOf <- MCBizOf
  GroupOf <- MCGroupMixed
  HomeOf <- MCHomeMixed
  RetryLimit <- MCLimitOne
  AgentKeys = {k1}
  FollowupKeys = {k2}
  MaxSeq = 2
  MaxFaults = 1
INVARIANTS LedgerAgrees OneHandler
PROPERTIES LedgerSpec AcceptedRunsSettle
CHECK_DEADLOCK FALSE
