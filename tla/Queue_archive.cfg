SPECIFICATION Spec
CONSTANTS
  k1 = k1 k2 = k2 r1 = r1 r2 = r2 r3 = r3 w1 = w1 w2 = w2 w3 = w3 b1 = b1
  NoJob = NoJob
  Keys = {k1}
  Runs = {r1, r2}
  Workers = {w1, w2}
  Businesses = {b1}
  Archivable = {b1}
  KeyOf <- MCKeyOf
  BizOf <- MCBizOf
  GroupOf <- MCGroupBuild
  HomeOf <- MCHomeBuild
  RetryLimit <- MCLimitOne
  AgentKeys = {k1}
  FollowupKeys = {}
  MaxSeq = 2
  MaxFaults = 0
SYMMETRY RunWorkerSymmetry
INVARIANTS OneCommitter RunIsCarried
CHECK_DEADLOCK FALSE
