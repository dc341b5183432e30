SPECIFICATION FairSpec
CONSTANTS
  m0 = m0 m1 = m1 m2 = m2 c1 = c1 b1 = b1
  Pollers = {p1, p2}
  Mails = {m0, m1, m2}
  Old <- MCOld
  Calls = {c1}
  Businesses = {b1}
  BizOf <- MCBizOf
  KindOf <- MCKindOf
  Keyed = {m1, c1}
  MaxPerPoll = 1
  MaxFaults = 1
  MaxCalls = 2
  MaxMoves = 1
INVARIANTS CountedOnce
PROPERTIES EveryMailRead
CHECK_DEADLOCK FALSE
