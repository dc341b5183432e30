SPECIFICATION FairSpec
CONSTANTS
  r1 = r1 r2 = r2 w1 = w1
  None = None
  Workspaces = {w1}
  Requests = {r1, r2}
  WsOf <- MCWsOf
  MaxFaults = 1
INVARIANTS AnswerIsOwn
PROPERTIES OutputNeverOlder RequestsSettle
CHECK_DEADLOCK FALSE
