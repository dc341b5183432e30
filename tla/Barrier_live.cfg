SPECIFICATION MCSpec
CONSTANTS
  MaxGen = 2
  MaxThrows = 2
  MaxFaults = 1
  MaxActs = 1
  LegacyJobs = {"assets"}
  OperatorMoves = {"elsewhere", "needs_review"}
PROPERTIES DecidedOnce NoSilentStall NewestScores 
CHECK_DEADLOCK FALSE
