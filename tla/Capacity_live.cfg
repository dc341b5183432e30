SPECIFICATION FairSpec
CONSTANTS
    LastGroup = 2
    Values <- MCValues
    Default = 2
    HandleIds <- MCHandleIds
    LoadIds <- MCLoadIds
    MaxSaves = 1
    MaxFails = 1
    MaxSyncs = 2
INVARIANTS HandlesKnown
PROPERTIES BeginsWithinLimit CallsServed Converges
