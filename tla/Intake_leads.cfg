SPECIFICATION FairSpec
CONSTANTS
    k1 = k1 k2 = k2 k3 = k3 c1 = c1
    Searches = {c1}
    ByHand = ByHand
    Candidates = {k1, k2, k3}
    Identity <- MCIdentity
    Name <- MCName
    City <- MCCity
    Near <- MCNear
    Barred = {}
    Taste <- MCTaste
    Scrapes <- MCScrapes
    Target = 2
    Links = {k3}
    AutoStages = {"discover", "build"}
    Leads <- MCLeads
    NoCandidate = NoCandidate
    NoLook = NoLook
    MaxFaults = 1
    MaxCommands = 1
    MaxShelvings = 1
INVARIANTS OnePlaceOneBusiness AllHandedOver JudgedOnce OnlyIfLetThrough 
PROPERTIES LeadsSettle
CHECK_DEADLOCK FALSE
