SPECIFICATION FairSpec
CONSTANTS
    Projects <- MCProjects
    MaxQaIterations = 2
    Slots = 1
    NoCommand = NoCommand
    MaxFaults = 1
    MaxCommands = 1
INVARIANTS PublishedWasJudged
PROPERTIES RejectedStays DemoPromise BuildSettles
CHECK_DEADLOCK FALSE
