SPECIFICATION Spec
CONSTANTS
    Projects <- MCProjects
    MaxQaIterations = 2
    Slots = 1
    NoCommand = NoCommand
    MaxFaults = 0
    MaxCommands = 1
INVARIANTS OrderedIsJudged
CHECK_DEADLOCK FALSE
