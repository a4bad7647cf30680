SPECIFICATION FairSpec
CONSTANTS
    NumModules = 3
    Faults = {"start", "init"}
    MaxFrames = 5
    MaxServiceEvents = 1
INVARIANTS
    CommandsNeedContext
    FailedStartLeavesNothing
PROPERTIES
    EveryRequestAnswered
    DisconnectEndsRuntime
CHECK_DEADLOCK FALSE
