SPECIFICATION Spec
CONSTANTS
    NumModules = 3
    Faults = {"start", "init", "destroy", "shutdown"}
    MaxFrames = 6
    MaxServiceEvents = 0
INVARIANTS
    TypeOK
    ContextAgrees
    ModulesFollowHost
    AnswerMatchesState
    CleanExitIsStopped
    NothingBeforeHandshake
    ContextEventsAlternate
    AnsweredBeforeEvent
PROPERTIES
    IsLifecycle
CHECK_DEADLOCK FALSE
