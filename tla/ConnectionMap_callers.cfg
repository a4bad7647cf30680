SPECIFICATION FairSpec
CONSTANTS
    None = None
    main = main
    session = session
    forwarder = forwarder
    Env = {e1, e2}
    Caller = {main, session, forwarder}
    Calls <- CallsOfTasks
    Reading = {e1}
INVARIANTS
    SendsToConnected
    WaitOnlyForBrowsers
PROPERTIES
    CallsReturn
    AnswersReturn
CHECK_DEADLOCK FALSE
