SPECIFICATION FairSpec
CONSTANTS
    e1 = e1
    e2 = e2
    l1 = l1
    l2 = l2
    None = None
    Env = {e1, e2}
    Launch = {l1, l2}
    EnvOf <- EnvOfEach
    MaxVersion = 4
    MaxRequests = 1
INVARIANTS
    NoticesReachEveryone
PROPERTIES
    IsRegister
    RequestsAnswered
CHECK_DEADLOCK FALSE
