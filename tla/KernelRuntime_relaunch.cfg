SPECIFICATION Spec
CONSTANTS
    e1 = e1
    e2 = e2
    l1 = l1
    l2 = l2
    p1 = p1
    p2 = p2
    None = None
    Env = {e1}
    Launch = {l1, l2}
    EnvOf <- EnvOfTwice
    Port = {p1, p2}
    DuplicatesInBatch = FALSE
    MaxStops = 1
    MaxContexts = 1
SYMMETRY TwiceSymmetry
INVARIANTS
    TypeOK
    RunsOnlyWithJob
    EndpointIsMine
    PortsAccountedFor
CHECK_DEADLOCK FALSE
