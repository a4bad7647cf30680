SPECIFICATION FairBusSpec
CONSTANTS
    e1 = e1
    l1 = l1
    l2 = l2
    l3 = l3
    None = None
    Env = {e1}
    Launch = {l1, l2, l3}
    EnvOf <- EnvOfThrice
INVARIANTS
    LoopOwnsEntry
    NoDeadEntry
    AnnouncedIffLive
PROPERTIES
    DeadPeerForgotten
CHECK_DEADLOCK FALSE
