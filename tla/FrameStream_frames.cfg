SPECIFICATION FairSpec
CONSTANTS
    Magic <- MagicCell
    Version <- VersionCell
    Topics <- BusTopics
    Sent <- Sample
    Others <- Parts
    MaxPieces = 3
INVARIANTS
    ReceivedAsSent
    ReadAsWritten
PROPERTIES
    EveryFrameRead
CHECK_DEADLOCK FALSE
