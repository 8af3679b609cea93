SPECIFICATION FairSpec
CONSTANTS
    CritCap = 1
    NormCap = 2
    MinBackoff = 2
    MaxBackoff = 3
    Maintenance = FALSE
    None = None
    MaxMsgs = 4
    MaxConns = 2
INVARIANTS
    TypeOK
    OnceInOrder
PROPERTIES
    DeliveredWhileStable
    BrokenLinkNoticed
CHECK_DEADLOCK FALSE
