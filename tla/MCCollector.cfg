SPECIFICATION FairSpec
CONSTANTS
    h1 = h1
    None = None
    Agents = {h1}
    Peers = {}
    Metrics = {m1}
    Conns = {c1, c2}
    ConnHost <- MCConnHost
    Operators = {o1}
    Subscribers = {}
    OfflineAfter = 0
    RingCap = 1
    WriterCap = 1
    MaxTime = 1
    MaxLeaks = 1
INVARIANTS
    TypeOK
    CountAccounted
    OfflineAlertJustified
PROPERTY
    WatcherCatchesUp
