SPECIFICATION BrowserSpec
CONSTANTS
    None = None
    h1 = h1
    Agents = {h1}
    Peers = {p1}
    Metrics = {m1}
    Conns = {c1}
    ConnHost <- MCConnHost
    Operators = {o1}
    Subscribers = {b1}
    Wipes = {w1}
    OfflineAfter = 0
    RingCap = 2
    WriterCap = 1
    MaxTime = 1
    MaxLeaks = 1
    QueueCap = 1
    Limit = 1
    HistoryCap = 2
    MaxAlerts = 2
    MaxTs = 1
    MaxOpens = 2
    MaxWipes = 1
    MaxFetches = 2
    FeedCap = 3
INVARIANTS
    ViewsAgree
    HistoryGapsExplained
    WipeHonoured
    AlarmPopsOnce
CHECK_DEADLOCK FALSE
