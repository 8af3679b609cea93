SPECIFICATION FairSpec
CONSTANTS
    SevMin = 1
    CfgStates = {"firing"}
    NotifyOnResolved = FALSE
    Rate = 1
    WindowDur = 2
    KnownKind = TRUE
    RetryAfters = {0, 2}
    ErrorPause = 1
    RingCap = 2
    Inputs <- MCInputs
    None = None
    MaxTime = 4
    MaxEvents = 3
INVARIANTS
    TypeOK
    RateHonoured
    PostsJustified
PROPERTY
    JobEnds
CHECK_DEADLOCK FALSE
