SPECIFICATION Spec
CONSTANTS
    ReNotify = 2
    InhibitMax = 2
    Configs = {{"boot"}, {"lifecycle"}}
    None = None
    MaxTime = 3
    MaxBoots = 2
    MaxStarts = 3
    LaneCap = 1
    MaxSignals = 2
INVARIANTS
    TypeOK
    ReportedOncePerBoot
PROPERTY
    HeardMeansAnnounced
CHECK_DEADLOCK FALSE
