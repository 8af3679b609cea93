SPECIFICATION FairSpec
CONSTANTS
    ReNotify = 2
    Recovery = 1
    LaneCap = 1
    NetCap = 1
    None = None
    MaxFaults = 2
INVARIANTS
    TypeOK
    DisagreementExplained
    MutedExplained
PROPERTIES
    MaintenanceRespected
    StandingAlarmShown
