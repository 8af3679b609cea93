SPECIFICATION PollersSpec
CONSTANTS
    Tasks = {poller, helper}
    poller = poller
    helper = helper
    key = key
    shared = shared
    TrackerCalls = {key, shared}
    TrackerDetections = 3
    Fingerprints <- MCFingerprints
    Drivers <- MCDrivers
    Severities = {"info", "warning", "critical"}
    None = None
    ReNotify = 2
    Recovery = 2
    Sustain = 2
    Rows <- MCRows
    Logs <- MCLogs
    Rank <- MCRank
    FirstId = 9
    Horizon <- MCHorizon
    MaxTime = 6
    MaxDetections = 7
    MaxThrottles = 2
    MaxEntries = 3
    NvmeChanges = 3
    ThermalChanges = 2
    HealthChanges = 2
INVARIANTS
    TypeOK
    NeverSilentTooLong
    ResolvedCountsEveryDetection
    ReadingsTold
    EscalationTold
    CountersExact
PROPERTIES
    RecoveryWindowHonoured
    LifecycleRefined
    FiringMeansSustained
    EntriesOnce
CHECK_DEADLOCK FALSE
