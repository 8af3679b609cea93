SPECIFICATION HardwareSpec
CONSTANTS
    None = None
    Generic = Generic
    Comms = {c1}
    StormWindow = 1
    StormCount = 2
    ReNotify = 2
    RingSize = 2
    Buffer = 2
    MaxTime = 3
    MaxLines = 5
    Devices = {"d1", "d2"}
    AerWindow = 2
    WarnCount = 2
    AerTime = 4
    AerLines = 4
    JournalLines = 4
    MaxChildren = 3
    FlapWindow = 1
    FlapThreshold = 3
    LinkTime = 3
    LinkChanges = 4
    MaxSessions = 2
    MaxCrc = 3
    CounterPolls = 5
    Hpe = {3}
    PercCount = 2
    RaidChanges = 3
    Disks = {"sda", "sdb"}
    Osds = {"o1", "o2"}
    StorageChanges = 4
    Dimms = {"A1", "B1"}
    Contains <- OwnNames
    CeMin = 1
    MaxCe = 1
    MaxUe = 1
    EccPolls = 3
    MaxFaults = 1
INVARIANTS
    LinesAccounted
    DownFollowsLink
    LossIffMissed
PROPERTIES
    RateIffDense
    DeltaExact
    KmsgDrains
CHECK_DEADLOCK FALSE
