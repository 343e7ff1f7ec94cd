SPECIFICATION EventualSpec
CONSTANTS
    Parts = {"billing", "routes", "pool", "metering"}
    m1 = m1  m2 = m2
    Messages = {m1, m2}
    Bytes <- MCBytes
    Window = 3
    MaxTry = 2
    MaxSession = 3
    Conns = {1}
    FaultSets <- MCFaultSets
    MaxFaults = 1
    hostRouteBroadcastQueueCapacity = 1
    MaxInFlight = 2
    PhysConns = {c1, c2}
    poolMaxConns = 2
    minWarmConns = 1
    burstBatchSize = 2
    burstTriggerCount = 2
    MaxPoolStreams = 1
    MaxPoolFaults = 1
    Frames = {0, 1}
    Threshold = 2
    MaxFreeRepeats = 1
    CacheQuota = 1
    Balance = 2
    MaxSends = 5
    MaxStops = 1
    MaxMeterFaults = 2
INVARIANTS
    ThresholdsAgree
    PoolBounds
    PaidOnce
PROPERTIES
    SessionRecovers
    SendsConclude
    OnlineKnown
    OfflineForgotten
    ClosedPoolReleases
CHECK_DEADLOCK FALSE
