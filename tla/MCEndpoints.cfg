SPECIFICATION EndSpec
CONSTANTS
    Parts = {"transfer", "table", "service", "tunnel"}
    WindowSize = 4
    DownCount = 2
    UpCount = 3
    Total <- Frames
    Workloads <- AllWorkloads
    Carriers = {1, 2}
    KCP = {1}
    Distances = {0, 1, 2}
    MaxDistance = 7
    maxSize = 2
    RemoveAfterFailures = 2
    ra = ra  rb = rb
    SvcCarriers = {ra, rb}
    SvcIds = {i1, i2}
    SvcWorkers = {w1, w2}
    maxSessions = 2
    acceptQueue = 1
    MaxMuxes <- MCMaxMuxes
    TunStreams = {1}
    MaxGens = 2
    acceptCapacity = 1
    MaxTunWork = 3
    TunFaults = TRUE
INVARIANTS
    EndToEndAckOnOnePath
    AcksTruthful
    AtMostOnce
    RoutingTableSound
    SessionsServedOnce
    RegistrationsTakenBack
    TunnelFaithful
CHECK_DEADLOCK FALSE
