SPECIFICATION FairSpec
CONSTANTS
    LegIds <- TCPOnly
    NoLeg = "unknown"
    NoCarrier = NoCarrier
    Watcher = Watcher
    CandidateLists <- TwoRelays
    RetriesPerRelay = 2
    MaxGeneration = 2
    Carriers = {1, 2}
    Workers = {1}
    Senders = {s1}
    Billable = {s1}
    MaxAttempts = 1
    KCPDisabled = FALSE
    SingleTCP = TRUE
    PersistentKCP = FALSE
PROPERTIES Shutdown
CHECK_DEADLOCK FALSE
