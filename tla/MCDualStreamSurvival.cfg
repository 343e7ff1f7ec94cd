SPECIFICATION Spec
CONSTANTS
    LegIds <- MCLegIds
    NoLeg = "unknown"
    NoCarrier = NoCarrier
    Watcher = Watcher
    CandidateLists <- TwoRelays
    RetriesPerRelay = 1
    MaxGeneration = 2
    Carriers = {1, 2}
    Workers = {1, 2}
    Senders = {}
    Billable = {}
    MaxAttempts = 10
    KCPDisabled = FALSE
    SingleTCP = FALSE
    PersistentKCP = FALSE
PROPERTIES SurvivesWhileReconnecting
CHECK_DEADLOCK FALSE
