SPECIFICATION Spec
CONSTANTS
    LegIds <- MCLegIds
    NoLeg = "unknown"
    NoCarrier = NoCarrier
    Watcher = Watcher
    CandidateLists <- TwoRelays
    RetriesPerRelay = 1
    MaxGeneration = 2
    Carriers = {1, 2}
    Workers = {1, 2}
    Senders = {s1}
    Billable = {s1}
    MaxAttempts = 1
    KCPDisabled = FALSE
    SingleTCP = FALSE
    PersistentKCP = FALSE
CONSTRAINT SendScope
INVARIANTS
    LegsConsistent
    NoCarrierLeak
    NoLostWakeup
CHECK_DEADLOCK FALSE
