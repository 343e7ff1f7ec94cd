SPECIFICATION FairSpec
CONSTANTS
    m1 = m1  m2 = m2
    Messages = {m1}
    Bytes <- MCBytes
    Window = 3
    MaxTry = 2
    MaxSession = 3
    Conns = {1}
    FaultSets <- Reconnecting
    MaxFaults = 2
PROPERTY Recovers
CHECK_DEADLOCK FALSE
