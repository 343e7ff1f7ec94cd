SPECIFICATION Spec
CONSTANTS
    m1 = m1  m2 = m2
    Messages = {m1, m2}
    Bytes <- MCBytes
    Window = 3
    MaxTry = 2
    MaxSession = 2
    Conns = {1,2}
    FaultSets <- NetworkOnly
    MaxFaults = 2
INVARIANT NeverPoisoned
CHECK_DEADLOCK FALSE
