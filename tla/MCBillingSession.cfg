SPECIFICATION Spec
CONSTANTS
    m1 = m1  m2 = m2
    Messages = {m1, m2}
    Bytes <- MCBytes
    Window = 3
    MaxTry = 2
    MaxSession = 2
    Conns = {1, 2}
    FaultSets <- NetworkOrProcesses
    MaxFaults = 2
INVARIANTS
    OneChain
    QueueRestores
    CreditBounded
    NumberedAlike
    ConfirmedSigned
CHECK_DEADLOCK FALSE
