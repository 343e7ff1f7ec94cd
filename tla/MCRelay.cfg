SPECIFICATION RelaySpec
CONSTANTS
    Parts = {"queue", "registration", "links", "bridge", "striping"}
    v1 = v1  v2 = v2  v3 = v3  p1 = p1  p2 = p2  c1 = c1  c2 = c2
    Vouchers = {v1, v2, v3}
    Payers = {p1, p2}
    Payer <- MCPayer
    Channel <- MCChannel
    Size <- MCSize
    LegacyFile <- MCLegacyFile
    MaxItems = 3
    MaxBytes = 4
    MaxItemsPerPayer = 2
    MaxBytesPerPayer = 0
    DomainBytes = 1
    FrameOverhead = 1
    IdBytes = 1
    CompactionFloor = 5
    CompactionCeiling = 9
    Faults = {"closeFailed", "syncFailed", "shortWrite", "openFailed", "dirCloseFailed", "notInstalled"}
    MaxAppends = 5
    Sessions = {"s1", "s2"}
    Regs = {"r1"}
    BizConns = {"c1"}
    Legs = {x1, x2}
    MaxGroups = 3
    MaxResources = 2
    MaxArrivals = 4
    MaxRegFaults = 2
    Links = {"k1", "k2", "k3"}
    LinkSessions <- MCLinkSessions
    CtlSessions = {"s1", "s2", "s3"}
    PeerOf <- MCPeerOf
    AddrOf <- MCAddrOf
    BridgeLegs = {"b1", "b2", "b3"}
    CtlLinks = {x1, x2}
    MaxEntries = 2
    Phys = {1, 2}
    Width = 2
    MaxAttempts = 2
    MaxChunks = 2
    MaxBack = 1
    reasmMaxPending = 1
    MaxStripeFaults = 1
    MaxLostCloses = 1
SYMMETRY Symmetry
INVARIANTS
    ConnectionsKnown
    HostedMatchesGroup
    LinkTablesAgree
    LegsShareBridge
    OneAttemptInOrder
    NothingStranded
PROPERTY ImplementsDurableQueue
CHECK_DEADLOCK FALSE
