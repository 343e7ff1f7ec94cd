SPECIFICATION StorageSpec
CONSTANTS
    Parts = {"queue", "revocation", "logs", "holdback"}
    v1 = v1  v2 = v2  v3 = v3  p1 = p1  p2 = p2  c1 = c1  c2 = c2
    Vouchers = {v1, v2, v3}
    Payers = {p1, p2}
    Payer <- MCPayer
    Channel <- MCChannel
    Size <- MCSize
    LegacyFile <- MCLegacyFile
    MaxItems = 3
    MaxBytes = 4
    MaxItemsPerPayer = 2
    MaxBytesPerPayer = 0
    DomainBytes = 1
    FrameOverhead = 1
    IdBytes = 1
    CompactionFloor = 5
    CompactionCeiling = 9
    Faults = {"closeFailed", "syncFailed", "shortWrite", "openFailed", "dirCloseFailed", "dirSyncFailed", "notInstalled"}
    MaxAppends = 5
    DenyNodes = {"n1", "n2"}
    MaxLog = 2
    MaxRevFaults = 2
    LogWriters = {"w1", "w2", "rotation"}
    maxLines = 2
    archiveCapacity = 1
    MaxLines = 4
    MaxLogFaults = 2
    Pumps = {x1, x2}
    HoldConns = {"c1", "c2"}
    Messages <- MCMessages
    MsgConn <- MCMsgConn
    MsgKind <- MCMsgKind
    MsgFrames <- MCMsgFrames
    MsgSeq <- MCMsgSeq
    MsgE2E <- MCMsgE2E
    MaxConnectionMessages = 1
    MaxConnectionFrames = 2
    MaxGlobalMessages = 2
    MaxGlobalFrames = 3
    MaxConnections = 2
    MaxApproved = 1
    MaxConnectionApproved = 1
    MaxHoldFaults = 1
SYMMETRY PumpSymmetry
INVARIANTS
    ReopenAccepts
    MemoryMirrorsFile
    AccountingExact
    DenySurvivesRestart
    DeniedHostedOnlyLate
    LogKept
    ForwardedWasAccepted
    CountersExact
    NoStrandedRecord
