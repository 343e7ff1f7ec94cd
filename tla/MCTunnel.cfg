SPECIFICATION TunSpec
CONSTANTS
    TunStreams = {1, 2}
    MaxGens = 2
    acceptCapacity = 1
    MaxTunWork = 2
    TunFaults = FALSE
INVARIANT ClientKeepsReading
CHECK_DEADLOCK FALSE
