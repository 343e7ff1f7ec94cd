SPECIFICATION Spec
CONSTANTS
    WindowSize = 4
    DownCount = 2
    UpCount = 3
    Total <- Frames
    Workloads <- CalleeSends
    Carriers = {1, 2}
    KCP = {1}
INVARIANT EndToEndAck
CHECK_DEADLOCK FALSE
