SPECIFICATION PortLiveSpec
CONSTANTS
    NTuners = 2
    MaxFrames = 3
CHECK_DEADLOCK FALSE
INVARIANT LeavesLittle
PROPERTY FirstProcessed
