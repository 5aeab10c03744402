SPECIFICATION LiveSpec
CONSTANTS
    MaxCalls = 4
    MaxEpochs = 2
    EpochsPerDay = 2
    Home = 0
    Zones = {1}
    MaxMoves = 1
    MaxLine = 1
CHECK_DEADLOCK FALSE
INVARIANT FixOfItsDay
PROPERTY PositionsAdvance
PROPERTY LastCommandHeard
PROPERTY CleanupEnds
