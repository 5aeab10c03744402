SPECIFICATION LiveSpec
CONSTANTS
    BoostTime = 2
    max_clusters = 2
    LowPowerMax = {1}
    MaxTime = 5
INVARIANT BoostNeverOrphaned
INVARIANT DevfreqFollows
INVARIANT SettledFreq
PROPERTY BoostLasts
PROPERTY BoostEnds
