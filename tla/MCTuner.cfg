SPECIFICATION LiveSpec
CONSTANTS
    Configs <- SmallConfigs
    Selectors <- SmallSelectors
    MaxTasks = 2
    MayCancel = TRUE
CHECK_DEADLOCK FALSE
INVARIANT CloseDropsWork
PROPERTY StepStaysInBand
PROPERTY ConfigApplied
