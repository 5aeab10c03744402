SPECIFICATION LiveSpec
CONSTANTS
    OutStreams = {o1}
    InStreams = {}
    Slots = {t1, t2}
    MaxTries = 2
    Overlap = TRUE
    None = None
CHECK_DEADLOCK FALSE
PROPERTY DisableEndsCall
