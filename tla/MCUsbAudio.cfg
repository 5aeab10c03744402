SPECIFICATION LiveSpec
CONSTANTS
    OutStreams = {o1}
    InStreams = {i1}
    Slots = {t1}
    MaxTries = 2
    Overlap = FALSE
    None = None
CHECK_DEADLOCK FALSE
INVARIANT PcmsSound
INVARIANT CallGetsCard
INVARIANT RadioFollows
PROPERTY DisableEndsCall
PROPERTY RequestsReturn
