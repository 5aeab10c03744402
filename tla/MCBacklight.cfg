SPECIFICATION LiveSpec
CONSTANTS
    Clients = {c1, c2}
    Levels = {100, 105, 255}
    MaxCalls = 3
    MaxDeaths = 1
    MaxPlugs = 2
    MaxFails = 1
CHECK_DEADLOCK FALSE
INVARIANT HidShowsLast
PROPERTY LastWins
