SPECIFICATION CamdLiveSpec
CONSTANTS
    Jumps <- JumpSizes
    MaxJumps = 1
    Room = 1
    MaxFiles = 4
    MaxErrors = 1
PROPERTY MakesRoom
PROPERTY StaleKilled
PROPERTY RecordsAgain
