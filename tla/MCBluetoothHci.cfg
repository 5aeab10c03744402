SPECIFICATION LiveSpec
CONSTANTS
    Fds <- MCFds
    MaxSessions = 2
    MaxBytes = 3
    MaxPokes = 1
CHECK_DEADLOCK FALSE
INVARIANT StartsOneThread
INVARIANT StopIsFinal
INVARIANT CallsOnlyWatched
INVARIANT CallsOnOpenSession
PROPERTY StopReturns
PROPERTY OldBytesStay
PROPERTY LaterBytesReachPacketizer
