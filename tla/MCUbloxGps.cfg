SPECIFICATION LiveSpec
CONSTANTS
    Modes = {"standalone", "ms assisted"}
    MaxCmds = 1
CHECK_DEADLOCK FALSE
INVARIANT CountFollowsClients
INVARIANT StatusFollowsFramework
INVARIANT PublishOnlyWhenAsked
INVARIANT ReceiverStops
PROPERTY SessionsEnd
