SPECIFICATION Spec
CONSTANTS
    Radix = 2
    Packets <- SmallPackets
    MaxSent = 3
PROPERTY DeliversPackets
PROPERTY AllDelivered
CHECK_DEADLOCK FALSE
