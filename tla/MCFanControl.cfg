SPECIFICATION FanSpec
CONSTANT Readings <- AroundThresholds
INVARIANT SpeedFits
PROPERTY Settles
