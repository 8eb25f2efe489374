CONSTANTS
    ConnectTimeout = 4
    MaxReconnectDelay = 2
    Overrun = 1
    Oversleep = 1
    MaxOpens = 2
    MaxPending = 3
SPECIFICATION Spec
INVARIANTS OpenInTime NoNullUse OneSession UsabilityTrue
PROPERTY OpenEnds
CHECK_DEADLOCK FALSE
